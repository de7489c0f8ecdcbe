--------------------------- MODULE RingBufferProofs ---------------------------
(* The safety invariant on which the `unsafe` blocks of the ring buffer rest, *)
(* for every requested capacity, every storage that holds it and every        *)
(* element type: the initialised slots are those of the live window.  And     *)
(* what the window is for: the ring implements Deque.  Then the statistics of *)
(* a window: both accumulators are worth the samples in it.                   *)
EXTENDS RingBuffer, RingStatistics, SequenceTheorems, WellFoundedInduction, TLAPS

----------------------------------------------------------------------------
(* Index arithmetic                                                        *)

LEMMA Bounds == Asked \in Nat /\ Asked >= 1 /\ Cap \in Nat /\ Cap >= Asked
  BY RingAssumed DEF RingAssumption

\* The remainder of what wraps at most once.
LEMMA WrapOnce ==
    ASSUME NEW h \in RingSlots, NEW i \in 0 .. Cap
    PROVE  (h + i) % Cap = IF h + i < Cap THEN h + i ELSE h + i - Cap
  <1>1. h \in Nat /\ i \in Nat /\ Cap \in Nat /\ Cap > 0 /\ h + i < 2 * Cap
    BY Bounds DEF RingSlots
  <1> QED BY <1>1

\* A logical index is a slot.
LEMMA AtIs ==
    ASSUME NEW c \in Cursors, NEW i \in 0 .. Cap
    PROVE  /\ At(c, i) = IF c.head + i < Cap THEN c.head + i ELSE c.head + i - Cap
           /\ At(c, i) \in RingSlots
  <1>1. PICK h \in RingSlots : h = c.head
    BY DEF Cursors
  <1>2. At(c, i) = IF c.head + i < Cap THEN c.head + i ELSE c.head + i - Cap
    BY <1>1, WrapOnce DEF At
  <1> QED BY <1>1, <1>2, Bounds DEF RingSlots

\* How far a slot is from the head.
Dist(c, s) == IF s >= c.head THEN s - c.head ELSE s + Cap - c.head

\* The window is what is closer to the head than the number of elements.
LEMMA LiveDist ==
    ASSUME NEW c \in Cursors, NEW s \in RingSlots
    PROVE  s \in Live(c) <=> Dist(c, s) < c.n
  <1>1. c.head \in 0 .. Cap - 1 /\ c.n \in 0 .. Asked /\ s \in 0 .. Cap - 1
    BY DEF Cursors, RingSlots
  <1>2. Dist(c, s) \in 0 .. Cap - 1
    BY <1>1, Bounds DEF Dist
  <1>3. At(c, Dist(c, s)) = s
    BY <1>1, <1>2, AtIs, Bounds DEF Dist
  <1>4. ASSUME NEW i \in 0 .. c.n - 1, At(c, i) = s PROVE Dist(c, s) = i
    BY <1>1, <1>4, AtIs, Bounds DEF Dist
  <1> QED BY <1>1, <1>2, <1>3, <1>4 DEF Live

\* push_head_index takes the slot before the head, and the last one leaves a full window.
LEMMA PushHeadWindow ==
    ASSUME NEW c \in Cursors
    PROVE  /\ PushHead(c) \in Cursors
           /\ LastSlot(c) \in RingSlots \/ c.n = 0
           /\ \A s \in RingSlots : s \in Live(PushHead(c)) <=>
                 s = PushHead(c).head \/ (s \in Live(c) /\ ~(IsFull(c) /\ s = LastSlot(c)))
  <1> DEFINE d == PushHead(c)
  <1>1. c.head \in 0 .. Cap - 1 /\ c.n \in 0 .. Asked
    BY DEF Cursors, RingSlots
  <1>2. d.head = (IF c.head = 0 THEN Cap - 1 ELSE c.head - 1) /\ d.head \in RingSlots
    BY <1>1, AtIs, Bounds DEF PushHead
  <1>3. d.n = (IF c.n = Asked THEN c.n ELSE c.n + 1) /\ d \in Cursors
    BY <1>1, <1>2, Bounds DEF PushHead, IsFull, Cursors
  <1>4. c.n > 0 => /\ LastSlot(c) = IF c.head + c.n - 1 < Cap THEN c.head + c.n - 1
                                    ELSE c.head + c.n - 1 - Cap
                   /\ LastSlot(c) \in RingSlots
    BY <1>1, AtIs, Bounds DEF LastSlot
  <1>5. ASSUME NEW s \in RingSlots
        PROVE  Dist(d, s) < d.n <=>
                  s = d.head \/ (Dist(c, s) < c.n /\ ~(c.n = Asked /\ s = LastSlot(c)))
    BY <1>1, <1>2, <1>3, <1>4, Bounds DEF Dist, RingSlots
  <1> QED BY <1>1, <1>3, <1>4, <1>5, LiveDist DEF IsFull

\* push_tail_index takes the slot at the tail, and the head leaves a full window.
LEMMA PushTailWindow ==
    ASSUME NEW c \in Cursors
    PROVE  /\ PushTail(c) \in Cursors /\ TailOf(c) \in RingSlots
           /\ \A s \in RingSlots : s \in Live(PushTail(c)) <=>
                 s = TailOf(c) \/ (s \in Live(c) /\ ~(IsFull(c) /\ s = c.head))
  <1> DEFINE d == PushTail(c)
  <1>1. c.head \in 0 .. Cap - 1 /\ c.n \in 0 .. Asked /\ c = [head |-> c.head, n |-> c.n]
    BY DEF Cursors, RingSlots
  <1>2. /\ TailOf(c) = IF c.head + c.n < Cap THEN c.head + c.n ELSE c.head + c.n - Cap
        /\ TailOf(c) \in RingSlots
    BY <1>1, AtIs, Bounds DEF TailOf
  <1>3. CASE c.n = Asked
    <2>1. At(c, 1) = (IF c.head + 1 < Cap THEN c.head + 1 ELSE 0) /\ At(c, 1) \in RingSlots
      BY <1>1, AtIs, Bounds
    <2>2. d.head = At(c, 1) /\ d.n = c.n /\ d \in Cursors
      BY <1>1, <1>3, <2>1 DEF PushTail, IsFull, Cursors
    <2>3. ASSUME NEW s \in RingSlots
          PROVE  Dist(d, s) < d.n <=> s = TailOf(c) \/ (Dist(c, s) < c.n /\ s # c.head)
      BY <1>1, <1>2, <1>3, <2>1, <2>2, Bounds DEF Dist, RingSlots
    <2> QED BY <1>2, <1>3, <2>2, <2>3, LiveDist DEF IsFull
  <1>4. CASE c.n # Asked
    <2>1. d.head = c.head /\ d.n = c.n + 1 /\ d \in Cursors
      BY <1>1, <1>4, Bounds DEF PushTail, IsFull, Cursors, RingSlots
    <2>2. ASSUME NEW s \in RingSlots
          PROVE  Dist(d, s) < d.n <=> s = TailOf(c) \/ Dist(c, s) < c.n
      BY <1>1, <1>2, <1>4, <2>1, Bounds DEF Dist, RingSlots
    <2> QED BY <1>2, <1>4, <2>1, <2>2, LiveDist DEF IsFull
  <1> QED BY <1>3, <1>4

\* pop_tail_index gives the last slot back.
LEMMA PopTailWindow ==
    ASSUME NEW c \in Cursors, c.n > 0
    PROVE  /\ PopTail(c) \in Cursors
           /\ TailOf(PopTail(c)) \in RingSlots /\ TailOf(PopTail(c)) \in Live(c)
           /\ \A s \in RingSlots : s \in Live(PopTail(c)) <=>
                 s \in Live(c) /\ s # TailOf(PopTail(c))
  <1> DEFINE d == PopTail(c)
  <1>1. c.head \in 0 .. Cap - 1 /\ c.n \in 1 .. Asked /\ c = [head |-> c.head, n |-> c.n]
    BY DEF Cursors, RingSlots
  <1>2. d.head = c.head /\ d.n = c.n - 1 /\ d \in Cursors
    BY <1>1, Bounds DEF PopTail, Cursors, RingSlots
  <1>3. /\ TailOf(d) = IF c.head + c.n - 1 < Cap THEN c.head + c.n - 1
                       ELSE c.head + c.n - 1 - Cap
        /\ TailOf(d) \in RingSlots
    BY <1>1, <1>2, AtIs, Bounds DEF TailOf
  <1>4. ASSUME NEW s \in RingSlots
        PROVE  /\ Dist(d, s) < d.n <=> Dist(c, s) < c.n /\ s # TailOf(d)
               /\ s = TailOf(d) => Dist(c, s) < c.n
    BY <1>1, <1>2, <1>3, Bounds DEF Dist, RingSlots
  <1> QED BY <1>2, <1>3, <1>4, LiveDist

\* skip gives the first k slots back.
LEMMA SkipWindow ==
    ASSUME NEW c \in Cursors, NEW k \in 0 .. c.n
    PROVE  /\ Skip(c, k) \in Cursors
           /\ \A s \in RingSlots : s \in Live(Skip(c, k)) <=>
                 s \in Live(c) /\ s \notin Live([c EXCEPT !.n = k])
  <1> DEFINE d == Skip(c, k)
             e == [c EXCEPT !.n = k]
  <1>1. c.head \in 0 .. Cap - 1 /\ c.n \in 0 .. Asked /\ c = [head |-> c.head, n |-> c.n]
    BY DEF Cursors, RingSlots
  <1>2. /\ At(c, k) = IF c.head + k < Cap THEN c.head + k ELSE c.head + k - Cap
        /\ At(c, k) \in RingSlots
    BY <1>1, AtIs, Bounds
  <1>3. d.head = At(c, k) /\ d.n = c.n - k /\ d \in Cursors
    BY <1>1, <1>2, Bounds DEF Skip, Cursors
  <1>4. e.head = c.head /\ e.n = k /\ e \in Cursors
    BY <1>1, Bounds DEF Cursors, RingSlots
  <1>5. ASSUME NEW s \in RingSlots
        PROVE  Dist(d, s) < d.n <=> Dist(c, s) < c.n /\ ~(Dist(e, s) < e.n)
    BY <1>1, <1>2, <1>3, <1>4, Bounds DEF Dist, RingSlots
  <1> QED BY <1>3, <1>4, <1>5, LiveDist

\* The first slot of a window is its head.
LEMMA HeadWindow ==
    ASSUME NEW c \in Cursors, c.n > 0
    PROVE  /\ c.head \in RingSlots /\ c.head \in Live(c)
           /\ \A s \in RingSlots : s \in Live([c EXCEPT !.n = 1]) <=> s = c.head
  <1> DEFINE e == [c EXCEPT !.n = 1]
  <1>1. c.head \in 0 .. Cap - 1 /\ c.n \in 1 .. Asked /\ c = [head |-> c.head, n |-> c.n]
    BY DEF Cursors, RingSlots
  <1>2. e.head = c.head /\ e.n = 1 /\ e \in Cursors
    BY <1>1, Bounds DEF Cursors, RingSlots
  <1>3. ASSUME NEW s \in RingSlots
        PROVE  /\ Dist(e, s) < e.n <=> s = c.head
               /\ s = c.head => Dist(c, s) < c.n
    BY <1>1, <1>2, Bounds DEF Dist, RingSlots
  <1>4. c.head \in RingSlots
    BY <1>1 DEF RingSlots
  <1> QED BY <1>2, <1>3, <1>4, LiveDist

\* The slices of as_slices chained are the window in logical order.
LEMMA ChainIsWindow ==
    ASSUME NEW c \in Cursors, NEW k \in 0 .. c.n - 1
    PROVE  ChainSlot(c, k) = At(c, k) /\ At(c, k) \in RingSlots /\ At(c, k) \in Live(c)
  <1>1. c.head \in 0 .. Cap - 1 /\ c.n \in 0 .. Asked
    BY DEF Cursors, RingSlots
  <1>2. At(c, k) \in RingSlots /\ At(c, k) = IF c.head + k < Cap THEN c.head + k ELSE c.head + k - Cap
    BY <1>1, AtIs, Bounds
  <1>3. ChainSlot(c, k) = At(c, k)
    BY <1>1, <1>2, Bounds DEF ChainSlot, FirstLen, Lesser
  <1> QED BY <1>2, <1>3 DEF Live

----------------------------------------------------------------------------
(* The invariant                                                           *)

\* The two slices of a drain end in the storage, and meet at its end.
DrainInv ==
    /\ DrainTracksHead
    /\ drain.on =>
          /\ drain.firstLen > 0 => drain.first + drain.firstLen <= Cap
          /\ drain.second + drain.secondLen <= Cap
          /\ drain.firstLen > 0 /\ drain.secondLen > 0 =>
                drain.first + drain.firstLen = Cap /\ drain.second = 0

IndInv == TypeOK /\ ExactlyWindow /\ DrainInv

\* An empty ring.
LEMMA InitIndInv == Init => IndInv
  <1> SUFFICES ASSUME Init PROVE IndInv
    OBVIOUS
  <1>1. cursor \in Cursors /\ cursor.n = 0
    BY Bounds DEF Init, NewCursor, Cursors, RingSlots
  <1>2. TypeOK
    BY <1>1, Bounds DEF Init, TypeOK, NoDrain
  <1>3. Live(cursor) = {}
    BY <1>1 DEF Live
  <1>4. ExactlyWindow
    BY <1>3 DEF Init, ExactlyWindow
  <1>5. DrainInv
    BY DEF Init, DrainInv, DrainTracksHead, NoDrain
  <1> QED BY <1>2, <1>4, <1>5 DEF IndInv

\* What an owned ring keeps as long as no drain is started.
LEMMA OwnedKeeps ==
    ASSUME IndInv, Owned, UNCHANGED drain, live' \in BOOLEAN, cursor' \in Cursors,
           storage' \in [RingSlots -> Values \cup {Uninit}], out' \in Values \cup {None},
           ExactlyWindow'
    PROVE  IndInv'
  BY DEF IndInv, TypeOK, Owned, DrainInv, DrainTracksHead

\* A slot of the window holds a value that can be handed out.
LEMMA WindowHolds ==
    ASSUME IndInv, NEW s \in RingSlots, s \in Live(cursor)
    PROVE  storage[s] \in Values
  BY DEF IndInv, TypeOK, ExactlyWindow

\* A value is written to the slot that the window grows by.
LEMMA PutKeeps ==
    ASSUME IndInv, Owned, UNCHANGED <<drain, live>>, NEW s \in RingSlots, NEW v \in Values,
           cursor' \in Cursors, out' \in Values \cup {None},
           storage' = [storage EXCEPT ![s] = v],
           \A x \in RingSlots : x \in Live(cursor') <=> x = s \/ x \in Live(cursor)
    PROVE  IndInv'
  <1>1. storage' \in [RingSlots -> Values \cup {Uninit}] /\ live' \in BOOLEAN
    BY DEF IndInv, TypeOK
  <1>2. ExactlyWindow'
    BY BufferAssumed DEF IndInv, TypeOK, ExactlyWindow, BufferAssumption
  <1> QED BY <1>1, <1>2, OwnedKeeps

\* Values are moved out of the slots that the window loses; a value that needs no drop
\* may stay behind.
LEMMA TakeKeeps ==
    ASSUME IndInv, Owned, UNCHANGED drain, live' \in BOOLEAN, NEW gone,
           cursor' \in Cursors, out' \in Values \cup {None},
           \/ storage' = [x \in RingSlots |-> IF x \in gone THEN Uninit ELSE storage[x]]
           \/ ~NeedsDrop /\ UNCHANGED storage,
           \A x \in RingSlots : x \in Live(cursor') <=> x \in Live(cursor) /\ x \notin gone
    PROVE  IndInv'
  <1>1. storage' \in [RingSlots -> Values \cup {Uninit}]
    BY DEF IndInv, TypeOK
  <1>2. ExactlyWindow'
    BY DEF IndInv, TypeOK, ExactlyWindow
  <1> QED BY <1>1, <1>2, OwnedKeeps

----------------------------------------------------------------------------
(* The calls                                                               *)

LEMMA TryPushKeeps ==
    ASSUME IndInv, NEW v \in Values, TryPushHead(v) \/ TryPushTail(v)
    PROVE  IndInv'
  <1>0. cursor \in Cursors /\ Owned /\ UNCHANGED <<drain, live>>
    BY DEF IndInv, TypeOK, TryPushHead, TryPushTail
  <1>1. CASE UNCHANGED <<cursor, storage>>
    <2>1. out' \in Values \cup {None}
      BY DEF TryPushHead, TryPushTail
    <2> QED BY <1>0, <1>1, <2>1 DEF IndInv, TypeOK, ExactlyWindow, DrainInv, DrainTracksHead
  <1>2. CASE /\ TryPushHead(v) /\ ~IsFull(cursor) /\ out' = None
             /\ cursor' = PushHead(cursor)
             /\ storage' = [storage EXCEPT ![cursor'.head] = v]
    <2>1. cursor'.head \in RingSlots
      BY <1>0, <1>2, PushHeadWindow DEF Cursors
    <2> QED BY <1>0, <1>2, <2>1, PushHeadWindow, PutKeeps
  <1>3. CASE /\ TryPushTail(v) /\ ~IsFull(cursor) /\ out' = None
             /\ cursor' = PushTail(cursor)
             /\ storage' = [storage EXCEPT ![TailOf(cursor)] = v]
    BY <1>0, <1>3, PushTailWindow, PutKeeps
  <1> QED BY <1>1, <1>2, <1>3 DEF TryPushHead, TryPushTail

LEMMA PushHeadInnerKeeps ==
    ASSUME IndInv, NEW v \in Values, PushHeadInner(v)
    PROVE  IndInv'
  <1> DEFINE s == PushHead(cursor).head
             e == LastSlot(cursor)
  <1>0. /\ cursor \in Cursors /\ Owned /\ UNCHANGED <<drain, live>>
        /\ cursor' = PushHead(cursor) /\ cursor' \in Cursors /\ s \in RingSlots
    BY PushHeadWindow DEF IndInv, TypeOK, PushHeadInner, Evicting, Cursors
  <1>1. CASE ~IsFull(cursor)
    <2>1. out' = None /\ storage' = [storage EXCEPT ![s] = v]
      BY <1>1 DEF PushHeadInner, Evicting
    <2> QED BY <1>0, <1>1, <2>1, PushHeadWindow, PutKeeps
  <1>2. CASE IsFull(cursor)
    <2>1. /\ out' = storage[e]
          /\ storage' = [[storage EXCEPT ![e] = Uninit] EXCEPT ![s] = v]
      BY <1>2 DEF PushHeadInner, Evicting
    <2>2. cursor.n - 1 \in 0 .. cursor.n - 1
      BY <1>0, <1>2, Bounds DEF IsFull
    <2>3. e \in RingSlots /\ e \in Live(cursor)
      BY <1>0, <2>2, ChainIsWindow DEF LastSlot
    <2>4. storage[e] \in Values
      BY <2>3, WindowHolds
    <2>5. storage' \in [RingSlots -> Values \cup {Uninit}]
      BY <1>0, <2>1, <2>3 DEF IndInv, TypeOK
    <2>6. \A x \in RingSlots : x \in Live(cursor') <=> x = s \/ (x \in Live(cursor) /\ x # e)
      BY <1>0, <1>2, PushHeadWindow
    <2>7. ExactlyWindow'
      BY <1>0, <2>1, <2>3, <2>6, BufferAssumed
      DEF IndInv, TypeOK, ExactlyWindow, BufferAssumption
    <2> QED BY <1>0, <2>1, <2>4, <2>5, <2>7, OwnedKeeps DEF IndInv, TypeOK
  <1> QED BY <1>1, <1>2

LEMMA PushTailInnerKeeps ==
    ASSUME IndInv, NEW v \in Values, PushTailInner(v)
    PROVE  IndInv'
  <1> DEFINE s == TailOf(cursor)
             e == cursor.head
  <1>0. /\ cursor \in Cursors /\ Owned /\ UNCHANGED <<drain, live>>
        /\ cursor' = PushTail(cursor) /\ cursor' \in Cursors /\ s \in RingSlots
    BY PushTailWindow DEF IndInv, TypeOK, PushTailInner, Evicting
  <1>1. CASE ~IsFull(cursor)
    <2>1. out' = None /\ storage' = [storage EXCEPT ![s] = v]
      BY <1>1 DEF PushTailInner, Evicting
    <2> QED BY <1>0, <1>1, <2>1, PushTailWindow, PutKeeps
  <1>2. CASE IsFull(cursor)
    <2>1. /\ out' = storage[e]
          /\ storage' = [[storage EXCEPT ![e] = Uninit] EXCEPT ![s] = v]
      BY <1>2 DEF PushTailInner, Evicting
    <2>2. cursor.n > 0
      BY <1>2, Bounds DEF IsFull
    <2>3. e \in RingSlots /\ e \in Live(cursor)
      BY <1>0, <2>2, HeadWindow
    <2>4. storage[e] \in Values
      BY <2>3, WindowHolds
    <2>5. storage' \in [RingSlots -> Values \cup {Uninit}]
      BY <1>0, <2>1, <2>3 DEF IndInv, TypeOK
    <2>6. \A x \in RingSlots : x \in Live(cursor') <=> x = s \/ (x \in Live(cursor) /\ x # e)
      BY <1>0, <1>2, PushTailWindow
    <2>7. ExactlyWindow'
      BY <1>0, <2>1, <2>3, <2>6, BufferAssumed
      DEF IndInv, TypeOK, ExactlyWindow, BufferAssumption
    <2> QED BY <1>0, <2>1, <2>4, <2>5, <2>7, OwnedKeeps DEF IndInv, TypeOK
  <1> QED BY <1>1, <1>2

LEMMA PopKeeps ==
    ASSUME IndInv, PopHeadCall \/ PopTailCall
    PROVE  IndInv'
  <1>0. cursor \in Cursors /\ Owned /\ UNCHANGED <<drain, live>> /\ live' \in BOOLEAN
    BY DEF IndInv, TypeOK, PopHeadCall, PopTailCall
  <1>1. CASE cursor.n = 0
    <2>1. out' = None /\ UNCHANGED <<cursor, storage>>
      BY <1>1 DEF PopHeadCall, PopTailCall
    <2> QED BY <1>0, <2>1 DEF IndInv, TypeOK, ExactlyWindow, DrainInv, DrainTracksHead
  <1>2. CASE PopHeadCall /\ cursor.n # 0
    <2>1. cursor.n > 0 /\ 1 \in 0 .. cursor.n
      BY <1>0, <1>2 DEF Cursors
    <2>2. /\ out' = storage[cursor.head] /\ cursor' = Skip(cursor, 1)
          /\ storage' = [storage EXCEPT ![cursor.head] = Uninit]
      BY <1>2 DEF PopHeadCall
    <2>3. out' \in Values
      BY <1>0, <2>1, <2>2, HeadWindow, WindowHolds
    <2>4. cursor' \in Cursors /\ \A x \in RingSlots : x \in Live(cursor') <=>
                                    x \in Live(cursor) /\ x \notin {cursor.head}
      BY <1>0, <2>1, <2>2, HeadWindow, SkipWindow
    <2>5. storage' = [x \in RingSlots |-> IF x \in {cursor.head} THEN Uninit ELSE storage[x]]
      BY <2>2 DEF IndInv, TypeOK
    <2> QED BY <1>0, <2>3, <2>4, <2>5, TakeKeeps
  <1>3. CASE PopTailCall /\ cursor.n # 0
    <2>1. cursor.n > 0
      BY <1>0, <1>3 DEF Cursors
    <2>2. /\ cursor' = PopTail(cursor) /\ out' = storage[TailOf(cursor')]
          /\ storage' = [storage EXCEPT ![TailOf(cursor')] = Uninit]
      BY <1>3 DEF PopTailCall
    <2>3. out' \in Values
      BY <1>0, <2>1, <2>2, PopTailWindow, WindowHolds
    <2>4. cursor' \in Cursors /\ \A x \in RingSlots : x \in Live(cursor') <=>
                                    x \in Live(cursor) /\ x \notin {TailOf(cursor')}
      BY <1>0, <2>1, <2>2, PopTailWindow
    <2>5. storage' = [x \in RingSlots |-> IF x \in {TailOf(cursor')} THEN Uninit ELSE storage[x]]
      BY <2>2 DEF IndInv, TypeOK
    <2> QED BY <1>0, <2>3, <2>4, <2>5, TakeKeeps
  <1> QED BY <1>1, <1>2, <1>3

LEMMA PeekKeeps ==
    ASSUME IndInv, NEW i \in 0 .. Asked, Peek(i) \/ (\E v \in Values : PeekMut(i, v))
    PROVE  IndInv'
  <1>0. cursor \in Cursors /\ Owned /\ UNCHANGED <<cursor, drain, live>>
    BY DEF IndInv, TypeOK, Peek, PeekMut
  <1>1. i < cursor.n => At(cursor, i) \in RingSlots /\ At(cursor, i) \in Live(cursor)
    BY <1>0, ChainIsWindow DEF Cursors
  <1>2. CASE Peek(i)
    <2>1. out' \in Values \cup {None}
      BY <1>1, <1>2, WindowHolds DEF Peek
    <2> QED BY <1>0, <1>2, <2>1
            DEF Peek, IndInv, TypeOK, ExactlyWindow, DrainInv, DrainTracksHead
  <1>3. ASSUME NEW v \in Values, PeekMut(i, v) PROVE IndInv'
    <2>1. /\ storage' = [storage EXCEPT ![At(cursor, i)] = v] /\ UNCHANGED out
          /\ At(cursor, i) \in RingSlots /\ At(cursor, i) \in Live(cursor)
      BY <1>1, <1>3 DEF PeekMut
    <2>2. out' \in Values \cup {None}
      BY <2>1 DEF IndInv, TypeOK
    <2> QED BY <1>0, <2>1, <2>2, PutKeeps
  <1> QED BY <1>2, <1>3

\* skip, clear and drop: the first elements go.
LEMMA SkipKeeps ==
    ASSUME IndInv, (\E by \in 0 .. Asked : SkipCall(by)) \/ Clear \/ DropRing
    PROVE  IndInv'
  <1>0. cursor \in Cursors /\ cursor.n \in 0 .. Asked /\ Owned /\ UNCHANGED drain /\ out' = None
    BY DEF IndInv, TypeOK, SkipCall, Clear, DropRing, Cursors
  <1>1. CASE DropRing /\ ~NeedsDrop
    <2>1. /\ cursor' = NewCursor /\ cursor' \in Cursors /\ live' \in BOOLEAN
          /\ storage' = [s \in RingSlots |-> Uninit]
      <3>1. NewCursor \in Cursors
        BY Bounds DEF NewCursor, Cursors, RingSlots
      <3> QED BY <1>1, <3>1, Zenon DEF DropRing
    <2>2. Live(cursor') = {}
      BY <2>1 DEF Live, NewCursor
    <2>3. ExactlyWindow' /\ storage' \in [RingSlots -> Values \cup {Uninit}]
      BY <2>1, <2>2 DEF ExactlyWindow
    <2> QED BY <1>0, <2>1, <2>3, OwnedKeeps
  <1>2. CASE ~(DropRing /\ ~NeedsDrop)
    <2>1. PICK k \in 0 .. cursor.n :
             /\ cursor' = Skip(cursor, k)
             /\ storage' = Emptied(k) \/ (~NeedsDrop /\ UNCHANGED storage)
      BY <1>0, <1>2 DEF SkipCall, Clear, DropRing, Lesser
    <2>2. live' \in BOOLEAN
      BY DEF IndInv, TypeOK, SkipCall, Clear, DropRing
    <2> DEFINE gone == Live([cursor EXCEPT !.n = k])
    <2>3. cursor' \in Cursors /\ \A x \in RingSlots : x \in Live(cursor') <=>
                                    x \in Live(cursor) /\ x \notin gone
      BY <1>0, <2>1, SkipWindow
    <2>4. \/ storage' = [x \in RingSlots |-> IF x \in gone THEN Uninit ELSE storage[x]]
          \/ ~NeedsDrop /\ UNCHANGED storage
      BY <2>1 DEF Emptied
    <2> HIDE DEF gone
    <2> QED BY <1>0, <2>2, <2>3, <2>4, TakeKeeps
  <1> QED BY <1>1, <1>2

LEMMA CloneKeeps ==
    ASSUME IndInv, CloneRing
    PROVE  IndInv'
  <1>0. cursor \in Cursors /\ cursor.n \in 0 .. Asked /\ Owned /\ UNCHANGED <<drain, out, live>>
    BY DEF IndInv, TypeOK, CloneRing, Cursors
  <1>1. cursor' \in Cursors /\ cursor'.head = 0 /\ cursor'.n = cursor.n
    BY <1>0, Bounds DEF CloneRing, Cursors, RingSlots
  <1>2. \A s \in RingSlots : s \in Live(cursor') <=> s < cursor.n
    BY <1>1, LiveDist DEF Dist, RingSlots
  <1>3. \A s \in RingSlots : storage'[s] = IF s < cursor.n THEN storage[ChainSlot(cursor, s)]
                                       ELSE Uninit
    BY DEF CloneRing
  <1>4. \A s \in RingSlots : s < cursor.n => storage[ChainSlot(cursor, s)] \in Values
    <2> SUFFICES ASSUME NEW s \in RingSlots, s < cursor.n
                 PROVE  storage[ChainSlot(cursor, s)] \in Values
      OBVIOUS
    <2>1. s \in 0 .. cursor.n - 1
      BY <1>0, Bounds DEF RingSlots
    <2>2. ChainSlot(cursor, s) \in RingSlots /\ ChainSlot(cursor, s) \in Live(cursor)
      BY <1>0, <2>1, ChainIsWindow
    <2> QED BY <2>2, WindowHolds
  <1>5. storage' \in [RingSlots -> Values \cup {Uninit}]
    BY <1>4 DEF CloneRing
  <1>6. ExactlyWindow'
    BY <1>2, <1>3, <1>4, BufferAssumed DEF ExactlyWindow, BufferAssumption
  <1> QED BY <1>0, <1>1, <1>5, <1>6, OwnedKeeps DEF IndInv, TypeOK

----------------------------------------------------------------------------
(* The drain                                                               *)

LEMMA StartDrainKeeps ==
    ASSUME IndInv, StartDrain
    PROVE  IndInv'
  <1>1. /\ UNCHANGED <<cursor, storage, out, live>>
        /\ drain' = [on |-> TRUE, first |-> cursor.head, firstLen |-> FirstLen(cursor),
                     second |-> 0, secondLen |-> SecondLen(cursor)]
    BY DEF StartDrain
  <1>2. cursor.head \in 0 .. Cap - 1 /\ cursor.n \in 0 .. Asked
    BY DEF IndInv, TypeOK, Cursors, RingSlots
  <1>3. /\ FirstLen(cursor) \in 0 .. Cap /\ SecondLen(cursor) \in 0 .. Cap
        /\ FirstLen(cursor) + SecondLen(cursor) = cursor.n
        /\ SecondLen(cursor) > 0 => FirstLen(cursor) = Cap - cursor.head
        /\ FirstLen(cursor) <= Cap - cursor.head
    <2>1. FirstLen(cursor) = IF cursor.n = 0 THEN 0
                             ELSE IF Cap - cursor.head <= cursor.n THEN Cap - cursor.head
                             ELSE cursor.n
      BY DEF FirstLen, Lesser
    <2>2. SecondLen(cursor) = cursor.n - FirstLen(cursor)
      BY DEF SecondLen
    <2> QED BY <1>2, <2>1, <2>2, Bounds
  <1>4. drain' \in [on : BOOLEAN, first : 0 .. Cap, firstLen : 0 .. Cap,
                    second : 0 .. Cap, secondLen : 0 .. Cap]
    BY <1>1, <1>2, <1>3, Bounds
  <1>5. DrainInv'
    BY <1>1, <1>2, <1>3, Bounds DEF DrainInv, DrainTracksHead
  <1> QED BY <1>1, <1>4, <1>5 DEF IndInv, TypeOK, ExactlyWindow

\* Releasing the slot at the head.
LEMMA ReleaseKeeps ==
    ASSUME IndInv, cursor.n > 0, Release(cursor.head)
    PROVE  /\ cursor' \in Cursors /\ out' \in Values /\ cursor'.n = cursor.n - 1
           /\ cursor'.head = IF cursor.head + 1 < Cap THEN cursor.head + 1 ELSE 0
           /\ storage' \in [RingSlots -> Values \cup {Uninit}] /\ ExactlyWindow'
  <1>1. cursor \in Cursors /\ cursor.head \in 0 .. Cap - 1 /\ cursor.n \in 1 .. Asked
    BY DEF IndInv, TypeOK, Cursors, RingSlots
  <1>2. /\ cursor' = Skip(cursor, 1) /\ out' = storage[cursor.head]
        /\ storage' = [storage EXCEPT ![cursor.head] = Uninit]
    BY <1>1, Bounds DEF Release, Lesser
  <1>3. /\ cursor' \in Cursors
        /\ \A x \in RingSlots : x \in Live(cursor') <=> x \in Live(cursor) /\ x # cursor.head
    <2>1. cursor.n > 0 /\ 1 \in 0 .. cursor.n
      BY <1>1
    <2> QED BY <1>1, <1>2, <2>1, HeadWindow, SkipWindow
  <1>4. cursor'.n = cursor.n - 1 /\ cursor'.head = At(cursor, 1)
    BY <1>2 DEF Skip
  <1>5. At(cursor, 1) = IF cursor.head + 1 < Cap THEN cursor.head + 1 ELSE 0
    BY <1>1, AtIs, Bounds
  <1>6. out' \in Values
    BY <1>1, <1>2, HeadWindow, WindowHolds
  <1>7. storage' \in [RingSlots -> Values \cup {Uninit}]
    BY <1>2 DEF IndInv, TypeOK
  <1>8. ExactlyWindow'
    BY <1>2, <1>3 DEF IndInv, TypeOK, ExactlyWindow
  <1> QED BY <1>3, <1>4, <1>5, <1>6, <1>7, <1>8

LEMMA DrainNextKeeps ==
    ASSUME IndInv, DrainNext
    PROVE  IndInv'
  <1>0. /\ drain.on /\ UNCHANGED live /\ cursor.n \in 0 .. Asked
        /\ cursor.head \in 0 .. Cap - 1
        /\ drain.first \in 0 .. Cap /\ drain.firstLen \in 0 .. Cap
        /\ drain.second \in 0 .. Cap /\ drain.secondLen \in 0 .. Cap
        /\ drain = [on |-> TRUE, first |-> drain.first, firstLen |-> drain.firstLen,
                    second |-> drain.second, secondLen |-> drain.secondLen]
    BY DEF DrainNext, IndInv, TypeOK, Cursors, RingSlots
  <1>1. CASE drain.firstLen # 0
    <2>1. /\ drain' = [drain EXCEPT !.first = @ + 1, !.firstLen = @ - 1]
          /\ Release(drain.first)
      BY <1>1 DEF DrainNext
    <2>2. drain.first = cursor.head /\ cursor.n > 0
      BY <1>0, <1>1 DEF IndInv, DrainInv, DrainTracksHead
    <2>3. /\ cursor' \in Cursors /\ out' \in Values /\ cursor'.n = cursor.n - 1
          /\ cursor'.head = IF cursor.head + 1 < Cap THEN cursor.head + 1 ELSE 0
          /\ storage' \in [RingSlots -> Values \cup {Uninit}] /\ ExactlyWindow'
      BY <2>1, <2>2, ReleaseKeeps
    <2>4. /\ drain' = [on |-> TRUE, first |-> drain.first + 1, firstLen |-> drain.firstLen - 1,
                       second |-> drain.second, secondLen |-> drain.secondLen]
          /\ drain' \in [on : BOOLEAN, first : 0 .. Cap, firstLen : 0 .. Cap,
                         second : 0 .. Cap, secondLen : 0 .. Cap]
      <3>1. drain' = [on |-> TRUE, first |-> drain.first + 1, firstLen |-> drain.firstLen - 1,
                      second |-> drain.second, secondLen |-> drain.secondLen]
        BY <1>0, <2>1
      <3>2. drain.first + 1 \in 0 .. Cap /\ drain.firstLen - 1 \in 0 .. Cap
        BY <1>0, <1>1, <2>2, Bounds
      <3> QED BY <1>0, <3>1, <3>2
    <2>5. DrainInv'
      BY <1>0, <1>1, <2>2, <2>3, <2>4, Bounds DEF IndInv, DrainInv, DrainTracksHead
    <2> QED BY <1>0, <2>3, <2>4, <2>5 DEF IndInv, TypeOK
  <1>2. CASE drain.firstLen = 0 /\ drain.secondLen # 0
    <2>1. /\ drain' = [drain EXCEPT !.second = @ + 1, !.secondLen = @ - 1]
          /\ Release(drain.second)
      BY <1>2 DEF DrainNext
    <2>2. drain.second = cursor.head /\ cursor.n > 0 /\ cursor.n = drain.secondLen
      BY <1>0, <1>2 DEF IndInv, DrainInv, DrainTracksHead
    <2>3. /\ cursor' \in Cursors /\ out' \in Values /\ cursor'.n = cursor.n - 1
          /\ cursor'.head = IF cursor.head + 1 < Cap THEN cursor.head + 1 ELSE 0
          /\ storage' \in [RingSlots -> Values \cup {Uninit}] /\ ExactlyWindow'
      BY <2>1, <2>2, ReleaseKeeps
    <2>4. /\ drain' = [on |-> TRUE, first |-> drain.first, firstLen |-> drain.firstLen,
                       second |-> drain.second + 1, secondLen |-> drain.secondLen - 1]
          /\ drain' \in [on : BOOLEAN, first : 0 .. Cap, firstLen : 0 .. Cap,
                         second : 0 .. Cap, secondLen : 0 .. Cap]
      <3>1. drain' = [on |-> TRUE, first |-> drain.first, firstLen |-> drain.firstLen,
                      second |-> drain.second + 1, secondLen |-> drain.secondLen - 1]
        BY <1>0, <2>1
      <3>2. drain.second + 1 \in 0 .. Cap /\ drain.secondLen - 1 \in 0 .. Cap
        BY <1>0, <1>2, <2>2, Bounds
      <3> QED BY <1>0, <3>1, <3>2
    <2>5. DrainInv'
      BY <1>0, <1>2, <2>2, <2>3, <2>4, Bounds DEF IndInv, DrainInv, DrainTracksHead
    <2> QED BY <1>0, <2>3, <2>4, <2>5 DEF IndInv, TypeOK
  <1>3. CASE drain.firstLen = 0 /\ drain.secondLen = 0
    <2>1. out' = None /\ UNCHANGED <<cursor, storage, drain>>
      BY <1>3 DEF DrainNext
    <2> QED BY <1>0, <2>1 DEF IndInv, TypeOK, ExactlyWindow, DrainInv, DrainTracksHead
  <1> QED BY <1>1, <1>2, <1>3

LEMMA DropDrainKeeps ==
    ASSUME IndInv, DropDrain
    PROVE  IndInv'
  <1>1. drain' = NoDrain /\ UNCHANGED <<cursor, storage, out, live>>
    BY DEF DropDrain
  <1>2. TypeOK'
    BY <1>1, Bounds DEF IndInv, TypeOK, NoDrain
  <1>3. ExactlyWindow' /\ DrainInv'
    BY <1>1 DEF IndInv, ExactlyWindow, DrainInv, DrainTracksHead, NoDrain
  <1> QED BY <1>2, <1>3 DEF IndInv

----------------------------------------------------------------------------
(* The theorems                                                            *)

\* Every call, and every step of a drain, preserves the invariant.
LEMMA NextIndInv == IndInv /\ [Next]_vars => IndInv'
  <1> SUFFICES ASSUME IndInv, [Next]_vars PROVE IndInv'
    OBVIOUS
  <1>1. ASSUME NEW v \in Values, TryPushHead(v) \/ TryPushTail(v) PROVE IndInv'
    BY <1>1, TryPushKeeps
  <1>2. ASSUME NEW v \in Values, PushHeadInner(v) PROVE IndInv'
    BY <1>2, PushHeadInnerKeeps
  <1>3. ASSUME NEW v \in Values, PushTailInner(v) PROVE IndInv'
    BY <1>3, PushTailInnerKeeps
  <1>4. ASSUME NEW v \in Values, NEW i \in 0 .. Asked - 1, PeekMut(i, v) PROVE IndInv'
    <2>1. i \in 0 .. Asked
      BY Bounds
    <2> QED BY <1>4, <2>1, PeekKeeps
  <1>5. CASE PopHeadCall \/ PopTailCall
    BY <1>5, PopKeeps
  <1>6. CASE Clear \/ DropRing
    BY <1>6, SkipKeeps
  <1>7. CASE CloneRing
    BY <1>7, CloneKeeps
  <1>8. ASSUME NEW i \in 0 .. Asked, Peek(i) PROVE IndInv'
    BY <1>8, PeekKeeps
  <1>9. ASSUME NEW i \in 0 .. Asked, SkipCall(i) PROVE IndInv'
    BY <1>9, SkipKeeps
  <1>10. CASE StartDrain
    BY <1>10, StartDrainKeeps
  <1>11. CASE DrainNext
    BY <1>11, DrainNextKeeps
  <1>12. CASE DropDrain
    BY <1>12, DropDrainKeeps
  <1>13. CASE UNCHANGED vars
    BY <1>13 DEF vars, IndInv, TypeOK, ExactlyWindow, DrainInv, DrainTracksHead
  <1> QED BY <1>1, <1>2, <1>3, <1>4, <1>5, <1>6, <1>7, <1>8, <1>9, <1>10, <1>11, <1>12,
             <1>13 DEF Next

THEOREM RingIndInv == Spec => []IndInv
  BY InitIndInv, NextIndInv, PTL DEF Spec

\* "Exactly the slots of the live window are initialised" (ring_buffer.rs:8-13), for every
\* capacity and every element type: no call reads a slot that holds nothing, none leaves a
\* value behind that would have to be dropped.
THEOREM RingExactlyWindow == Spec => []ExactlyWindow
  <1>1. IndInv => ExactlyWindow
    BY DEF IndInv
  <1> QED BY <1>1, RingIndInv, PTL

\* The iterator, clone and drain walk the window in logical order, wrapped or not, and a
\* drain reads at the head it moves (ring_buffer.rs:226-241, :311-340).
THEOREM RingWalksFollow == Spec => []WindowWalks
  <1>1. IndInv => WindowWalks
    <2> SUFFICES ASSUME IndInv PROVE WindowWalks
      OBVIOUS
    <2>1. SlicesChain
      BY ChainIsWindow DEF IndInv, TypeOK, SlicesChain
    <2> QED BY <2>1 DEF IndInv, DrainInv, WalksFollow, WindowWalks
  <1> QED BY <1>1, RingIndInv, PTL

----------------------------------------------------------------------------
(* Sequences, element by element                                           *)

LEMMA ConsIs ==
    ASSUME NEW S, NEW s \in Seq(S), NEW e \in Seq(S), NEW v \in S, Len(e) = Len(s) + 1,
           e[1] = v, \A i \in 1 .. Len(s) : e[i + 1] = s[i]
    PROVE  e = <<v>> \o s
  <1>1. <<v>> \in Seq(S) /\ Len(<<v>>) = 1 /\ <<v>>[1] = v
    OBVIOUS
  <1>2. Len(s) \in Nat
    BY LenProperties
  <1>3. /\ <<v>> \o s \in Seq(S) /\ Len(<<v>> \o s) = 1 + Len(s)
        /\ \A i \in 1 .. 1 + Len(s) : (<<v>> \o s)[i] = IF i <= 1 THEN <<v>>[i] ELSE s[i - 1]
    BY <1>1, ConcatProperties
  <1>4. ASSUME NEW i \in 1 .. Len(e) PROVE e[i] = (<<v>> \o s)[i]
    <2>1. CASE i = 1
      BY <1>1, <1>2, <1>3, <2>1
    <2>2. CASE i # 1
      <3>1. i - 1 \in 1 .. Len(s) /\ i = (i - 1) + 1
        BY <1>2, <2>2
      <3> QED BY <1>2, <1>3, <2>2, <3>1
    <2> QED BY <2>1, <2>2
  <1> QED BY <1>2, <1>3, <1>4, SeqEqual

LEMMA AppendIs ==
    ASSUME NEW S, NEW s \in Seq(S), NEW e \in Seq(S), NEW v \in S, Len(e) = Len(s) + 1,
           e[Len(e)] = v, \A i \in 1 .. Len(s) : e[i] = s[i]
    PROVE  e = Append(s, v)
  <1>1. Len(s) \in Nat
    BY LenProperties
  <1>2. /\ Append(s, v) \in Seq(S) /\ Len(Append(s, v)) = Len(s) + 1
        /\ \A i \in 1 .. Len(s) : Append(s, v)[i] = s[i]
        /\ Append(s, v)[Len(s) + 1] = v
    BY AppendProperties
  <1>3. \A i \in 1 .. Len(e) : e[i] = Append(s, v)[i]
    BY <1>1, <1>2
  <1> QED BY <1>2, <1>3, SeqEqual

\* A sequence that has some of the elements of another, without a gap.
LEMMA SliceIs ==
    ASSUME NEW S, NEW s \in Seq(S), NEW e \in Seq(S), NEW k \in Nat, Len(e) + k <= Len(s),
           \A i \in 1 .. Len(e) : e[i] = s[k + i]
    PROVE  e = SubSeq(s, k + 1, k + Len(e))
  <1>1. Len(s) \in Nat /\ Len(e) \in Nat
    BY LenProperties
  <1>2. \A i \in k + 1 .. k + Len(e) : s[i] \in S
    BY <1>1, ElementOfSeq
  <1>3. /\ SubSeq(s, k + 1, k + Len(e)) \in Seq(S) /\ Len(SubSeq(s, k + 1, k + Len(e))) = Len(e)
        /\ \A i \in 1 .. Len(e) : SubSeq(s, k + 1, k + Len(e))[i] = s[k + i]
    <2>1. /\ SubSeq(s, k + 1, k + Len(e)) \in Seq(S)
          /\ Len(SubSeq(s, k + 1, k + Len(e))) =
                IF k + 1 <= k + Len(e) THEN k + Len(e) - (k + 1) + 1 ELSE 0
          /\ \A i \in 1 .. k + Len(e) - (k + 1) + 1 :
                SubSeq(s, k + 1, k + Len(e))[i] = s[k + 1 + i - 1]
      BY <1>1, <1>2, SubSeqProperties
    <2>2. /\ k + Len(e) - (k + 1) + 1 = Len(e) /\ \A i \in 1 .. Len(e) : k + 1 + i - 1 = k + i
          /\ (IF k + 1 <= k + Len(e) THEN k + Len(e) - (k + 1) + 1 ELSE 0) = Len(e)
      BY <1>1
    <2> DEFINE t == SubSeq(s, k + 1, k + Len(e))
    <2> HIDE DEF t
    <2>3. /\ t \in Seq(S) /\ Len(t) = Len(e)
          /\ \A i \in 1 .. Len(e) : t[i] = s[k + 1 + i - 1]
      BY <2>1, <2>2 DEF t
    <2>4. \A i \in 1 .. Len(e) : t[i] = s[k + i]
      BY <2>2, <2>3
    <2> QED BY <2>3, <2>4 DEF t
  <1> QED BY <1>3, SeqEqual

LEMMA TailIs ==
    ASSUME NEW S, NEW s \in Seq(S), NEW e \in Seq(S), Len(s) = Len(e) + 1,
           \A i \in 1 .. Len(e) : e[i] = s[i + 1]
    PROVE  e = Tail(s)
  <1>1. Len(e) \in Nat /\ s # <<>>
    BY LenProperties, EmptySeq
  <1>2. /\ Tail(s) \in Seq(S) /\ Len(Tail(s)) = Len(s) - 1
        /\ \A i \in 1 .. Len(Tail(s)) : Tail(s)[i] = s[i + 1]
    BY <1>1, HeadTailProperties
  <1>3. Len(Tail(s)) = Len(e)
    BY <1>1, <1>2
  <1> QED BY <1>2, <1>3, SeqEqual

LEMMA FrontIs ==
    ASSUME NEW S, NEW s \in Seq(S), NEW e \in Seq(S), Len(s) = Len(e) + 1,
           \A i \in 1 .. Len(e) : e[i] = s[i]
    PROVE  e = D!Front(s)
  <1>1. Len(e) \in Nat
    BY LenProperties
  <1>2. e = SubSeq(s, 0 + 1, 0 + Len(e))
    BY <1>1, SliceIs
  <1> QED BY <1>1, <1>2 DEF D!Front

\* What is left after the first, and after the last element.
LEMMA Halves ==
    ASSUME NEW S, NEW s \in Seq(S), Len(s) > 0
    PROVE  /\ Tail(s) \in Seq(S) /\ Len(Tail(s)) = Len(s) - 1
           /\ \A i \in 1 .. Len(s) - 1 : Tail(s)[i] = s[i + 1]
           /\ D!Front(s) \in Seq(S) /\ Len(D!Front(s)) = Len(s) - 1
           /\ \A i \in 1 .. Len(s) - 1 : D!Front(s)[i] = s[i]
  <1>1. Len(s) \in Nat /\ s # <<>>
    BY LenProperties, EmptySeq
  <1>2. /\ Tail(s) \in Seq(S) /\ Len(Tail(s)) = Len(s) - 1
        /\ \A i \in 1 .. Len(Tail(s)) : Tail(s)[i] = s[i + 1]
    BY <1>1, HeadTailProperties
  <1>3. \A i \in 1 .. Len(s) - 1 : s[i] \in S
    BY <1>1, ElementOfSeq
  <1>4. /\ SubSeq(s, 1, Len(s) - 1) \in Seq(S)
        /\ Len(SubSeq(s, 1, Len(s) - 1)) = IF 1 <= Len(s) - 1 THEN Len(s) - 1 - 1 + 1 ELSE 0
        /\ \A i \in 1 .. Len(s) - 1 - 1 + 1 : SubSeq(s, 1, Len(s) - 1)[i] = s[1 + i - 1]
    BY <1>1, <1>3, SubSeqProperties
  <1> QED BY <1>1, <1>2, <1>4 DEF D!Front

----------------------------------------------------------------------------
(* The elements of a window                                                *)

Elements(c, st) == [i \in 1 .. c.n |-> st[At(c, i - 1)]]

Holds(c, st) == c \in Cursors /\ \A s \in RingSlots : s \in Live(c) => st[s] \in Values

LEMMA ElementsSeq ==
    ASSUME NEW c, NEW st, Holds(c, st)
    PROVE  /\ Elements(c, st) \in Seq(Values) /\ Len(Elements(c, st)) = c.n /\ c.n \in 0 .. Asked
           /\ \A i \in 1 .. c.n : Elements(c, st)[i] = st[At(c, i - 1)]
  <1>1. c \in Cursors /\ c.n \in 0 .. Asked
    BY DEF Holds, Cursors
  <1>2. \A i \in 1 .. c.n : st[At(c, i - 1)] \in Values
    <2> SUFFICES ASSUME NEW i \in 1 .. c.n PROVE st[At(c, i - 1)] \in Values
      OBVIOUS
    <2>1. i - 1 \in 0 .. c.n - 1
      BY <1>1, Bounds
    <2> QED BY <1>1, <2>1, ChainIsWindow DEF Holds
  <1>3. Elements(c, st) \in [1 .. c.n -> Values]
    BY <1>2 DEF Elements
  <1>4. c.n \in Nat
    BY <1>1, Bounds
  <1>5. Elements(c, st) \in Seq(Values) /\ Len(Elements(c, st)) = c.n
    BY <1>3, <1>4
  <1> QED BY <1>1, <1>5 DEF Elements

\* Two logical indices are two slots.
LEMMA AtInjective ==
    ASSUME NEW c \in Cursors, NEW i \in 0 .. Cap - 1, NEW j \in 0 .. Cap - 1, At(c, i) = At(c, j)
    PROVE  i = j
  <1>1. c.head \in 0 .. Cap - 1
    BY DEF Cursors, RingSlots
  <1> QED BY <1>1, AtIs, Bounds

\* Where the elements of a moved cursor are.
LEMMA SkipPlaces ==
    ASSUME NEW c \in Cursors, NEW k \in 0 .. c.n, NEW i \in 0 .. c.n - k - 1
    PROVE  At(Skip(c, k), i) = At(c, i + k)
  <1>1. c.head \in 0 .. Cap - 1 /\ c.n \in 0 .. Asked
    BY DEF Cursors, RingSlots
  <1>2. Skip(c, k).head = At(c, k) /\ Skip(c, k) \in Cursors
    BY SkipWindow DEF Skip
  <1>3. i + k \in 0 .. Cap /\ k \in 0 .. Cap /\ i \in 0 .. Cap
    BY <1>1, Bounds
  <1>4. At(c, k) = IF c.head + k < Cap THEN c.head + k ELSE c.head + k - Cap
    BY <1>3, AtIs
  <1>5. At(c, i + k) = IF c.head + (i + k) < Cap THEN c.head + (i + k) ELSE c.head + (i + k) - Cap
    BY <1>3, AtIs
  <1>6. At(Skip(c, k), i) = IF At(c, k) + i < Cap THEN At(c, k) + i ELSE At(c, k) + i - Cap
    BY <1>2, <1>3, AtIs
  <1> QED BY <1>1, <1>3, <1>4, <1>5, <1>6, Bounds

LEMMA PushHeadPlaces ==
    ASSUME NEW c \in Cursors
    PROVE  /\ At(PushHead(c), 0) = PushHead(c).head
           /\ \A i \in 1 .. Asked - 1 :
                 /\ At(PushHead(c), i) = At(c, i - 1)
                 /\ At(c, i - 1) # PushHead(c).head
  <1> DEFINE d == PushHead(c)
  <1>1. d \in Cursors /\ c.head \in 0 .. Cap - 1
    BY PushHeadWindow DEF Cursors, RingSlots
  <1>2. d.head = (IF c.head = 0 THEN Cap - 1 ELSE c.head - 1) /\ d.head \in 0 .. Cap - 1
    <2>1. Cap - 1 \in 0 .. Cap
      BY Bounds
    <2>2. At(c, Cap - 1) = IF c.head + (Cap - 1) < Cap THEN c.head + (Cap - 1)
                           ELSE c.head + (Cap - 1) - Cap
      BY <2>1, AtIs
    <2>3. d.head = At(c, Cap - 1)
      BY DEF PushHead
    <2> QED BY <1>1, <2>2, <2>3, Bounds
  <1>3. At(d, 0) = d.head
    <2>1. 0 \in 0 .. Cap
      BY Bounds
    <2>2. At(d, 0) = IF d.head + 0 < Cap THEN d.head + 0 ELSE d.head + 0 - Cap
      BY <1>1, <2>1, AtIs
    <2> QED BY <1>2, <2>2, Bounds
  <1>4. ASSUME NEW i \in 1 .. Asked - 1
        PROVE  At(d, i) = At(c, i - 1) /\ At(c, i - 1) # d.head
    <2>1. i \in 0 .. Cap /\ i - 1 \in 0 .. Cap
      BY Bounds
    <2>2. At(d, i) = IF d.head + i < Cap THEN d.head + i ELSE d.head + i - Cap
      BY <1>1, <2>1, AtIs
    <2>3. At(c, i - 1) = IF c.head + (i - 1) < Cap THEN c.head + (i - 1) ELSE c.head + (i - 1) - Cap
      BY <2>1, AtIs
    <2> QED BY <1>1, <1>2, <2>1, <2>2, <2>3, Bounds
  <1> QED BY <1>3, <1>4

LEMMA PushTailPlaces ==
    ASSUME NEW c \in Cursors
    PROVE  /\ At(PushTail(c), PushTail(c).n - 1) = TailOf(c)
           /\ \A i \in 0 .. PushTail(c).n - 2 :
                 /\ At(PushTail(c), i) = At(c, IF IsFull(c) THEN i + 1 ELSE i)
                 /\ At(PushTail(c), i) # TailOf(c)
  <1> DEFINE d == PushTail(c)
  <1>1. d \in Cursors /\ c.head \in 0 .. Cap - 1 /\ c.n \in 0 .. Asked
    BY PushTailWindow DEF Cursors, RingSlots
  <1>2. TailOf(c) = IF c.head + c.n < Cap THEN c.head + c.n ELSE c.head + c.n - Cap
    BY <1>1, AtIs, Bounds DEF TailOf
  <1>3. CASE c.n = Asked
    <2>1. d.head = At(c, 1) /\ d.n = c.n
      BY <1>3 DEF PushTail, IsFull, Cursors
    <2>2. At(c, 1) = IF c.head + 1 < Cap THEN c.head + 1 ELSE c.head + 1 - Cap
      BY <1>1, AtIs, Bounds
    <2>3. \A i \in 0 .. Asked : At(d, i) = IF d.head + i < Cap THEN d.head + i ELSE d.head + i - Cap
      BY <1>1, AtIs, Bounds
    <2>4. \A i \in 0 .. Asked - 2 :
             At(c, i + 1) = IF c.head + (i + 1) < Cap THEN c.head + (i + 1) ELSE c.head + (i + 1) - Cap
      BY <1>1, AtIs, Bounds
    <2> HIDE DEF d
    <2>5. At(d, d.n - 1) = TailOf(c)
      <3>1. Asked - 1 \in 0 .. Asked /\ d.n - 1 = Asked - 1
        BY <1>3, <2>1, Bounds
      <3>2. At(d, Asked - 1) = IF d.head + (Asked - 1) < Cap THEN d.head + (Asked - 1)
                               ELSE d.head + (Asked - 1) - Cap
        BY <2>3, <3>1
      <3> QED BY <1>1, <1>2, <1>3, <2>1, <2>2, <3>1, <3>2, Bounds
    <2>6. ASSUME NEW i \in 0 .. Asked - 2 PROVE At(d, i) = At(c, i + 1) /\ At(d, i) # TailOf(c)
      <3>1. i \in 0 .. Asked
        BY Bounds
      <3>2. At(d, i) = IF d.head + i < Cap THEN d.head + i ELSE d.head + i - Cap
        BY <2>3, <3>1
      <3> QED BY <1>1, <1>2, <1>3, <2>1, <2>2, <2>4, <3>2, Bounds
    <2> QED BY <1>3, <2>1, <2>5, <2>6 DEF IsFull, d
  <1>4. CASE c.n # Asked
    <2>1. d.head = c.head /\ d.n = c.n + 1
      BY <1>1, <1>4, Bounds DEF PushTail, IsFull, Cursors
    <2>2. \A i \in 0 .. Asked : /\ At(d, i) = IF c.head + i < Cap THEN c.head + i ELSE c.head + i - Cap
                                /\ At(c, i) = At(d, i)
      BY <1>1, <2>1, AtIs, Bounds
    <2> HIDE DEF d
    <2>3. At(d, d.n - 1) = TailOf(c)
      BY <1>1, <2>1, <2>2, Bounds DEF TailOf
    <2>4. ASSUME NEW i \in 0 .. d.n - 2 PROVE At(d, i) = At(c, i) /\ At(d, i) # TailOf(c)
      BY <1>1, <1>2, <1>4, <2>1, <2>2, Bounds
    <2> QED BY <1>4, <2>3, <2>4 DEF IsFull, d
  <1> QED BY <1>3, <1>4

----------------------------------------------------------------------------
(* The ring implements Deque                                               *)

\* The contents before and after a step.
LEMMA ContentIs ==
    ASSUME IndInv, IndInv'
    PROVE  /\ Content = Elements(cursor, storage) /\ Content' = Elements(cursor', storage')
           /\ cursor \in Cursors /\ cursor' \in Cursors
           /\ cursor.n \in 0 .. Asked /\ cursor'.n \in 0 .. Asked
           /\ Content \in Seq(Values) /\ Content' \in Seq(Values)
           /\ Len(Content) = cursor.n /\ Len(Content') = cursor'.n
           /\ \A i \in 1 .. cursor.n : Content[i] = storage[At(cursor, i - 1)]
           /\ \A i \in 1 .. cursor'.n : Content'[i] = storage'[At(cursor', i - 1)]
           /\ \A i \in 0 .. cursor.n - 1 : At(cursor, i) \in RingSlots
           /\ \A i \in 0 .. cursor'.n - 1 : At(cursor', i) \in RingSlots
           /\ storage \in [RingSlots -> Values \cup {Uninit}]
  <1>1. Holds(cursor, storage) /\ Holds(cursor', storage')
    BY DEF IndInv, TypeOK, ExactlyWindow, Holds
  <1>2. Content = Elements(cursor, storage) /\ Content' = Elements(cursor', storage')
    BY DEF Content, Elements
  <1>3. cursor \in Cursors /\ cursor' \in Cursors
    BY <1>1 DEF Holds
  <1>4. storage \in [RingSlots -> Values \cup {Uninit}]
    BY DEF IndInv, TypeOK
  <1>5. /\ \A i \in 0 .. cursor.n - 1 : At(cursor, i) \in RingSlots
        /\ \A i \in 0 .. cursor'.n - 1 : At(cursor', i) \in RingSlots
    BY <1>3, ChainIsWindow
  <1> QED BY <1>1, <1>2, <1>3, <1>4, <1>5, ElementsSeq

\* A value that is put before the head, in a ring that keeps at least the first m elements.
LEMMA PutFirst ==
    ASSUME IndInv, IndInv', NEW v \in Values, cursor' = PushHead(cursor), NEW m \in Nat,
           m <= cursor.n, cursor'.n = m + 1,
           storage'[cursor'.head] = v,
           \A i \in 1 .. m : LET x == At(cursor, i - 1)
                             IN  x # cursor'.head => storage'[x] = storage[x]
    PROVE  Content'[1] = v /\ \A i \in 1 .. m : Content'[i + 1] = Content[i]
  <1>1. /\ cursor \in Cursors /\ cursor.n \in 0 .. Asked /\ cursor'.n \in 0 .. Asked
        /\ \A i \in 1 .. cursor.n : Content[i] = storage[At(cursor, i - 1)]
        /\ \A i \in 1 .. cursor'.n : Content'[i] = storage'[At(cursor', i - 1)]
    BY ContentIs
  <1>2. Content'[1] = v
    BY <1>1, PushHeadPlaces
  <1>3. ASSUME NEW i \in 1 .. m PROVE Content'[i + 1] = Content[i]
    <2>1. i + 1 \in 1 .. cursor'.n /\ i \in 1 .. cursor.n /\ i \in 1 .. Asked - 1
      BY <1>1, Bounds
    <2>2. At(cursor', i) = At(cursor, i - 1) /\ At(cursor, i - 1) # cursor'.head
      BY <1>1, <2>1, PushHeadPlaces
    <2>3. Content'[i + 1] = storage'[At(cursor', i)]
      BY <1>1, <2>1
    <2> QED BY <1>1, <2>1, <2>2, <2>3
  <1> QED BY <1>2, <1>3

LEMMA PutLast ==
    ASSUME IndInv, IndInv', NEW v \in Values, cursor' = PushTail(cursor),
           storage'[TailOf(cursor)] = v, cursor'.n > 0,
           \A i \in 0 .. cursor'.n - 2 : LET x == At(cursor', i)
                                         IN  x # TailOf(cursor) => storage'[x] = storage[x]
    PROVE  /\ Content'[cursor'.n] = v
           /\ \A i \in 1 .. cursor'.n - 1 :
                 Content'[i] = storage[At(cursor, IF IsFull(cursor) THEN i ELSE i - 1)]
  <1>1. /\ cursor \in Cursors /\ cursor'.n \in 0 .. Asked
        /\ \A i \in 1 .. cursor'.n : Content'[i] = storage'[At(cursor', i - 1)]
    BY ContentIs
  <1>2. Content'[cursor'.n] = v
    BY <1>1, PushTailPlaces
  <1>3. ASSUME NEW i \in 1 .. cursor'.n - 1
        PROVE  Content'[i] = storage[At(cursor, IF IsFull(cursor) THEN i ELSE i - 1)]
    <2>1. i \in 1 .. cursor'.n /\ i - 1 \in 0 .. cursor'.n - 2
      BY <1>1, Bounds
    <2>2. /\ At(cursor', i - 1) = At(cursor, IF IsFull(cursor) THEN (i - 1) + 1 ELSE i - 1)
          /\ At(cursor', i - 1) # TailOf(cursor)
      BY <1>1, <2>1, PushTailPlaces
    <2>3. (i - 1) + 1 = i
      BY <2>1
    <2> QED BY <1>1, <2>1, <2>2, <2>3
  <1> QED BY <1>2, <1>3

LEMMA TryPushOnDeque ==
    ASSUME IndInv, IndInv', NEW v \in Values, TryPushHead(v) \/ TryPushTail(v)
    PROVE  D!TryPush(v)
  <1>1. /\ cursor \in Cursors /\ cursor.n \in 0 .. Asked /\ Len(Content) = cursor.n
        /\ Content \in Seq(Values) /\ Content' \in Seq(Values) /\ Len(Content') = cursor'.n
        /\ \A i \in 1 .. cursor.n : Content[i] = storage[At(cursor, i - 1)]
        /\ \A i \in 0 .. cursor.n - 1 : At(cursor, i) \in RingSlots
        /\ storage \in [RingSlots -> Values \cup {Uninit}]
    BY ContentIs
  <1>2. CASE IsFull(cursor)
    <2>1. out' = v /\ UNCHANGED <<cursor, storage>>
      BY <1>2 DEF TryPushHead, TryPushTail
    <2>2. Content' = Content
      BY <2>1 DEF Content
    <2> QED BY <1>1, <1>2, <2>1, <2>2 DEF D!TryPush, D!Full, IsFull
  <1>3. CASE ~IsFull(cursor) /\ TryPushHead(v)
    <2>1. /\ cursor' = PushHead(cursor) /\ out' = None
          /\ storage' = [storage EXCEPT ![cursor'.head] = v]
      BY <1>3 DEF TryPushHead
    <2>2. cursor'.head \in RingSlots /\ cursor'.n = cursor.n + 1
      BY <1>1, <1>3, <2>1, PushHeadWindow DEF PushHead, Cursors
    <2>3. Content'[1] = v /\ \A i \in 1 .. cursor.n : Content'[i + 1] = Content[i]
      <3>1. \A i \in 1 .. cursor.n : i - 1 \in 0 .. cursor.n - 1
        BY <1>1, Bounds
      <3> QED BY <1>1, <2>1, <2>2, <3>1, Bounds, PutFirst
    <2>4. Content' = <<v>> \o Content
      BY <1>1, <2>2, <2>3, ConsIs
    <2> QED BY <1>1, <1>3, <2>1, <2>4 DEF D!TryPush, D!Full, IsFull
  <1>4. CASE ~IsFull(cursor) /\ TryPushTail(v)
    <2>1. /\ cursor' = PushTail(cursor) /\ out' = None
          /\ storage' = [storage EXCEPT ![TailOf(cursor)] = v]
      BY <1>4 DEF TryPushTail
    <2>2. TailOf(cursor) \in RingSlots /\ cursor'.n = cursor.n + 1
      BY <1>1, <1>4, <2>1, PushTailWindow DEF PushTail, Cursors
    <2>3. \A i \in 0 .. cursor'.n - 2 : At(cursor', i) = At(cursor, i)
      BY <1>1, <1>4, <2>1, PushTailPlaces
    <2>4. /\ Content'[cursor'.n] = v
          /\ \A i \in 1 .. cursor'.n - 1 : Content'[i] = storage[At(cursor, i - 1)]
      <3>1. \A i \in 0 .. cursor'.n - 2 : At(cursor', i) \in RingSlots
        BY <1>1, <2>2, <2>3, Bounds
      <3>2. cursor'.n > 0
        BY <1>1, <2>2, Bounds
      <3>3. storage'[TailOf(cursor)] = v
        BY <1>1, <2>1, <2>2
      <3>4. \A i \in 0 .. cursor'.n - 2 : LET x == At(cursor', i)
                                         IN  x # TailOf(cursor) => storage'[x] = storage[x]
        BY <1>1, <2>1, <3>1
      <3>5. /\ Content'[cursor'.n] = v
            /\ \A i \in 1 .. cursor'.n - 1 :
                  Content'[i] = storage[At(cursor, IF IsFull(cursor) THEN i ELSE i - 1)]
        BY <2>1, <3>2, <3>3, <3>4, PutLast
      <3> QED BY <1>4, <3>5
    <2>5. Content' = Append(Content, v)
      BY <1>1, <2>2, <2>4, AppendIs, Bounds
    <2> QED BY <1>1, <1>4, <2>1, <2>5 DEF D!TryPush, D!Full, IsFull
  <1> QED BY <1>2, <1>3, <1>4

\* push_head evicts the element at the tail of a full ring.
LEMMA PushHeadOnDeque ==
    ASSUME IndInv, IndInv', NEW v \in Values, PushHeadInner(v)
    PROVE  D!PushHead(v)
  <1>1. /\ cursor \in Cursors /\ cursor.n \in 0 .. Asked /\ Len(Content) = cursor.n
        /\ Content \in Seq(Values) /\ Content' \in Seq(Values) /\ Len(Content') = cursor'.n
        /\ \A i \in 1 .. cursor.n : Content[i] = storage[At(cursor, i - 1)]
        /\ \A i \in 0 .. cursor.n - 1 : At(cursor, i) \in RingSlots
        /\ storage \in [RingSlots -> Values \cup {Uninit}]
    BY ContentIs
  <1>2. cursor' = PushHead(cursor) /\ cursor'.head \in RingSlots
    BY <1>1, PushHeadWindow DEF PushHeadInner, Evicting, Cursors
  <1>3. CASE IsFull(cursor)
    <2>1. /\ out' = storage[LastSlot(cursor)]
          /\ storage' = [[storage EXCEPT ![LastSlot(cursor)] = Uninit] EXCEPT ![cursor'.head] = v]
      BY <1>2, <1>3 DEF PushHeadInner, Evicting
    <2>2. cursor.n = Asked /\ cursor'.n = Asked /\ cursor'.n = (Asked - 1) + 1
      BY <1>2, <1>3, Bounds DEF PushHead, IsFull
    <2>3. Content'[1] = v /\ \A i \in 1 .. Asked - 1 : Content'[i + 1] = Content[i]
      <3>1. ASSUME NEW i \in 1 .. Asked - 1, At(cursor, i - 1) # cursor'.head
            PROVE  storage'[At(cursor, i - 1)] = storage[At(cursor, i - 1)]
        <4>1. /\ i - 1 \in 0 .. Cap - 1 /\ Asked - 1 \in 0 .. Cap - 1 /\ i - 1 # Asked - 1
              /\ i - 1 \in 0 .. cursor.n - 1
          BY <2>2, Bounds
        <4>2. At(cursor, i - 1) # LastSlot(cursor)
          BY <1>1, <2>2, <4>1, AtInjective DEF LastSlot
        <4> QED BY <1>1, <2>1, <3>1, <4>1, <4>2
      <3>2. Asked - 1 \in Nat /\ Asked - 1 <= cursor.n
        BY <2>2, Bounds
      <3>3. storage'[cursor'.head] = v
        BY <1>1, <1>2, <2>1
      <3> QED BY <1>2, <2>2, <3>1, <3>2, <3>3, PutFirst
    <2>4. /\ D!Front(Content) \in Seq(Values) /\ Len(D!Front(Content)) = Asked - 1
          /\ \A i \in 1 .. Asked - 1 : D!Front(Content)[i] = Content[i]
      <3>1. Content \in Seq(Values) /\ Len(Content) > 0 /\ Len(Content) = Asked
        BY <1>1, <2>2, Bounds
      <3> QED BY <3>1, Halves
    <2>5. Content' = <<v>> \o D!Front(Content)
      <3>1. Len(Content') = Len(D!Front(Content)) + 1
        BY <1>1, <2>2, <2>4, Bounds
      <3>2. \A i \in 1 .. Len(D!Front(Content)) : Content'[i + 1] = D!Front(Content)[i]
        BY <2>3, <2>4
      <3> QED BY <1>1, <2>3, <2>4, <3>1, <3>2, ConsIs
    <2>6. out' = Content[Len(Content)]
      BY <1>1, <2>1, <2>2, Bounds DEF LastSlot
    <2> QED BY <1>1, <2>2, <2>5, <2>6 DEF D!PushHead, D!Full
  <1>4. CASE ~IsFull(cursor)
    <2>1. out' = None /\ storage' = [storage EXCEPT ![cursor'.head] = v]
      BY <1>2, <1>4 DEF PushHeadInner, Evicting
    <2>2. cursor'.n = cursor.n + 1
      BY <1>2, <1>4 DEF PushHead
    <2>3. Content'[1] = v /\ \A i \in 1 .. cursor.n : Content'[i + 1] = Content[i]
      <3>1. \A i \in 1 .. cursor.n : i - 1 \in 0 .. cursor.n - 1
        BY <1>1, Bounds
      <3> QED BY <1>1, <1>2, <2>1, <2>2, <3>1, Bounds, PutFirst
    <2>4. Content' = <<v>> \o Content
      BY <1>1, <2>2, <2>3, ConsIs
    <2> QED BY <1>1, <1>4, <2>1, <2>4 DEF D!PushHead, D!Full, IsFull
  <1> QED BY <1>3, <1>4

\* push_tail evicts the element at the head of a full ring.
LEMMA PushTailOnDeque ==
    ASSUME IndInv, IndInv', NEW v \in Values, PushTailInner(v)
    PROVE  D!PushTail(v)
  <1>1. /\ cursor \in Cursors /\ cursor.n \in 0 .. Asked /\ Len(Content) = cursor.n
        /\ cursor' \in Cursors /\ cursor'.n \in 0 .. Asked
        /\ Content \in Seq(Values) /\ Content' \in Seq(Values) /\ Len(Content') = cursor'.n
        /\ \A i \in 1 .. cursor.n : Content[i] = storage[At(cursor, i - 1)]
        /\ \A i \in 0 .. cursor'.n - 1 : At(cursor', i) \in RingSlots
        /\ storage \in [RingSlots -> Values \cup {Uninit}]
    BY ContentIs
  <1>2. cursor' = PushTail(cursor) /\ TailOf(cursor) \in RingSlots
    BY <1>1, PushTailWindow DEF PushTailInner, Evicting
  <1>3. CASE IsFull(cursor)
    <2>1. /\ out' = storage[cursor.head]
          /\ storage' = [[storage EXCEPT ![cursor.head] = Uninit] EXCEPT ![TailOf(cursor)] = v]
      BY <1>2, <1>3 DEF PushTailInner, Evicting
    <2>2. cursor.n = Asked /\ cursor'.n = Asked /\ cursor'.n > 0 /\ cursor.head \in RingSlots
      BY <1>1, <1>2, <1>3, Bounds DEF PushTail, IsFull, Cursors
    <2>3. At(cursor, 0) = cursor.head
      <3>1. 0 \in 0 .. Cap /\ cursor.head \in 0 .. Cap - 1
        BY <2>2, Bounds DEF RingSlots
      <3>2. At(cursor, 0) = IF cursor.head + 0 < Cap THEN cursor.head + 0 ELSE cursor.head + 0 - Cap
        BY <1>1, <3>1, AtIs
      <3> QED BY <3>1, <3>2, Bounds
    <2>4. Content'[Asked] = v /\ \A i \in 1 .. Asked - 1 : Content'[i] = storage[At(cursor, i)]
      <3>1. ASSUME NEW i \in 0 .. cursor'.n - 2, At(cursor', i) # TailOf(cursor)
            PROVE  storage'[At(cursor', i)] = storage[At(cursor', i)]
        <4>1. At(cursor', i) = At(cursor, i + 1)
          BY <1>1, <1>2, <1>3, PushTailPlaces
        <4>2. i + 1 \in 0 .. Cap - 1 /\ 0 \in 0 .. Cap - 1 /\ i + 1 # 0 /\ i \in 0 .. cursor'.n - 1
          BY <2>2, Bounds
        <4>3. At(cursor', i) # cursor.head
          BY <1>1, <2>3, <4>1, <4>2, AtInjective
        <4> QED BY <1>1, <2>1, <3>1, <4>2, <4>3
      <3>2. storage'[TailOf(cursor)] = v
        BY <1>1, <1>2, <2>1
      <3>3. /\ Content'[cursor'.n] = v
            /\ \A i \in 1 .. cursor'.n - 1 :
                  Content'[i] = storage[At(cursor, IF IsFull(cursor) THEN i ELSE i - 1)]
        BY <1>2, <2>2, <3>1, <3>2, PutLast
      <3> QED BY <1>3, <2>2, <3>3
    <2>5. /\ Tail(Content) \in Seq(Values) /\ Len(Tail(Content)) = Asked - 1
          /\ \A i \in 1 .. Asked - 1 : Tail(Content)[i] = Content[i + 1]
      BY <1>1, <2>2, Halves, Bounds
    <2>6. \A i \in 1 .. Asked - 1 : Content[i + 1] = storage[At(cursor, i)]
      <3> SUFFICES ASSUME NEW i \in 1 .. Asked - 1 PROVE Content[i + 1] = storage[At(cursor, i)]
        OBVIOUS
      <3>1. i + 1 \in 1 .. cursor.n /\ (i + 1) - 1 = i
        BY <2>2, Bounds
      <3> QED BY <1>1, <3>1
    <2>7. Content' = Append(Tail(Content), v)
      <3>1. Len(Content') = Len(Tail(Content)) + 1 /\ Len(Content') = Asked
        BY <1>1, <2>2, <2>5, Bounds
      <3>2. \A i \in 1 .. Len(Tail(Content)) : Content'[i] = Tail(Content)[i]
        BY <2>4, <2>5, <2>6
      <3> QED BY <1>1, <2>4, <2>5, <3>1, <3>2, AppendIs
    <2>8. out' = Content[1]
      BY <1>1, <2>1, <2>2, <2>3
    <2> QED BY <1>1, <2>2, <2>7, <2>8 DEF D!PushTail, D!Full
  <1>4. CASE ~IsFull(cursor)
    <2>1. out' = None /\ storage' = [storage EXCEPT ![TailOf(cursor)] = v]
      BY <1>2, <1>4 DEF PushTailInner, Evicting
    <2>2. cursor'.n = cursor.n + 1 /\ cursor'.n > 0
      BY <1>1, <1>2, <1>4, Bounds DEF PushTail, Cursors
    <2>3. /\ Content'[cursor'.n] = v
          /\ \A i \in 1 .. cursor'.n - 1 : Content'[i] = storage[At(cursor, i - 1)]
      <3>1. \A i \in 0 .. cursor'.n - 2 : LET x == At(cursor', i)
                                         IN  x # TailOf(cursor) => storage'[x] = storage[x]
        BY <1>1, <2>1
      <3>2. storage'[TailOf(cursor)] = v
        BY <1>1, <1>2, <2>1
      <3>3. /\ Content'[cursor'.n] = v
            /\ \A i \in 1 .. cursor'.n - 1 :
                  Content'[i] = storage[At(cursor, IF IsFull(cursor) THEN i ELSE i - 1)]
        BY <1>2, <2>2, <3>1, <3>2, PutLast
      <3> QED BY <1>4, <3>3
    <2>4. Content' = Append(Content, v)
      BY <1>1, <2>2, <2>3, AppendIs, Bounds
    <2> QED BY <1>1, <1>4, <2>1, <2>4 DEF D!PushTail, D!Full, IsFull
  <1> QED BY <1>3, <1>4

\* The first k elements go, and the rest is left alone.
LEMMA RestStays ==
    ASSUME IndInv, IndInv', NEW k \in 0 .. cursor.n, cursor' = Skip(cursor, k),
           \A i \in k .. cursor.n - 1 : storage'[At(cursor, i)] = storage[At(cursor, i)]
    PROVE  /\ Content' = SubSeq(Content, k + 1, Len(Content))
           /\ k = 1 => Content' = Tail(Content)
  <1>1. /\ cursor \in Cursors /\ cursor.n \in 0 .. Asked /\ Len(Content) = cursor.n
        /\ Content \in Seq(Values) /\ Content' \in Seq(Values) /\ Len(Content') = cursor'.n
        /\ \A i \in 1 .. cursor.n : Content[i] = storage[At(cursor, i - 1)]
        /\ \A i \in 1 .. cursor'.n : Content'[i] = storage'[At(cursor', i - 1)]
    BY ContentIs
  <1>2. cursor'.n = cursor.n - k /\ k \in Nat /\ cursor.n \in Nat
    BY <1>1, Bounds DEF Skip
  <1>3. \A i \in 1 .. Len(Content') : Content'[i] = Content[k + i]
    <2> SUFFICES ASSUME NEW i \in 1 .. cursor.n - k PROVE Content'[i] = Content[k + i]
      BY <1>1, <1>2
    <2>1. /\ i - 1 \in 0 .. cursor.n - k - 1 /\ (i - 1) + k \in k .. cursor.n - 1
          /\ k + i \in 1 .. cursor.n /\ (k + i) - 1 = (i - 1) + k /\ i \in 1 .. cursor'.n
      BY <1>2
    <2>2. At(cursor', i - 1) = At(cursor, (i - 1) + k)
      BY <1>1, <2>1, SkipPlaces
    <2> QED BY <1>1, <2>1, <2>2
  <1>4. k + Len(Content') = Len(Content)
    BY <1>1, <1>2
  <1>5. Content' = SubSeq(Content, k + 1, Len(Content))
    BY <1>1, <1>2, <1>3, <1>4, SliceIs
  <1>6. ASSUME k = 1 PROVE Content' = Tail(Content)
    <2>1. Len(Content) = Len(Content') + 1 /\ \A i \in 1 .. Len(Content') : Content'[i] = Content[i + 1]
      <3>1. \A i \in 1 .. Len(Content') : i + 1 = 1 + i
        BY <1>1, <1>2
      <3> QED BY <1>1, <1>2, <1>3, <1>4, <1>6, <3>1
    <2> QED BY <1>1, <2>1, TailIs
  <1> QED BY <1>5, <1>6

\* The head is moved out: pop_head, and one step of a drain.
LEMMA HeadLeaves ==
    ASSUME IndInv, IndInv', cursor.n > 0, cursor' = Skip(cursor, 1),
           out' = storage[cursor.head], storage' = [storage EXCEPT ![cursor.head] = Uninit]
    PROVE  D!PopHead
  <1>1. /\ cursor \in Cursors /\ cursor.n \in 0 .. Asked /\ Len(Content) = cursor.n
        /\ Content \in Seq(Values)
        /\ \A i \in 1 .. cursor.n : Content[i] = storage[At(cursor, i - 1)]
        /\ \A i \in 0 .. cursor.n - 1 : At(cursor, i) \in RingSlots
        /\ storage \in [RingSlots -> Values \cup {Uninit}]
    BY ContentIs
  <1>2. 0 \in 0 .. Cap - 1 /\ 1 \in 0 .. cursor.n /\ 1 \in 1 .. cursor.n
    BY <1>1, Bounds
  <1>3. At(cursor, 0) = cursor.head
    <2>1. cursor.head \in 0 .. Cap - 1 /\ 0 \in 0 .. Cap
      BY <1>1, Bounds DEF Cursors, RingSlots
    <2>2. At(cursor, 0) = IF cursor.head + 0 < Cap THEN cursor.head + 0 ELSE cursor.head + 0 - Cap
      BY <1>1, <2>1, AtIs
    <2> QED BY <2>1, <2>2, Bounds
  <1>4. ASSUME NEW i \in 1 .. cursor.n - 1
        PROVE  storage'[At(cursor, i)] = storage[At(cursor, i)]
    <2>1. i \in 0 .. Cap - 1 /\ i # 0 /\ i \in 0 .. cursor.n - 1
      BY <1>1, Bounds
    <2>2. At(cursor, i) # cursor.head
      BY <1>1, <1>2, <1>3, <2>1, AtInjective
    <2> QED BY <1>1, <2>1, <2>2
  <1>5. Content' = Tail(Content)
    BY <1>2, <1>4, RestStays
  <1>6. out' = Content[1] /\ Content # <<>>
    BY <1>1, <1>2, <1>3, EmptySeq
  <1> QED BY <1>5, <1>6 DEF D!PopHead

\* The tail is moved out.
LEMMA TailLeaves ==
    ASSUME IndInv, IndInv', cursor.n > 0, PopTailCall
    PROVE  D!PopTail
  <1>1. /\ cursor \in Cursors /\ cursor.n \in 0 .. Asked /\ Len(Content) = cursor.n
        /\ cursor' \in Cursors
        /\ Content \in Seq(Values) /\ Content' \in Seq(Values) /\ Len(Content') = cursor'.n
        /\ \A i \in 1 .. cursor.n : Content[i] = storage[At(cursor, i - 1)]
        /\ \A i \in 1 .. cursor'.n : Content'[i] = storage'[At(cursor', i - 1)]
        /\ \A i \in 0 .. cursor.n - 1 : At(cursor, i) \in RingSlots
        /\ storage \in [RingSlots -> Values \cup {Uninit}]
    BY ContentIs
  <1>2. /\ cursor' = PopTail(cursor) /\ out' = storage[TailOf(cursor')]
        /\ storage' = [storage EXCEPT ![TailOf(cursor')] = Uninit]
    BY DEF PopTailCall
  <1>3. cursor'.n = cursor.n - 1 /\ cursor'.head = cursor.head
    BY <1>1, <1>2 DEF PopTail, Cursors
  <1>4. \A i : At(cursor', i) = At(cursor, i)
    BY <1>3 DEF At
  <1>5. TailOf(cursor') = At(cursor, cursor.n - 1)
    BY <1>3, <1>4 DEF TailOf
  <1>6. \A i \in 1 .. Len(Content') : Content'[i] = Content[i]
    <2> SUFFICES ASSUME NEW i \in 1 .. cursor.n - 1 PROVE Content'[i] = Content[i]
      BY <1>1, <1>3
    <2>1. /\ i - 1 \in 0 .. Cap - 1 /\ cursor.n - 1 \in 0 .. Cap - 1 /\ i - 1 # cursor.n - 1
          /\ i - 1 \in 0 .. cursor.n - 1 /\ i \in 1 .. cursor.n /\ i \in 1 .. cursor'.n
      BY <1>1, <1>3, Bounds
    <2>2. At(cursor, i - 1) # TailOf(cursor')
      BY <1>1, <1>5, <2>1, AtInjective
    <2>3. storage'[At(cursor, i - 1)] = storage[At(cursor, i - 1)]
      BY <1>1, <1>2, <2>1, <2>2
    <2> QED BY <1>1, <1>4, <2>1, <2>3
  <1>7. Content' = D!Front(Content)
    <2>1. Len(Content) = Len(Content') + 1
      BY <1>1, <1>3
    <2> QED BY <1>1, <1>6, <2>1, FrontIs
  <1>8. out' = Content[Len(Content)] /\ Content # <<>>
    <2>1. cursor.n \in 1 .. cursor.n
      BY <1>1
    <2> QED BY <1>1, <1>2, <1>5, <2>1, EmptySeq
  <1> QED BY <1>7, <1>8 DEF D!PopTail

LEMMA PopOnDeque ==
    ASSUME IndInv, IndInv', PopHeadCall \/ PopTailCall
    PROVE  D!PopHead \/ D!PopTail \/ D!Nothing
  <1>1. CASE cursor.n = 0
    <2>1. out' = None /\ UNCHANGED <<cursor, storage>>
      BY <1>1 DEF PopHeadCall, PopTailCall
    <2>2. Content = <<>> /\ Content' = Content
      BY <1>1, <2>1, ContentIs, EmptySeq DEF Content
    <2> QED BY <2>1, <2>2 DEF D!Nothing
  <1>2. CASE cursor.n # 0
    <2>1. cursor.n > 0
      BY <1>2, ContentIs, Bounds
    <2>2. ASSUME PopHeadCall PROVE D!PopHead
      BY <1>2, <2>1, <2>2, HeadLeaves DEF PopHeadCall
    <2> QED BY <2>1, <2>2, TailLeaves
  <1> QED BY <1>1, <1>2

LEMMA LookOnDeque ==
    ASSUME IndInv, IndInv', NEW i \in 0 .. Asked, Peek(i)
    PROVE  D!Look \/ D!LookPast
  <1>1. /\ UNCHANGED <<cursor, storage>>
        /\ out' = IF i < cursor.n THEN storage[At(cursor, i)] ELSE None
    BY DEF Peek
  <1>2. Content' = Content
    BY <1>1 DEF Content
  <1>3. CASE i < cursor.n
    <2>1. /\ cursor.n \in 0 .. Asked /\ Len(Content) = cursor.n
          /\ \A j \in 1 .. cursor.n : Content[j] = storage[At(cursor, j - 1)]
      BY ContentIs
    <2>2. i + 1 \in 1 .. cursor.n /\ (i + 1) - 1 = i
      BY <1>3, <2>1, Bounds
    <2>3. out' = Content[i + 1]
      BY <1>1, <1>3, <2>1, <2>2
    <2> QED BY <1>2, <2>1, <2>2, <2>3 DEF D!Look
  <1>4. CASE ~(i < cursor.n)
    BY <1>1, <1>2, <1>4 DEF D!LookPast
  <1> QED BY <1>3, <1>4

\* A write through peek_mut changes one element.
LEMMA ChangeOnDeque ==
    ASSUME IndInv, IndInv', NEW v \in Values, NEW i \in 0 .. Asked - 1, PeekMut(i, v)
    PROVE  D!Change(v)
  <1>1. /\ cursor \in Cursors /\ cursor.n \in 0 .. Asked /\ Len(Content) = cursor.n
        /\ Content \in Seq(Values) /\ Content' \in Seq(Values) /\ Len(Content') = cursor'.n
        /\ \A j \in 1 .. cursor.n : Content[j] = storage[At(cursor, j - 1)]
        /\ \A j \in 1 .. cursor'.n : Content'[j] = storage'[At(cursor', j - 1)]
        /\ \A j \in 0 .. cursor.n - 1 : At(cursor, j) \in RingSlots
        /\ storage \in [RingSlots -> Values \cup {Uninit}]
    BY ContentIs
  <1>2. /\ i < cursor.n /\ UNCHANGED <<cursor, out>>
        /\ storage' = [storage EXCEPT ![At(cursor, i)] = v]
    BY DEF PeekMut
  <1>3. i + 1 \in 1 .. cursor.n /\ (i + 1) - 1 = i /\ i \in 0 .. Cap - 1 /\ i \in 0 .. cursor.n - 1
    BY <1>1, <1>2, Bounds
  <1>4. ASSUME NEW j \in 1 .. cursor.n
        PROVE  Content'[j] = IF j = i + 1 THEN v ELSE Content[j]
    <2>1. j - 1 \in 0 .. Cap - 1 /\ j - 1 \in 0 .. cursor.n - 1 /\ (j # i + 1 => j - 1 # i)
      BY <1>1, Bounds
    <2>2. j # i + 1 => At(cursor, j - 1) # At(cursor, i)
      BY <1>1, <1>3, <2>1, AtInjective
    <2>3. Content'[j] = storage'[At(cursor, j - 1)] /\ Content[j] = storage[At(cursor, j - 1)]
      BY <1>1, <1>2
    <2>4. CASE j = i + 1
      BY <1>1, <1>2, <1>3, <2>3, <2>4
    <2>5. CASE j # i + 1
      BY <1>1, <1>2, <2>1, <2>2, <2>3, <2>5
    <2> QED BY <2>4, <2>5
  <1> DEFINE changed == [Content EXCEPT ![i + 1] = v]
  <1>5. /\ changed \in Seq(Values) /\ Len(changed) = Len(Content)
        /\ \A j \in 1 .. Len(Content) : changed[j] = IF j = i + 1 THEN v ELSE Content[j]
    <2>1. Content \in Seq(Values) /\ i + 1 \in 1 .. Len(Content)
      BY <1>1, <1>3
    <2> QED BY <2>1, ExceptSeq
  <1>6. Content' = changed
    <2> HIDE DEF changed
    <2>1. Len(Content') = Len(changed)
      BY <1>1, <1>2, <1>5
    <2>2. \A j \in 1 .. Len(Content') : Content'[j] = changed[j]
      BY <1>1, <1>2, <1>4, <1>5
    <2> QED BY <1>1, <1>5, <2>1, <2>2, SeqEqual
  <1> QED BY <1>1, <1>2, <1>3, <1>6 DEF D!Change

\* skip, clear and the drop remove a prefix.
LEMMA DropOnDeque ==
    ASSUME IndInv, IndInv', (\E by \in 0 .. Asked : SkipCall(by)) \/ Clear \/ DropRing
    PROVE  D!Drop
  <1>1. /\ cursor \in Cursors /\ cursor.n \in 0 .. Asked /\ Len(Content) = cursor.n
        /\ Content \in Seq(Values) /\ Content' \in Seq(Values) /\ Len(Content') = cursor'.n
        /\ \A i \in 0 .. cursor.n - 1 : At(cursor, i) \in RingSlots
    BY ContentIs
  <1>2. out' = None
    BY DEF SkipCall, Clear, DropRing
  <1>3. CASE DropRing /\ ~NeedsDrop
    <2>1. Len(Content') = 0 /\ cursor.n \in Nat /\ cursor.n \in 0 .. Len(Content)
      BY <1>1, <1>3, Bounds DEF DropRing, NewCursor
    <2>2. Content' = SubSeq(Content, cursor.n + 1, cursor.n + Len(Content'))
      BY <1>1, <2>1, SliceIs
    <2>3. Content' = SubSeq(Content, cursor.n + 1, Len(Content))
      BY <1>1, <2>1, <2>2
    <2> QED BY <1>2, <2>1, <2>3 DEF D!Drop
  <1>4. CASE ~(DropRing /\ ~NeedsDrop)
    <2>1. PICK k \in 0 .. cursor.n :
             /\ cursor' = Skip(cursor, k)
             /\ storage' = Emptied(k) \/ UNCHANGED storage
      BY <1>1, <1>4 DEF SkipCall, Clear, DropRing, Lesser
    <2>2. ASSUME NEW i \in k .. cursor.n - 1
          PROVE  storage'[At(cursor, i)] = storage[At(cursor, i)]
      <3> DEFINE gone == [cursor EXCEPT !.n = k]
      <3>1. i \in 0 .. Cap - 1 /\ i \in 0 .. cursor.n - 1
        BY <1>1, Bounds
      <3>2. gone.n = k /\ \A j : At(gone, j) = At(cursor, j)
        BY <1>1 DEF Cursors, At
      <3>3. At(cursor, i) \notin Live(gone)
        <4> SUFFICES ASSUME NEW j \in 0 .. k - 1, At(cursor, i) = At(cursor, j) PROVE FALSE
          BY <3>2 DEF Live
        <4>1. j \in 0 .. Cap - 1 /\ j # i
          BY <1>1, Bounds
        <4> QED BY <1>1, <3>1, <4>1, AtInjective
      <3>4. At(cursor, i) \in RingSlots
        BY <1>1, <3>1
      <3> HIDE DEF gone
      <3>5. storage' = [s \in RingSlots |-> IF s \in Live(gone) THEN Uninit ELSE storage[s]]
            \/ UNCHANGED storage
        BY <2>1 DEF Emptied, gone
      <3> QED BY <3>3, <3>4, <3>5
    <2>3. Content' = SubSeq(Content, k + 1, Len(Content))
      BY <2>1, <2>2, RestStays
    <2>4. k \in 0 .. Len(Content)
      BY <1>1
    <2> QED BY <1>2, <2>3, <2>4 DEF D!Drop
  <1> QED BY <1>3, <1>4

\* The clone has the same elements, though its head is at 0.
LEMMA CloneOnDeque ==
    ASSUME IndInv, IndInv', CloneRing
    PROVE  UNCHANGED <<Content, out>>
  <1>1. /\ cursor \in Cursors /\ cursor' \in Cursors
        /\ cursor.n \in 0 .. Asked /\ Len(Content) = cursor.n
        /\ Content \in Seq(Values) /\ Content' \in Seq(Values) /\ Len(Content') = cursor'.n
        /\ \A i \in 1 .. cursor.n : Content[i] = storage[At(cursor, i - 1)]
        /\ \A i \in 1 .. cursor'.n : Content'[i] = storage'[At(cursor', i - 1)]
    BY ContentIs
  <1>2. /\ cursor'.head = 0 /\ cursor'.n = cursor.n /\ out' = out
        /\ storage' = [s \in RingSlots |-> IF s < cursor.n THEN storage[ChainSlot(cursor, s)] ELSE Uninit]
    BY DEF CloneRing
  <1>3. ASSUME NEW i \in 1 .. cursor.n PROVE Content'[i] = Content[i]
    <2>1. i - 1 \in 0 .. Cap - 1 /\ i - 1 \in 0 .. Cap /\ i - 1 \in 0 .. cursor.n - 1 /\ i - 1 < cursor.n
      BY <1>1, Bounds
    <2>2. At(cursor', i - 1) = i - 1
      <3>1. At(cursor', i - 1) = IF 0 + (i - 1) < Cap THEN 0 + (i - 1) ELSE 0 + (i - 1) - Cap
        BY <1>1, <1>2, <2>1, AtIs
      <3> QED BY <2>1, <3>1, Bounds
    <2>3. i - 1 \in RingSlots
      BY <2>1 DEF RingSlots
    <2>4. storage'[i - 1] = storage[ChainSlot(cursor, i - 1)]
      BY <1>2, <2>1, <2>3
    <2>5. ChainSlot(cursor, i - 1) = At(cursor, i - 1)
      BY <1>1, <2>1, ChainIsWindow
    <2> QED BY <1>1, <1>2, <2>2, <2>4, <2>5
  <1>4. Len(Content') = Len(Content)
    BY <1>1, <1>2
  <1>5. Content' = Content
    BY <1>1, <1>3, <1>4, SeqEqual
  <1> QED BY <1>2, <1>5

\* A drain step is a pop at the head, or a look past the end.
LEMMA DrainOnDeque ==
    ASSUME IndInv, IndInv', DrainNext
    PROVE  D!PopHead \/ D!LookPast
  <1>1. /\ drain.on /\ drain.firstLen \in 0 .. Cap /\ drain.secondLen \in 0 .. Cap
        /\ drain.firstLen + drain.secondLen = cursor.n
        /\ drain.firstLen > 0 => drain.first = cursor.head
        /\ drain.firstLen = 0 /\ drain.secondLen > 0 => drain.second = cursor.head
    BY DEF DrainNext, IndInv, TypeOK, DrainInv, DrainTracksHead
  <1>2. CASE drain.firstLen = 0 /\ drain.secondLen = 0
    <2>1. out' = None /\ UNCHANGED <<cursor, storage>>
      BY <1>2 DEF DrainNext
    <2>2. Content' = Content
      BY <2>1 DEF Content
    <2> QED BY <2>1, <2>2 DEF D!LookPast
  <1>3. CASE ~(drain.firstLen = 0 /\ drain.secondLen = 0)
    <2>1. Release(cursor.head)
      <3>1. CASE drain.firstLen # 0
        BY <1>1, <3>1, Bounds DEF DrainNext
      <3>2. CASE drain.firstLen = 0
        BY <1>1, <1>3, <3>2, Bounds DEF DrainNext
      <3> QED BY <3>1, <3>2
    <2>2. cursor.n > 0 /\ Lesser(cursor.n, 1) = 1
      BY <1>1, <1>3, ContentIs, Bounds DEF Lesser
    <2> QED BY <2>1, <2>2, HeadLeaves DEF Release
  <1> QED BY <1>2, <1>3

\* Every call of the ring is one operation of the queue, or changes nothing of it.
LEMMA NextOnDeque == IndInv /\ IndInv' /\ [Next]_vars => [D!Next]_(D!vars)
  <1> SUFFICES ASSUME IndInv, IndInv', [Next]_vars
               PROVE  D!Next \/ UNCHANGED <<Content, out>>
    BY DEF D!vars
  <1>1. ASSUME NEW v \in Values,
               \/ TryPushHead(v) \/ PushHeadInner(v) \/ TryPushTail(v) \/ PushTailInner(v)
               \/ \E i \in 0 .. Asked - 1 : PeekMut(i, v)
        PROVE  D!Next
    BY <1>1, TryPushOnDeque, PushHeadOnDeque, PushTailOnDeque, ChangeOnDeque DEF D!Next
  <1>2. CASE PopHeadCall \/ PopTailCall
    BY <1>2, PopOnDeque DEF D!Next
  <1>3. CASE (\E by \in 0 .. Asked : SkipCall(by)) \/ Clear \/ DropRing
    BY <1>3, DropOnDeque DEF D!Next
  <1>4. CASE CloneRing
    BY <1>4, CloneOnDeque
  <1>5. ASSUME NEW i \in 0 .. Asked, Peek(i) PROVE D!Next
    BY <1>5, LookOnDeque DEF D!Next
  <1>6. CASE StartDrain \/ DropDrain \/ UNCHANGED vars
    <2>1. UNCHANGED <<cursor, storage, out>>
      BY <1>6 DEF StartDrain, DropDrain, vars
    <2> QED BY <2>1 DEF Content
  <1>7. CASE DrainNext
    BY <1>7, DrainOnDeque DEF D!Next
  <1> QED BY <1>1, <1>2, <1>3, <1>4, <1>5, <1>6, <1>7 DEF Next

LEMMA InitOnDeque == Init => D!Init
  <1> SUFFICES ASSUME Init PROVE Content = <<>> /\ out = None
    BY DEF D!Init
  <1>1. cursor.n = 0 /\ out = None
    BY DEF Init, NewCursor
  <1>2. Content = [i \in 1 .. 0 |-> storage[At(cursor, i - 1)]]
    BY <1>1 DEF Content
  <1>3. 1 .. 0 = {}
    OBVIOUS
  <1>4. Content \in Seq(Values) /\ Len(Content) = 0
    BY <1>2
  <1> QED BY <1>1, <1>4, EmptySeq

\* Any mix of pushes, pops, evictions, skips, clones, drops and partly consumed drains is
\* a behaviour of a double-ended queue of Asked elements, for every
\* capacity that was asked for and every storage that holds it.
THEOREM RingIsDeque == Spec => IsDeque
  <1>1. Init => D!Init
    BY InitOnDeque
  <1>2. IndInv /\ IndInv' /\ [Next]_vars => [D!Next]_(D!vars)
    BY NextOnDeque
  <1> QED BY <1>1, <1>2, RingIndInv, PTL DEF Spec, IsDeque, D!Spec

----------------------------------------------------------------------------
(* RingStatistics: induction, on sets of numbers, and the values of a loop *)

Less == {ss \in Nat \X Nat : ss[1] < ss[2]}

LEMMA LessIsWellFounded == IsWellFoundedOn(Less, Nat)
  BY NatLessThanWellFounded, SMT DEF OpToRel, Less

LEMMA Induction ==
    ASSUME NEW T, 0 \in T, \A i \in Nat : i \in T => i + 1 \in T
    PROVE  Nat \subseteq T
  <1> DEFINE R == Nat \ T
  <1>1. SUFFICES ASSUME R # {} PROVE FALSE
    BY DEF R
  <1>2. PICK x \in R : \A y \in R : <<y, x>> \notin Less
    BY <1>1, WFMin, LessIsWellFounded, Zenon
  <1>3. x # 0 /\ x \in Nat /\ x - 1 \in Nat /\ (x - 1) + 1 = x
    OBVIOUS
  <1>4. x - 1 \notin R
    <2>1. <<x - 1, x>> \in Less
      BY <1>3 DEF Less
    <2> QED BY <1>2, <2>1
  <1> QED BY <1>2, <1>3, <1>4

\* The values of a loop, one after the other.
Loop(f, n, first, F) == f[0] = first /\ \A i \in 1 .. n : f[i] = F[i][f[i - 1]]

LEMMA LoopExists ==
    ASSUME NEW n \in Nat, NEW X, NEW first \in X, NEW F \in [1 .. n -> [X -> X]]
    PROVE  \E f \in [0 .. n -> X] : Loop(f, n, first, F)
  <1> DEFINE P(k) == \E f \in [0 .. k -> X] : Loop(f, k, first, F)
             T == {k \in Nat : k <= n => P(k)}
  <1>1. 0 \in T
    <2> DEFINE f == [i \in 0 .. 0 |-> first]
    <2>1. f \in [0 .. 0 -> X] /\ f[0] = first
      OBVIOUS
    <2> HIDE DEF f
    <2>2. P(0)
      BY <2>1 DEF Loop
    <2> QED BY <2>2
  <1>2. ASSUME NEW k \in Nat, k \in T PROVE k + 1 \in T
    <2> SUFFICES ASSUME k + 1 <= n PROVE P(k + 1)
      OBVIOUS
    <2>1. PICK f \in [0 .. k -> X] : Loop(f, k, first, F)
      BY <1>2
    <2> DEFINE g == [i \in 0 .. k + 1 |-> IF i <= k THEN f[i] ELSE F[k + 1][f[k]]]
    <2>2. g \in [0 .. k + 1 -> X]
      BY <2>1
    <2>3. g[0] = first
      BY <2>1 DEF Loop
    <2>4. ASSUME NEW i \in 1 .. k + 1 PROVE g[i] = F[i][g[i - 1]]
      <3>1. CASE i <= k
        BY <2>1, <3>1 DEF Loop
      <3>2. CASE i = k + 1
        BY <2>1, <3>2
      <3> QED BY <3>1, <3>2
    <2> HIDE DEF g
    <2> QED BY <2>2, <2>3, <2>4 DEF Loop
  <1>3. Nat \subseteq T
    <2> HIDE DEF T
    <2> QED BY <1>1, <1>2, Induction
  <1>4. n \in T
    BY <1>3
  <1> QED BY <1>4

----------------------------------------------------------------------------
(* The sums of a window                                                    *)

LEMMA OldestIs ==
    ASSUME NEW S, NEW s \in Seq(S)
    PROVE  Len(s) \in Nat /\ \A i \in 1 .. Len(s) : Oldest(s, i) \in S
  <1>1. Len(s) \in Nat /\ DOMAIN s = 1 .. Len(s)
    BY LenProperties
  <1>2. \A i \in 1 .. Len(s) : Len(s) + 1 - i \in 1 .. Len(s)
    BY <1>1
  <1> QED BY <1>1, <1>2, ElementOfSeq DEF Oldest

\* The sums of the oldest elements.
Running(f, s) ==
    /\ f \in [0 .. Len(s) -> Int] /\ f[0] = 0
    /\ \A i \in 1 .. Len(s) : f[i] = f[i - 1] + Oldest(s, i)

LEMMA SumRuns == ASSUME NEW s \in Seq(Int) PROVE \E f : Running(f, s) /\ Sum(s) = f[Len(s)]
  <1> DEFINE n == Len(s)
             F == [i \in 1 .. n |-> [a \in Int |-> a + Oldest(s, i)]]
             body(f) == [i \in 0 .. n |-> IF i = 0 THEN 0 ELSE f[i - 1] + Oldest(s, i)]
             of == CHOOSE f : f = body(f)
  <1>1. Sum(s) = of[n]
    BY DEF Sum
  <1>2. n \in Nat /\ \A i \in 1 .. n : Oldest(s, i) \in Int
    BY OldestIs
  <1> HIDE DEF n
  <1>3. F \in [1 .. n -> [Int -> Int]]
    BY <1>2
  <1>4. PICK f \in [0 .. n -> Int] : Loop(f, n, 0, F)
    <2> HIDE DEF F
    <2>1. 0 \in Int
      OBVIOUS
    <2> QED BY <1>2, <1>3, <2>1, LoopExists
  <1>5. f[0] = 0 /\ \A i \in 1 .. n : f[i] = f[i - 1] + Oldest(s, i)
    <2>1. ASSUME NEW i \in 1 .. n PROVE f[i] = f[i - 1] + Oldest(s, i)
      <3>1. i - 1 \in 0 .. n
        BY <1>2
      <3>2. f[i] = F[i][f[i - 1]]
        <4> HIDE DEF F
        <4> QED BY <1>4 DEF Loop
      <3>3. f[i - 1] \in Int
        BY <1>4, <3>1
      <3> QED BY <3>2, <3>3
    <2> QED BY <1>4, <2>1 DEF Loop
  <1>6. f = body(f)
    BY <1>2, <1>4, <1>5
  <1>7. of = body(of)
    <2> HIDE DEF body
    <2> QED BY <1>6
  <1>8. \A i \in 0 .. n : of[i] = IF i = 0 THEN 0 ELSE of[i - 1] + Oldest(s, i)
    BY <1>7
  <1> HIDE DEF of
  <1> DEFINE T == {k \in Nat : k <= n => of[k] = f[k]}
  <1>9. 0 \in T
    BY <1>2, <1>5, <1>8
  <1>10. ASSUME NEW k \in Nat, k \in T PROVE k + 1 \in T
    BY <1>2, <1>5, <1>8, <1>10
  <1>11. Nat \subseteq T
    <2> HIDE DEF T
    <2> QED BY <1>9, <1>10, Induction
  <1>12. of[n] = f[n]
    BY <1>2, <1>11
  <1> QED BY <1>1, <1>4, <1>5, <1>12 DEF Running, n

LEMMA SumIs == ASSUME NEW s \in Seq(Int), NEW f, Running(f, s) PROVE Sum(s) = f[Len(s)]
  <1>1. PICK g : Running(g, s) /\ Sum(s) = g[Len(s)]
    BY SumRuns
  <1>2. Len(s) \in Nat /\ \A i \in 1 .. Len(s) : Oldest(s, i) \in Int
    BY OldestIs
  <1> DEFINE T == {k \in Nat : k <= Len(s) => g[k] = f[k]}
  <1>3. 0 \in T
    BY <1>1 DEF Running
  <1>4. ASSUME NEW k \in Nat, k \in T PROVE k + 1 \in T
    BY <1>1, <1>2, <1>4 DEF Running
  <1>5. Nat \subseteq T
    <2> HIDE DEF T
    <2> QED BY <1>3, <1>4, Induction
  <1> QED BY <1>1, <1>2, <1>5

LEMMA SumInt == ASSUME NEW s \in Seq(Int) PROVE Sum(s) \in Int
  BY SumRuns, OldestIs DEF Running

LEMMA SumEmpty == Sum(<<>>) = 0
  <1>1. <<>> \in Seq(Int) /\ Len(<<>>) = 0
    OBVIOUS
  <1>2. PICK f : Running(f, <<>>) /\ Sum(<<>>) = f[Len(<<>>)]
    BY <1>1, SumRuns
  <1> QED BY <1>1, <1>2 DEF Running

\* A sequence with an element in front of it.
LEMMA PushedIs ==
    ASSUME NEW S, NEW s \in Seq(S), NEW x \in S
    PROVE  /\ <<x>> \o s \in Seq(S) /\ Len(<<x>> \o s) = Len(s) + 1
           /\ (<<x>> \o s)[1] = x
           /\ \A i \in 1 .. Len(s) : (<<x>> \o s)[i + 1] = s[i]
  <1>1. Len(s) \in Nat
    BY LenProperties
  <1>2. <<x>> \in Seq(S) /\ Len(<<x>>) = 1 /\ <<x>>[1] = x
    OBVIOUS
  <1>3. /\ <<x>> \o s \in Seq(S) /\ Len(<<x>> \o s) = Len(<<x>>) + Len(s)
        /\ \A i \in 1 .. Len(<<x>>) + Len(s) :
              (<<x>> \o s)[i] = IF i <= Len(<<x>>) THEN <<x>>[i] ELSE s[i - Len(<<x>>)]
    BY <1>2, ConcatProperties, Zenon
  <1> DEFINE t == <<x>> \o s
  <1> HIDE DEF t
  <1>4. /\ t \in Seq(S) /\ Len(t) = Len(s) + 1
        /\ \A i \in 1 .. 1 + Len(s) : t[i] = IF i <= 1 THEN x ELSE s[i - 1]
    BY <1>1, <1>2, <1>3 DEF t
  <1>5. ASSUME NEW i \in 1 .. Len(s) PROVE t[i + 1] = s[i]
    <2>1. i + 1 \in 1 .. 1 + Len(s) /\ ~(i + 1 <= 1) /\ (i + 1) - 1 = i
      BY <1>1
    <2> QED BY <1>4, <2>1
  <1>6. t[1] = x
    BY <1>1, <1>4
  <1> QED BY <1>4, <1>5, <1>6 DEF t

LEMMA SumPush ==
    ASSUME NEW s \in Seq(Int), NEW x \in Int
    PROVE  Sum(<<x>> \o s) = Sum(s) + x
  <1> DEFINE t == <<x>> \o s
             n == Len(s)
  <1>1. /\ t \in Seq(Int) /\ Len(t) = n + 1 /\ t[1] = x
        /\ \A i \in 1 .. n : t[i + 1] = s[i]
    BY PushedIs
  <1>2. PICK f : Running(f, s) /\ Sum(s) = f[n]
    BY SumRuns
  <1> HIDE DEF t
  <1>3. n \in Nat /\ \A i \in 1 .. n : Oldest(s, i) \in Int
    BY OldestIs
  <1>4. ASSUME NEW i \in 1 .. n PROVE Oldest(t, i) = Oldest(s, i)
    <2>1. n + 1 - i \in 1 .. n /\ (n + 1 - i) + 1 = Len(t) + 1 - i
      BY <1>1, <1>3
    <2>2. t[(n + 1 - i) + 1] = s[n + 1 - i]
      BY <1>1, <2>1
    <2> QED BY <2>1, <2>2 DEF Oldest
  <1>5. Oldest(t, n + 1) = x
    <2>1. Len(t) + 1 - (n + 1) = 1
      BY <1>1, <1>3
    <2> QED BY <1>1, <2>1 DEF Oldest
  <1> DEFINE g == [i \in 0 .. n + 1 |-> IF i <= n THEN f[i] ELSE f[n] + x]
  <1> HIDE DEF n
  <1>6. f \in [0 .. n -> Int] /\ f[0] = 0 /\ \A i \in 1 .. n : f[i] = f[i - 1] + Oldest(s, i)
    BY <1>2 DEF Running, n
  <1>7. g \in [0 .. n + 1 -> Int] /\ g[0] = 0
    BY <1>3, <1>6
  <1>8. ASSUME NEW i \in 1 .. n + 1 PROVE g[i] = g[i - 1] + Oldest(t, i)
    <2>1. CASE i <= n
      <3>1. i \in 1 .. n /\ i \in 0 .. n + 1 /\ i - 1 \in 0 .. n + 1 /\ i - 1 <= n
        BY <1>3, <2>1
      <3>2. g[i] = f[i] /\ g[i - 1] = f[i - 1]
        BY <2>1, <3>1
      <3> HIDE DEF g
      <3> QED BY <1>4, <1>6, <3>1, <3>2
    <2>2. CASE i = n + 1
      <3>1. g[i] = f[n] + x /\ i - 1 = n /\ g[n] = f[n]
        BY <1>3, <2>2
      <3> HIDE DEF g
      <3> QED BY <1>5, <2>2, <3>1
    <2> QED BY <1>3, <2>1, <2>2
  <1>9. g[n + 1] = f[n] + x
    BY <1>3
  <1> HIDE DEF g
  <1>10. Running(g, t)
    BY <1>1, <1>3, <1>7, <1>8 DEF Running, n
  <1>11. Sum(t) = g[n + 1]
    BY <1>1, <1>10, SumIs DEF n
  <1> QED BY <1>2, <1>9, <1>11 DEF t, n

\* A sequence without one of its elements.
LEMMA RemovedIs ==
    ASSUME NEW S, NEW s \in Seq(S), NEW i \in 1 .. Len(s)
    PROVE  LET r == RemoveAt(s, i)
           IN  /\ r \in Seq(S) /\ Len(r) = Len(s) - 1
               /\ \A j \in 1 .. Len(s) - 1 : r[j] = IF j < i THEN s[j] ELSE s[j + 1]
  <1> DEFINE n == Len(s)
             a == SubSeq(s, 1, i - 1)
             b == SubSeq(s, i + 1, n)
             r == RemoveAt(s, i)
  <1>1. n \in Nat /\ i \in Nat /\ 1 <= i /\ i <= n /\ \A j \in 1 .. n : s[j] \in S
    BY LenProperties, ElementOfSeq
  <1>2. r = a \o b
    BY DEF RemoveAt
  <1> HIDE DEF n
  <1>3. a \in Seq(S) /\ Len(a) = i - 1 /\ \A j \in 1 .. i - 1 : a[j] = s[j]
    <2>1. \A j \in 1 .. i - 1 : s[j] \in S
      BY <1>1
    <2>2. /\ a \in Seq(S) /\ Len(a) = IF 1 <= i - 1 THEN i - 1 - 1 + 1 ELSE 0
          /\ \A j \in 1 .. i - 1 - 1 + 1 : a[j] = s[1 + j - 1]
      BY <1>1, <2>1, SubSeqProperties
    <2> HIDE DEF a
    <2>3. i - 1 - 1 + 1 = i - 1 /\ \A j \in 1 .. i - 1 : 1 + j - 1 = j
      BY <1>1
    <2> QED BY <1>1, <2>2, <2>3
  <1>4. b \in Seq(S) /\ Len(b) = n - i /\ \A j \in 1 .. n - i : b[j] = s[i + j]
    <2>1. \A j \in i + 1 .. n : s[j] \in S
      BY <1>1
    <2>2. /\ b \in Seq(S) /\ Len(b) = IF i + 1 <= n THEN n - (i + 1) + 1 ELSE 0
          /\ \A j \in 1 .. n - (i + 1) + 1 : b[j] = s[(i + 1) + j - 1]
      BY <1>1, <2>1, SubSeqProperties
    <2> HIDE DEF b
    <2>3. n - (i + 1) + 1 = n - i /\ \A j \in 1 .. n - i : (i + 1) + j - 1 = i + j
      BY <1>1
    <2> QED BY <1>1, <2>2, <2>3
  <1> HIDE DEF a, b
  <1>5. /\ a \o b \in Seq(S) /\ Len(a \o b) = Len(a) + Len(b)
        /\ \A j \in 1 .. Len(a) + Len(b) :
              (a \o b)[j] = IF j <= Len(a) THEN a[j] ELSE b[j - Len(a)]
    BY <1>3, <1>4, ConcatProperties, Zenon
  <1> HIDE DEF r
  <1>6. /\ r \in Seq(S) /\ Len(r) = n - 1
        /\ \A j \in 1 .. n - 1 : r[j] = IF j <= i - 1 THEN a[j] ELSE b[j - (i - 1)]
    <2>1. Len(a) = i - 1 /\ Len(a) + Len(b) = n - 1
      BY <1>1, <1>3, <1>4
    <2>2. /\ r \in Seq(S) /\ Len(r) = Len(a) + Len(b)
          /\ \A j \in 1 .. Len(a) + Len(b) : r[j] = IF j <= Len(a) THEN a[j] ELSE b[j - Len(a)]
      BY <1>2, <1>5
    <2> QED BY <2>1, <2>2, Zenon
  <1>7. ASSUME NEW j \in 1 .. n - 1 PROVE r[j] = IF j < i THEN s[j] ELSE s[j + 1]
    <2>1. CASE j < i
      <3>1. j \in 1 .. i - 1 /\ j <= i - 1
        BY <1>1, <2>1
      <3> QED BY <1>3, <1>6, <2>1, <3>1
    <2>2. CASE ~(j < i)
      <3>1. j - (i - 1) \in 1 .. n - i /\ ~(j <= i - 1) /\ i + (j - (i - 1)) = j + 1
        BY <1>1, <2>2
      <3>2. r[j] = b[j - (i - 1)]
        BY <1>6, <3>1
      <3>3. b[j - (i - 1)] = s[i + (j - (i - 1))]
        BY <1>4, <3>1
      <3> QED BY <2>2, <3>1, <3>2, <3>3
    <2> QED BY <2>1, <2>2
  <1> QED BY <1>6, <1>7 DEF r, n

LEMMA SumRemoved ==
    ASSUME NEW s \in Seq(Int), NEW i \in 1 .. Len(s)
    PROVE  Sum(RemoveAt(s, i)) = Sum(s) - s[i]
  <1> DEFINE r == RemoveAt(s, i)
             n == Len(s)
  <1>1. /\ r \in Seq(Int) /\ Len(r) = n - 1
        /\ \A j \in 1 .. n - 1 : r[j] = IF j < i THEN s[j] ELSE s[j + 1]
    BY RemovedIs
  <1> HIDE DEF r
  <1>2. PICK f : Running(f, s) /\ Sum(s) = f[n]
    BY SumRuns
  <1>3. n \in Nat /\ i \in 1 .. n /\ \A k \in 1 .. n : Oldest(s, k) \in Int
    BY OldestIs
  <1>4. s[i] \in Int /\ Oldest(s, n + 1 - i) = s[i]
    <2>1. n + 1 - i \in 1 .. n /\ n + 1 - (n + 1 - i) = i
      BY <1>3
    <2> QED BY <1>3, <2>1 DEF Oldest
  <1>5. f \in [0 .. n -> Int] /\ f[0] = 0 /\ \A k \in 1 .. n : f[k] = f[k - 1] + Oldest(s, k)
    BY <1>2 DEF Running
  <1>6. ASSUME NEW k \in 1 .. n - 1
        PROVE  Oldest(r, k) = IF k <= n - i THEN Oldest(s, k) ELSE Oldest(s, k + 1)
    <2>1. /\ Len(r) + 1 - k = n - k /\ n - k \in 1 .. n - 1
          /\ (n - k) + 1 = n + 1 - k /\ n + 1 - (k + 1) = n - k
          /\ (n - k < i <=> ~(k <= n - i))
      <3>1. n \in Nat /\ i \in Nat /\ i <= n /\ k \in Nat /\ 1 <= k /\ k <= n - 1 /\ Len(r) = n - 1
        BY <1>1, <1>3
      <3> HIDE DEF n
      <3> QED BY <3>1
    <2>2. r[n - k] = IF n - k < i THEN s[n - k] ELSE s[(n - k) + 1]
      BY <1>1, <2>1
    <2>3. Oldest(r, k) = r[n - k] /\ Oldest(s, k) = s[n + 1 - k] /\ Oldest(s, k + 1) = s[n - k]
      BY <2>1 DEF Oldest
    <2> QED BY <2>1, <2>2, <2>3
  <1> HIDE DEF n
  <1> DEFINE g == [k \in 0 .. n - 1 |-> IF k <= n - i THEN f[k] ELSE f[k + 1] - s[i]]
  <1>7. g \in [0 .. n - 1 -> Int] /\ g[0] = 0
    <2>1. 0 \in 0 .. n - 1 /\ 0 <= n - i
      BY <1>3
    <2>2. ASSUME NEW k \in 0 .. n - 1 PROVE f[k] \in Int /\ f[k + 1] - s[i] \in Int
      <3>1. k \in 0 .. n /\ k + 1 \in 0 .. n
        BY <1>3
      <3> QED BY <1>4, <1>5, <3>1
    <2> QED BY <1>5, <2>1, <2>2
  <1>8. ASSUME NEW k \in 1 .. n - 1 PROVE g[k] = g[k - 1] + Oldest(r, k)
    <2>1. k \in 0 .. n - 1 /\ k - 1 \in 0 .. n - 1 /\ k \in 1 .. n /\ k + 1 \in 1 .. n
      BY <1>3
    <2>2. CASE k <= n - i
      <3>1. g[k] = f[k] /\ g[k - 1] = f[k - 1]
        BY <1>3, <2>1, <2>2
      <3> HIDE DEF g
      <3> QED BY <1>5, <1>6, <2>1, <2>2, <3>1
    <2>3. CASE k = n - i + 1
      <3>1. g[k] = f[k + 1] - s[i] /\ g[k - 1] = f[k - 1] /\ ~(k <= n - i) /\ k = n + 1 - i
        BY <1>3, <2>1, <2>3
      <3>2. f[k + 1] = f[k] + Oldest(s, k + 1) /\ f[k] = f[k - 1] + s[i]
        <4>1. (k + 1) - 1 = k
          BY <2>1
        <4> QED BY <1>4, <1>5, <2>1, <3>1, <4>1
      <3>3. f[k - 1] \in Int /\ Oldest(s, k + 1) \in Int
        <4>1. k - 1 \in 0 .. n
          BY <1>3
        <4> QED BY <1>3, <1>5, <2>1, <4>1
      <3> HIDE DEF g
      <3> QED BY <1>4, <1>6, <3>1, <3>2, <3>3
    <2>4. CASE k > n - i + 1
      <3>1. g[k] = f[k + 1] - s[i] /\ g[k - 1] = f[k] - s[i] /\ ~(k <= n - i)
        BY <1>3, <2>1, <2>4
      <3>2. f[k + 1] = f[k] + Oldest(s, k + 1)
        <4>1. (k + 1) - 1 = k
          BY <2>1
        <4> QED BY <1>5, <2>1, <4>1
      <3>3. f[k] \in Int /\ Oldest(s, k + 1) \in Int
        <4>1. k \in 0 .. n
          BY <1>3
        <4> QED BY <1>3, <1>5, <2>1, <4>1
      <3> HIDE DEF g
      <3> QED BY <1>4, <1>6, <3>1, <3>2, <3>3
    <2> QED BY <1>3, <2>1, <2>2, <2>3, <2>4
  <1>9. g[n - 1] = f[n] - s[i]
    <2>1. CASE i = 1
      <3>1. g[n - 1] = f[n - 1]
        BY <1>3, <2>1
      <3>2. f[n] = f[n - 1] + s[1] /\ f[n - 1] \in Int
        BY <1>3, <1>4, <1>5, <2>1
      <3> HIDE DEF g
      <3> QED BY <1>4, <2>1, <3>1, <3>2
    <2>2. CASE i # 1
      <3>1. n - 1 \in 0 .. n - 1 /\ ~(n - 1 <= n - i) /\ (n - 1) + 1 = n
        BY <1>3, <2>2
      <3> QED BY <3>1
    <2> QED BY <2>1, <2>2
  <1> HIDE DEF g
  <1>10. Running(g, r)
    BY <1>1, <1>3, <1>7, <1>8 DEF Running, n
  <1>11. Sum(r) = g[n - 1]
    BY <1>1, <1>10, SumIs DEF n
  <1> QED BY <1>2, <1>9, <1>11 DEF r, n

LEMMA SquareIs == ASSUME NEW x \in Int PROVE x * x \in Int /\ 0 <= x * x /\ x <= x * x /\ -x <= x * x
  <1>1. CASE x >= 1
    <2>1. x * x >= x
      BY <1>1
    <2> QED BY <1>1, <2>1
  <1>2. CASE x = 0
    BY <1>2
  <1>3. CASE x <= -1
    <2>1. (-x) * (-x) >= -x /\ (-x) * (-x) = x * x
      BY <1>3
    <2> QED BY <1>3, <2>1
  <1> QED BY <1>1, <1>2, <1>3

LEMMA SquaredIs ==
    ASSUME NEW s \in Seq(Int)
    PROVE  /\ Squared(s) \in Seq(Int) /\ Len(Squared(s)) = Len(s)
           /\ \A i \in 1 .. Len(s) : Squared(s)[i] = s[i] * s[i] /\ s[i] \in Int
           /\ \A i \in 1 .. Len(s) : Oldest(Squared(s), i) = Oldest(s, i) * Oldest(s, i)
  <1>1. Len(s) \in Nat /\ DOMAIN s = 1 .. Len(s) /\ \A i \in 1 .. Len(s) : s[i] \in Int
    BY LenProperties, ElementOfSeq
  <1> DEFINE n == Len(s)
             t == Squared(s)
  <1>2. t \in [1 .. n -> Int] /\ \A i \in 1 .. n : t[i] = s[i] * s[i]
    BY <1>1, SquareIs DEF Squared
  <1> HIDE DEF t
  <1>3. t \in Seq(Int) /\ Len(t) = n
    BY <1>1, <1>2
  <1>4. ASSUME NEW i \in 1 .. n PROVE Oldest(t, i) = Oldest(s, i) * Oldest(s, i)
    <2>1. n + 1 - i \in 1 .. n
      BY <1>1
    <2> QED BY <1>2, <1>3, <2>1 DEF Oldest
  <1> QED BY <1>1, <1>2, <1>3, <1>4 DEF t

LEMMA SameSeq ==
    ASSUME NEW s \in Seq(Int), NEW t \in Seq(Int), Len(s) = Len(t),
           \A i \in 1 .. Len(s) : s[i] = t[i]
    PROVE  s = t
  <1>1. Len(s) \in Nat /\ s \in [1 .. Len(s) -> Int] /\ t \in [1 .. Len(t) -> Int]
    BY LenProperties
  <1> QED BY <1>1

LEMMA SquaresInt == ASSUME NEW s \in Seq(Int) PROVE Squares(s) \in Int
  BY SquaredIs, SumInt DEF Squares

LEMMA SquaresEmpty == Squares(<<>>) = 0
  <1>1. Squared(<<>>) = <<>>
    <2>1. <<>> \in Seq(Int) /\ Len(<<>>) = 0
      OBVIOUS
    <2>2. Squared(<<>>) \in Seq(Int) /\ Len(Squared(<<>>)) = 0
      BY <2>1, SquaredIs
    <2> QED BY <2>2, EmptySeq
  <1> QED BY <1>1, SumEmpty DEF Squares

LEMMA SquaresPush ==
    ASSUME NEW s \in Seq(Int), NEW x \in Int
    PROVE  Squares(<<x>> \o s) = Squares(s) + x * x
  <1> DEFINE t == <<x>> \o s
             u == <<x * x>> \o Squared(s)
  <1>1. /\ t \in Seq(Int) /\ Len(t) = Len(s) + 1 /\ t[1] = x
        /\ \A i \in 1 .. Len(s) : t[i + 1] = s[i]
    BY PushedIs
  <1>2. /\ Squared(s) \in Seq(Int) /\ Len(Squared(s)) = Len(s) /\ Len(s) \in Nat
        /\ \A i \in 1 .. Len(s) : Squared(s)[i] = s[i] * s[i]
    BY SquaredIs, LenProperties
  <1>3. /\ u \in Seq(Int) /\ Len(u) = Len(s) + 1 /\ u[1] = x * x
        /\ \A i \in 1 .. Len(s) : u[i + 1] = Squared(s)[i]
    <2>1. x * x \in Int
      BY SquareIs
    <2> QED BY <1>2, <2>1, PushedIs
  <1> HIDE DEF t, u
  <1>4. /\ Squared(t) \in Seq(Int) /\ Len(Squared(t)) = Len(t)
        /\ \A i \in 1 .. Len(t) : Squared(t)[i] = t[i] * t[i]
    BY <1>1, SquaredIs
  <1>5. ASSUME NEW i \in 1 .. Len(t) PROVE Squared(t)[i] = u[i]
    <2>1. CASE i = 1
      BY <1>1, <1>3, <1>4, <2>1
    <2>2. CASE i # 1
      <3>1. i - 1 \in 1 .. Len(s) /\ (i - 1) + 1 = i
        BY <1>1, <1>2, <2>2
      <3>2. t[i] = s[i - 1] /\ u[i] = Squared(s)[i - 1] /\ Squared(s)[i - 1] = s[i - 1] * s[i - 1]
        BY <1>1, <1>2, <1>3, <3>1
      <3> QED BY <1>4, <3>2
    <2> QED BY <2>1, <2>2
  <1>6. Squared(t) = u
    BY <1>1, <1>3, <1>4, <1>5, SameSeq
  <1>7. Sum(u) = Sum(Squared(s)) + x * x
    <2>1. x * x \in Int
      BY SquareIs
    <2> QED BY <1>2, <2>1, SumPush DEF u
  <1> QED BY <1>6, <1>7 DEF Squares, t

LEMMA SquaresRemoved ==
    ASSUME NEW s \in Seq(Int), NEW i \in 1 .. Len(s)
    PROVE  Squares(RemoveAt(s, i)) = Squares(s) - s[i] * s[i]
  <1> DEFINE r == RemoveAt(s, i)
             u == RemoveAt(Squared(s), i)
  <1>1. /\ r \in Seq(Int) /\ Len(r) = Len(s) - 1
        /\ \A j \in 1 .. Len(s) - 1 : r[j] = IF j < i THEN s[j] ELSE s[j + 1]
    BY RemovedIs
  <1>2. /\ Squared(s) \in Seq(Int) /\ Len(Squared(s)) = Len(s) /\ Len(s) \in Nat
        /\ \A j \in 1 .. Len(s) : Squared(s)[j] = s[j] * s[j]
    BY SquaredIs, LenProperties
  <1>3. /\ u \in Seq(Int) /\ Len(u) = Len(s) - 1
        /\ \A j \in 1 .. Len(s) - 1 : u[j] = IF j < i THEN Squared(s)[j] ELSE Squared(s)[j + 1]
    <2>1. i \in 1 .. Len(Squared(s))
      BY <1>2
    <2> QED BY <1>2, <2>1, RemovedIs
  <1> HIDE DEF r, u
  <1>4. /\ Squared(r) \in Seq(Int) /\ Len(Squared(r)) = Len(r)
        /\ \A j \in 1 .. Len(r) : Squared(r)[j] = r[j] * r[j]
    BY <1>1, SquaredIs
  <1>5. ASSUME NEW j \in 1 .. Len(r) PROVE Squared(r)[j] = u[j]
    <2>1. j \in 1 .. Len(s) - 1 /\ j \in 1 .. Len(s) /\ j + 1 \in 1 .. Len(s)
      BY <1>1, <1>2
    <2> QED BY <1>1, <1>2, <1>3, <1>4, <2>1
  <1>6. Squared(r) = u
    BY <1>1, <1>3, <1>4, <1>5, SameSeq
  <1>7. Sum(u) = Sum(Squared(s)) - Squared(s)[i]
    <2>1. i \in 1 .. Len(Squared(s))
      BY <1>2
    <2> QED BY <1>2, <2>1, SumRemoved DEF u
  <1> QED BY <1>2, <1>6, <1>7 DEF Squares, r

LEMMA NextBound ==
    ASSUME NEW a \in Int, NEW b \in Int, NEW x \in Int, NEW y \in Int,
           0 <= y, x <= y, -x <= y
    PROVE  /\ b <= b + y
           /\ 0 <= b /\ -b <= a /\ a <= b => 0 <= b + y /\ -(b + y) <= a + x /\ a + x <= b + y
  OBVIOUS

\* The sums of the oldest elements, f, are bounded by those of their squares, h, and these
\* never fall.
LEMMA RunningBounds ==
    ASSUME NEW s \in Seq(Int), NEW f, NEW h, Running(f, s), Running(h, Squared(s))
    PROVE  \A k \in 0 .. Len(s) : /\ 0 <= h[k] /\ -h[k] <= f[k] /\ f[k] <= h[k]
                                  /\ h[k] <= h[Len(s)]
  <1> DEFINE n == Len(s)
  <1>1. /\ n \in Nat /\ f \in [0 .. n -> Int] /\ f[0] = 0
        /\ \A k \in 1 .. n : /\ Oldest(s, k) \in Int
                             /\ f[k] = f[k - 1] + Oldest(s, k)
    BY OldestIs DEF Running
  <1>2. /\ h \in [0 .. n -> Int] /\ h[0] = 0
        /\ \A k \in 1 .. n : h[k] = h[k - 1] + Oldest(s, k) * Oldest(s, k)
    BY SquaredIs DEF Running
  <1> HIDE DEF n
  <1>3. ASSUME NEW k \in 1 .. n
        PROVE  /\ k - 1 \in 0 .. n /\ k \in 0 .. n
               /\ f[k] \in Int /\ f[k - 1] \in Int /\ h[k] \in Int /\ h[k - 1] \in Int
               /\ h[k - 1] <= h[k]
               /\ 0 <= h[k - 1] /\ -h[k - 1] <= f[k - 1] /\ f[k - 1] <= h[k - 1]
                  => 0 <= h[k] /\ -h[k] <= f[k] /\ f[k] <= h[k]
    <2>1. k - 1 \in 0 .. n /\ k \in 0 .. n
      BY <1>1
    <2>2. f[k] \in Int /\ f[k - 1] \in Int /\ h[k] \in Int /\ h[k - 1] \in Int
      BY <1>1, <1>2, <2>1
    <2> DEFINE x == Oldest(s, k)
               xx == x * x
    <2>3. x \in Int /\ xx \in Int /\ 0 <= xx /\ x <= xx /\ -x <= xx
      BY <1>1, SquareIs
    <2>4. f[k] = f[k - 1] + x /\ h[k] = h[k - 1] + xx
      BY <1>1, <1>2
    <2> HIDE DEF x, xx
    <2> DEFINE a == f[k - 1]
               b == h[k - 1]
    <2>5. a \in Int /\ b \in Int
      BY <2>2
    <2>6. f[k] = a + x /\ h[k] = b + xx
      BY <2>4
    <2> HIDE DEF a, b
    <2>7. /\ b <= b + xx
          /\ 0 <= b /\ -b <= a /\ a <= b => 0 <= b + xx /\ -(b + xx) <= a + x /\ a + x <= b + xx
      BY <2>3, <2>5, NextBound
    <2>8. /\ b <= h[k]
          /\ 0 <= b /\ -b <= a /\ a <= b => 0 <= h[k] /\ -h[k] <= f[k] /\ f[k] <= h[k]
      BY <2>6, <2>7, Zenon
    <2> QED BY <2>1, <2>2, <2>8 DEF a, b
  <1> DEFINE B(k) == 0 <= h[k] /\ -h[k] <= f[k] /\ f[k] <= h[k]
             T == {k \in Nat : k <= n => B(k)}
  <1>4. 0 \in T
    BY <1>1, <1>2
  <1>5. ASSUME NEW k \in Nat, k \in T PROVE k + 1 \in T
    <2> SUFFICES ASSUME k + 1 <= n PROVE B(k + 1)
      OBVIOUS
    <2>1. k + 1 \in 1 .. n /\ (k + 1) - 1 = k /\ k <= n
      BY <1>1
    <2> QED BY <1>3, <1>5, <2>1
  <1>6. Nat \subseteq T
    <2> HIDE DEF T
    <2> QED BY <1>4, <1>5, Induction
  <1> DEFINE Below(j) == h[n - j] <= h[n]
             U == {j \in Nat : j <= n => Below(j)}
  <1>7. 0 \in U
    <2>1. n - 0 = n /\ n \in 0 .. n
      BY <1>1
    <2>2. h[n] \in Int
      BY <1>2, <2>1
    <2>3. h[n] <= h[n]
      BY <2>2
    <2> QED BY <2>1, <2>3
  <1>8. ASSUME NEW j \in Nat, j \in U PROVE j + 1 \in U
    <2> SUFFICES ASSUME j + 1 <= n PROVE Below(j + 1)
      OBVIOUS
    <2>1. n - j \in 1 .. n /\ (n - j) - 1 = n - (j + 1) /\ j <= n /\ n \in 0 .. n
      BY <1>1
    <2>2. h[n] \in Int /\ h[n - j] <= h[n]
      BY <1>2, <1>8, <2>1
    <2>3. h[(n - j) - 1] <= h[n - j] /\ h[n - j] \in Int /\ h[(n - j) - 1] \in Int
      BY <1>3, <2>1
    <2>4. h[(n - j) - 1] <= h[n]
      BY <2>2, <2>3
    <2> QED BY <2>1, <2>4
  <1>9. Nat \subseteq U
    <2> HIDE DEF U
    <2> QED BY <1>7, <1>8, Induction
  <1>10. ASSUME NEW k \in 0 .. n PROVE B(k) /\ h[k] <= h[n]
    <2>1. k \in Nat /\ k <= n /\ n - k \in Nat /\ n - k <= n /\ n - (n - k) = k
      BY <1>1
    <2>2. B(k)
      BY <1>6, <2>1
    <2>3. Below(n - k)
      BY <1>9, <2>1
    <2> QED BY <2>1, <2>2, <2>3
  <1> QED BY <1>10 DEF n

LEMMA SumBounds ==
    ASSUME NEW s \in Seq(Int)
    PROVE  /\ 0 <= Squares(s) /\ -Squares(s) <= Sum(s) /\ Sum(s) <= Squares(s)
           /\ Squares(s) \in Int /\ Sum(s) \in Int
  <1>1. PICK f : Running(f, s) /\ Sum(s) = f[Len(s)]
    BY SumRuns
  <1>2. PICK h : Running(h, Squared(s)) /\ Squares(s) = h[Len(s)]
    BY SumRuns, SquaredIs DEF Squares
  <1>3. Len(s) \in 0 .. Len(s)
    BY LenProperties
  <1>4. 0 <= h[Len(s)] /\ -h[Len(s)] <= f[Len(s)] /\ f[Len(s)] <= h[Len(s)]
    BY <1>1, <1>2, <1>3, RunningBounds
  <1> QED BY <1>1, <1>2, <1>4, SumInt, SquaresInt

\* No element's square is more than the sum of all squares.
LEMMA SquareFits ==
    ASSUME NEW s \in Seq(Int), NEW i \in 1 .. Len(s)
    PROVE  /\ s[i] \in Int /\ s[i] * s[i] <= Squares(s)
           /\ Squares(RemoveAt(s, i)) <= Squares(s)
  <1>1. s[i] \in Int /\ RemoveAt(s, i) \in Seq(Int)
    BY RemovedIs, ElementOfSeq
  <1> DEFINE xx == s[i] * s[i]
  <1>2. xx \in Int /\ 0 <= xx
    BY <1>1, SquareIs
  <1>3. Squares(RemoveAt(s, i)) = Squares(s) - xx /\ Squares(s) \in Int
    BY SquaresRemoved, SquaresInt
  <1>4. 0 <= Squares(RemoveAt(s, i))
    BY <1>1, SumBounds
  <1> HIDE DEF xx
  <1>5. xx <= Squares(s) /\ Squares(RemoveAt(s, i)) <= Squares(s)
    BY <1>2, <1>3, <1>4
  <1> QED BY <1>1, <1>5 DEF xx

\* Multiples, and their quotients.
Multiple(a, b) == \E k \in Int : a = b * k

LEMMA MultipleIs ==
    ASSUME NEW b \in Nat \ {0}, NEW a \in Int
    PROVE  a % b = 0 <=> Multiple(a, b)
  <1>1. a = b * (a \div b) + (a % b) /\ a \div b \in Int /\ a % b \in 0 .. b - 1
    OBVIOUS
  <1>2. ASSUME NEW k \in Int, a = b * k PROVE a % b = 0
    <2>1. a = b * k + 0
      BY <1>2
    <2> QED BY <2>1
  <1>3. a % b = 0 => a = b * (a \div b)
    BY <1>1
  <1> QED BY <1>1, <1>2, <1>3 DEF Multiple

LEMMA MultiplesAdd ==
    ASSUME NEW b \in Int, NEW a \in Int, NEW c \in Int, Multiple(a, b), Multiple(c, b)
    PROVE  Multiple(a + c, b) /\ Multiple(a - c, b)
  <1>1. PICK k \in Int : a = b * k
    BY DEF Multiple
  <1>2. PICK m \in Int : c = b * m
    BY DEF Multiple
  <1>3. a + c = b * (k + m) /\ a - c = b * (k - m) /\ k + m \in Int /\ k - m \in Int
    BY <1>1, <1>2
  <1> QED BY <1>3 DEF Multiple

LEMMA MultiplesChain ==
    ASSUME NEW b \in Int, NEW c \in Int, NEW a, Multiple(a, b), Multiple(b, c)
    PROVE  Multiple(a, c)
  <1>1. PICK k \in Int : a = b * k
    BY DEF Multiple
  <1>2. PICK m \in Int : b = c * m
    BY DEF Multiple
  <1>3. a = c * (m * k) /\ m * k \in Int
    BY <1>1, <1>2
  <1> QED BY <1>3 DEF Multiple

\* What divides every oldest element divides their sums.
LEMMA SumsDivide ==
    ASSUME NEW b \in Int, NEW s \in Seq(Int), \A i \in 1 .. Len(s) : Multiple(s[i], b),
           NEW f, Running(f, s)
    PROVE  \A k \in 0 .. Len(s) : Multiple(f[k], b)
  <1> DEFINE n == Len(s)
  <1>2. n \in Nat /\ \A k \in 1 .. n : Oldest(s, k) \in Int
    BY OldestIs
  <1>3. ASSUME NEW k \in 1 .. n PROVE Multiple(Oldest(s, k), b)
    <2>1. n + 1 - k \in 1 .. n
      BY <1>2
    <2> QED BY <2>1 DEF Oldest
  <1>4. f \in [0 .. n -> Int] /\ f[0] = 0 /\ \A k \in 1 .. n : f[k] = f[k - 1] + Oldest(s, k)
    BY DEF Running
  <1> HIDE DEF n
  <1> DEFINE T == {k \in Nat : k <= n => Multiple(f[k], b)}
  <1>5. 0 \in T
    <2>1. 0 = b * 0 /\ 0 \in Int
      OBVIOUS
    <2> QED BY <1>4, <2>1 DEF Multiple
  <1>6. ASSUME NEW k \in Nat, k \in T PROVE k + 1 \in T
    <2> SUFFICES ASSUME k + 1 <= n PROVE Multiple(f[k + 1], b)
      OBVIOUS
    <2>1. k + 1 \in 1 .. n /\ (k + 1) - 1 = k /\ k \in 0 .. n
      BY <1>2
    <2>2. f[k] \in Int /\ Multiple(f[k], b) /\ f[k + 1] = f[k] + Oldest(s, k + 1)
      BY <1>4, <1>6, <2>1
    <2>3. Oldest(s, k + 1) \in Int /\ Multiple(Oldest(s, k + 1), b)
      BY <1>2, <1>3, <2>1
    <2> QED BY <2>2, <2>3, MultiplesAdd
  <1>7. Nat \subseteq T
    <2> HIDE DEF T
    <2> QED BY <1>5, <1>6, Induction
  <1>8. ASSUME NEW k \in 0 .. n PROVE Multiple(f[k], b)
    BY <1>2, <1>7
  <1> QED BY <1>8 DEF n

\* A window of one value.
LEMMA SumConstant ==
    ASSUME NEW s \in Seq(Int), NEW x \in Int, \A i \in 1 .. Len(s) : s[i] = x
    PROVE  Sum(s) = Len(s) * x
  <1> DEFINE n == Len(s)
  <1>1. PICK f : Running(f, s) /\ Sum(s) = f[n]
    BY SumRuns
  <1>2. n \in Nat
    BY OldestIs
  <1>3. ASSUME NEW k \in 1 .. n PROVE Oldest(s, k) = x
    <2>1. n + 1 - k \in 1 .. n
      BY <1>2
    <2> QED BY <2>1 DEF Oldest
  <1>4. f \in [0 .. n -> Int] /\ f[0] = 0 /\ \A k \in 1 .. n : f[k] = f[k - 1] + Oldest(s, k)
    BY <1>1 DEF Running
  <1> HIDE DEF n
  <1> DEFINE T == {k \in Nat : k <= n => f[k] = k * x}
  <1>5. 0 \in T
    BY <1>4
  <1>6. ASSUME NEW k \in Nat, k \in T PROVE k + 1 \in T
    <2> SUFFICES ASSUME k + 1 <= n PROVE f[k + 1] = (k + 1) * x
      OBVIOUS
    <2>1. k + 1 \in 1 .. n /\ (k + 1) - 1 = k /\ k <= n
      BY <1>2
    <2>2. f[k + 1] = k * x + x
      BY <1>3, <1>4, <1>6, <2>1
    <2>3. k * x + x = (k + 1) * x
      OBVIOUS
    <2> QED BY <2>2, <2>3
  <1>7. Nat \subseteq T
    <2> HIDE DEF T
    <2> QED BY <1>5, <1>6, Induction
  <1> QED BY <1>1, <1>2, <1>7 DEF n

----------------------------------------------------------------------------
(* The accumulators                                                        *)

\* What LossyAccumulator is worth when n samples, of sum S and of squares Q, are tracked.
LossyIs(acc, S, Q, n) ==
    /\ acc \in [sum : IMin .. IMax, squares : IMin .. IMax, fill : {n}, overflowed : BOOLEAN]
    /\ ~acc.overflowed => acc.sum = S /\ acc.squares = Q
    /\ n = 0 => acc = EmptyLossy

LEMMA SaturatedIs ==
    ASSUME StatisticsAssumption, NEW x \in Int
    PROVE  /\ Saturated(x) \in IMin .. IMax /\ (Clamped(x) <=> x > IMax \/ x < IMin)
           /\ (~Clamped(x) => Saturated(x) = x)
  BY DEF StatisticsAssumption, Saturated, Clamped

LEMMA EmptyLossyIs == ASSUME StatisticsAssumption PROVE LossyIs(EmptyLossy, 0, 0, 0)
  BY DEF StatisticsAssumption, EmptyLossy, LossyIs

LEMMA LossyAddIs ==
    ASSUME StatisticsAssumption,
           NEW S \in Int, NEW Q \in Int, NEW n \in Nat, NEW acc, LossyIs(acc, S, Q, n),
           NEW x \in Int, 0 <= Q,
           -(Q + x * x) <= S + x, S + x <= Q + x * x
    PROVE  /\ LossyIs(LossyAdd(acc, x), S + x, Q + x * x, n + 1)
           /\ acc.overflowed => LossyAdd(acc, x).overflowed
           /\ ~acc.overflowed => (LossyAdd(acc, x).overflowed <=> Q + x * x > IMax)
  <1> DEFINE xx == x * x
             square == Saturated(xx)
             sum == acc.sum + 1 * x
             squares == acc.squares + 1 * square
             new == LossyAdd(acc, x)
  <1>1. xx \in Int /\ 0 <= xx
    BY SquareIs
  <1>2. /\ acc.sum \in Int /\ acc.squares \in Int /\ acc.fill = n /\ acc.overflowed \in BOOLEAN
        /\ acc.squares <= IMax /\ IMax \in Nat /\ IMin = -IMax - 1
        /\ IMin \in Int
    BY DEF LossyIs, StatisticsAssumption
  <1>3. /\ new = [sum |-> Saturated(sum), squares |-> Saturated(squares), fill |-> n + 1,
                  overflowed |-> acc.overflowed \/ Clamped(sum) \/ Clamped(xx) \/ Clamped(squares)]
    BY <1>2 DEF LossyAdd, Moved
  <1> HIDE DEF xx
  <1>4. square \in Int /\ sum \in Int /\ squares \in Int /\ sum = acc.sum + x /\ squares = acc.squares + square
    BY <1>1, <1>2, SaturatedIs
  <1> HIDE DEF square, sum, squares, new
  <1>5. /\ Saturated(sum) \in IMin .. IMax /\ Saturated(squares) \in IMin .. IMax
        /\ (Clamped(sum) <=> sum > IMax \/ sum < IMin) /\ (~Clamped(sum) => Saturated(sum) = sum)
        /\ (Clamped(squares) <=> squares > IMax \/ squares < IMin)
        /\ (~Clamped(squares) => Saturated(squares) = squares)
        /\ (Clamped(xx) <=> xx > IMax \/ xx < IMin) /\ (~Clamped(xx) => square = xx)
    <2>1. ~Clamped(xx) => square = xx
      BY <1>1, SaturatedIs DEF square
    <2> QED BY <1>1, <1>4, <2>1, SaturatedIs
  <1>6. new \in [sum : IMin .. IMax, squares : IMin .. IMax, fill : {n + 1}, overflowed : BOOLEAN]
    <2>1. (acc.overflowed \/ Clamped(sum) \/ Clamped(xx) \/ Clamped(squares)) \in BOOLEAN
      OBVIOUS
    <2> QED BY <1>3, <1>5, <2>1
  <1>7. new.overflowed <=> acc.overflowed \/ Clamped(sum) \/ Clamped(xx) \/ Clamped(squares)
    BY <1>3, Zenon
  <1>8. ASSUME ~new.overflowed PROVE new.sum = S + x /\ new.squares = Q + xx
    <2>1. acc.sum = S /\ acc.squares = Q
      BY <1>7, <1>8 DEF LossyIs
    <2>2. new.sum = sum /\ new.squares = squares /\ square = xx
      BY <1>3, <1>5, <1>7, <1>8
    <2> QED BY <1>4, <2>1, <2>2
  <1>9. ASSUME ~acc.overflowed PROVE new.overflowed <=> Q + xx > IMax
    <2>1. acc.sum = S /\ acc.squares = Q
      BY <1>9 DEF LossyIs
    <2>2. -(Q + xx) <= S + x /\ S + x <= Q + xx
      BY DEF xx
    <2>3. CASE xx > IMax
      BY <1>1, <1>2, <1>5, <1>7, <2>3
    <2>4. CASE ~(xx > IMax)
      <3>1. ~Clamped(xx) /\ square = xx
        BY <1>1, <1>2, <1>5, <2>4
      <3>2. sum = S + x /\ squares = Q + xx
        BY <1>4, <2>1, <3>1
      <3> QED BY <1>1, <1>2, <1>5, <1>7, <1>9, <2>2, <3>1, <3>2
    <2> QED BY <2>3, <2>4
  <1>10. n + 1 # 0
    OBVIOUS
  <1>11. LossyIs(new, S + x, Q + xx, n + 1)
    BY <1>6, <1>8, <1>10 DEF LossyIs
  <1> QED BY <1>7, <1>9, <1>11 DEF new, xx

LEMMA LossyRemoveIs ==
    ASSUME StatisticsAssumption,
           NEW S \in Int, NEW Q \in Int, NEW n \in Nat, n >= 1, NEW acc, LossyIs(acc, S, Q, n),
           NEW x \in Int, 0 <= Q - x * x,
           -(Q - x * x) <= S - x, S - x <= Q - x * x,
           n = 1 => S = x /\ Q = x * x
    PROVE  /\ LossyIs(LossyRemove(acc, x), S - x, Q - x * x, n - 1)
           /\ ~acc.overflowed => ~LossyRemove(acc, x).overflowed
  <1> DEFINE xx == x * x
             square == Saturated(xx)
             sum == acc.sum + (-1) * x
             squares == acc.squares + (-1) * square
             new == LossyRemove(acc, x)
  <1>1. xx \in Int /\ 0 <= xx /\ (n = 1 => S - x = 0 /\ Q - xx = 0)
    BY SquareIs
  <1>2. /\ acc.sum \in Int /\ acc.squares \in Int /\ acc.fill = n /\ acc.overflowed \in BOOLEAN
        /\ acc.squares <= IMax /\ IMax \in Nat /\ IMin = -IMax - 1
        /\ IMin \in Int
    BY DEF LossyIs, StatisticsAssumption
  <1>3. CASE n = 1
    <2>1. new = EmptyLossy
      BY <1>2, <1>3 DEF LossyRemove
    <2>2. ~EmptyLossy.overflowed
      BY DEF EmptyLossy
    <2>3. S - x = 0 /\ Q - xx = 0 /\ n - 1 = 0
      BY <1>1, <1>3
    <2>4. LossyIs(new, S - x, Q - xx, n - 1)
      BY <2>1, <2>3, EmptyLossyIs
    <2> QED BY <2>1, <2>2, <2>4
  <1>4. CASE n # 1
    <2>1. /\ new = [sum |-> Saturated(sum), squares |-> Saturated(squares), fill |-> n - 1,
                    overflowed |-> acc.overflowed \/ Clamped(sum) \/ Clamped(xx) \/ Clamped(squares)]
      <3>1. n + (-1) = n - 1
        OBVIOUS
      <3> QED BY <1>2, <1>4, <3>1 DEF LossyRemove, Moved
    <2> HIDE DEF xx
    <2>2. square \in Int /\ sum \in Int /\ squares \in Int /\ sum = acc.sum - x /\ squares = acc.squares - square
      BY <1>1, <1>2, SaturatedIs
    <2> HIDE DEF square, sum, squares, new
    <2>3. /\ Saturated(sum) \in IMin .. IMax /\ Saturated(squares) \in IMin .. IMax
          /\ (Clamped(sum) <=> sum > IMax \/ sum < IMin) /\ (~Clamped(sum) => Saturated(sum) = sum)
          /\ (Clamped(squares) <=> squares > IMax \/ squares < IMin)
          /\ (~Clamped(squares) => Saturated(squares) = squares)
          /\ (Clamped(xx) <=> xx > IMax \/ xx < IMin) /\ (~Clamped(xx) => square = xx)
      <3>1. ~Clamped(xx) => square = xx
        BY <1>1, SaturatedIs DEF square
      <3> QED BY <1>1, <2>2, <3>1, SaturatedIs
    <2>4. new \in [sum : IMin .. IMax, squares : IMin .. IMax, fill : {n - 1}, overflowed : BOOLEAN]
      <3>1. (acc.overflowed \/ Clamped(sum) \/ Clamped(xx) \/ Clamped(squares)) \in BOOLEAN
        OBVIOUS
      <3> QED BY <2>1, <2>3, <3>1
    <2>5. new.overflowed <=> acc.overflowed \/ Clamped(sum) \/ Clamped(xx) \/ Clamped(squares)
      BY <2>1, Zenon
    <2>6. ASSUME ~new.overflowed PROVE new.sum = S - x /\ new.squares = Q - xx
      <3>1. acc.sum = S /\ acc.squares = Q
        BY <2>5, <2>6 DEF LossyIs
      <3>2. new.sum = sum /\ new.squares = squares /\ square = xx
        BY <2>1, <2>3, <2>5, <2>6
      <3> QED BY <2>2, <3>1, <3>2
    <2>7. ASSUME ~acc.overflowed PROVE ~new.overflowed
      <3>1. acc.sum = S /\ acc.squares = Q /\ Q <= IMax
        BY <1>2, <2>7 DEF LossyIs
      <3>2. 0 <= Q - xx /\ -(Q - xx) <= S - x /\ S - x <= Q - xx
        BY DEF xx
      <3>3. ~Clamped(xx) /\ square = xx
        BY <1>1, <1>2, <2>3, <3>1, <3>2
      <3>4. sum = S - x /\ squares = Q - xx
        BY <2>2, <3>1, <3>3
      <3> QED BY <1>1, <1>2, <2>3, <2>5, <2>7, <3>1, <3>2, <3>3, <3>4
    <2>8. n - 1 # 0
      BY <1>4
    <2>9. LossyIs(new, S - x, Q - xx, n - 1)
      BY <2>4, <2>6, <2>8 DEF LossyIs
    <2> QED BY <2>7, <2>9 DEF new, xx
  <1> QED BY <1>3, <1>4 DEF new, xx

\* What WelfordAccumulator is worth.
WelfordIs(acc, S, Q, n) ==
    /\ acc.count = n /\ acc.mean \in Int /\ acc.m2 \in Int
    /\ acc.mean * n = S /\ acc.m2 = Q - acc.mean * S
    /\ n = 0 => acc = EmptyWelford

LEMMA EmptyWelfordIs == WelfordIs(EmptyWelford, 0, 0, 0)
  BY DEF EmptyWelford, WelfordIs

LEMMA Divides == ASSUME NEW b \in Nat \ {0}, NEW k \in Int, NEW a, a = b * k PROVE a \div b = k
  <1>1. a = b * k + 0
    OBVIOUS
  <1> QED BY <1>1

LEMMA WelfordAddIs ==
    ASSUME NEW S \in Int, NEW Q \in Int, NEW n \in Nat, NEW acc, WelfordIs(acc, S, Q, n),
           NEW x \in Int, Multiple(S + x, n + 1)
    PROVE  WelfordIs(WelfordAdd(acc, x), S + x, Q + x * x, n + 1)
  <1>1. PICK m \in Int : S + x = (n + 1) * m
    BY DEF Multiple
  <1> DEFINE o == acc.mean
             new == WelfordAdd(acc, x)
  <1>2. o \in Int /\ o * n = S /\ acc.m2 \in Int /\ acc.m2 = Q - o * S /\ acc.count = n
    BY DEF WelfordIs
  <1> HIDE DEF o
  <1>3. x - o = (n + 1) * (m - o)
    BY <1>1, <1>2
  <1>4. (x - o) \div (n + 1) = m - o
    <2>1. n + 1 \in Nat \ {0} /\ m - o \in Int
      BY <1>2
    <2> QED BY <1>3, <2>1, Divides
  <1>5. new = [mean |-> m, count |-> n + 1, m2 |-> acc.m2 + (x - o) * (x - m)]
    <2>1. o + (m - o) = m
      BY <1>2
    <2> QED BY <1>2, <1>4, <2>1 DEF WelfordAdd, o
  <1>6. acc.m2 + (x - o) * (x - m) = (Q + x * x) - m * (S + x)
    BY <1>1, <1>2
  <1>7. m * (n + 1) = S + x /\ acc.m2 + (x - o) * (x - m) \in Int /\ n + 1 # 0
    BY <1>1, <1>2
  <1> HIDE DEF new
  <1>8. new.mean = m /\ new.count = n + 1 /\ new.m2 = acc.m2 + (x - o) * (x - m)
    BY <1>5
  <1> QED BY <1>6, <1>7, <1>8 DEF WelfordIs, new

LEMMA WelfordRemoveIs ==
    ASSUME NEW S \in Int, NEW Q \in Int, NEW n \in Nat, n >= 1, NEW acc, WelfordIs(acc, S, Q, n),
           NEW x \in Int, n = 1 => S = x /\ Q = x * x, n # 1 => Multiple(S - x, n - 1)
    PROVE  WelfordIs(WelfordRemove(acc, x), S - x, Q - x * x, n - 1)
  <1> DEFINE o == acc.mean
             new == WelfordRemove(acc, x)
  <1>1. o \in Int /\ o * n = S /\ acc.m2 \in Int /\ acc.m2 = Q - o * S /\ acc.count = n
    BY DEF WelfordIs
  <1>2. CASE n = 1
    <2>1. new = EmptyWelford
      BY <1>1, <1>2 DEF WelfordRemove
    <2>2. S - x = 0 /\ Q - x * x = 0 /\ n - 1 = 0
      BY <1>2, SquareIs
    <2> QED BY <2>1, <2>2, EmptyWelfordIs
  <1>3. CASE n # 1
    <2>1. PICK m \in Int : S - x = (n - 1) * m
      BY <1>3 DEF Multiple
    <2> HIDE DEF o
    <2>2. x - o = (n - 1) * (o - m)
      BY <1>1, <2>1
    <2>3. (x - o) \div (n - 1) = o - m
      <3>1. n - 1 \in Nat \ {0} /\ o - m \in Int
        BY <1>1, <1>3
      <3> QED BY <2>2, <3>1, Divides
    <2>4. new = [mean |-> m, count |-> n - 1, m2 |-> acc.m2 - (x - o) * (x - m)]
      <3>1. o - (o - m) = m
        BY <1>1
      <3> QED BY <1>1, <1>3, <2>3, <3>1 DEF WelfordRemove, o
    <2>5. acc.m2 - (x - o) * (x - m) = (Q - x * x) - m * (S - x)
      BY <1>1, <2>1
    <2>6. m * (n - 1) = S - x /\ acc.m2 - (x - o) * (x - m) \in Int /\ n - 1 # 0
      BY <1>1, <1>3, <2>1
    <2> HIDE DEF new
    <2>7. new.mean = m /\ new.count = n - 1 /\ new.m2 = acc.m2 - (x - o) * (x - m)
      BY <2>4
    <2>8. WelfordIs(new, S - x, Q - x * x, n - 1)
      BY <2>5, <2>6, <2>7 DEF WelfordIs
    <2> QED BY <2>8 DEF new
  <1> QED BY <1>2, <1>3

\* Samples are integers that fit, and every size of window divides them.
LEMMA SamplesAre ==
    ASSUME StatisticsAssumption
    PROVE  /\ \A x \in Samples : x \in Int /\ IMin <= x /\ x <= IMax /\ Multiple(x, Unit)
           /\ Unit \in Int /\ \A k \in 1 .. WindowSize : Multiple(Unit, k)
           /\ WindowSize \in Nat /\ WindowSize >= 3
  <1>1. ASSUME NEW x \in Samples PROVE x \in Int /\ IMin <= x /\ x <= IMax /\ Multiple(x, Unit)
    <2>1. x \in Int /\ x % Unit = 0 /\ IMin <= x /\ x <= IMax /\ Unit \in Nat \ {0}
      BY DEF StatisticsAssumption
    <2> QED BY <2>1, MultipleIs
  <1>2. ASSUME NEW k \in 1 .. WindowSize PROVE Multiple(Unit, k)
    <2>1. Unit % k = 0
      BY Zenon DEF StatisticsAssumption
    <2>2. Unit \in Int /\ WindowSize \in Nat
      BY DEF StatisticsAssumption
    <2>3. k \in Nat \ {0}
      BY <2>2
    <2> QED BY <2>1, <2>2, <2>3, MultipleIs
  <1>3. Unit \in Int /\ WindowSize \in Nat /\ WindowSize >= 3
    BY DEF StatisticsAssumption
  <1> QED BY <1>1, <1>2, <1>3

LEMMA WindowIs ==
    ASSUME StatisticsAssumption, NEW s \in Seq(Samples)
    PROVE  s \in Seq(Int) /\ Len(s) \in Nat /\ \A i \in 1 .. Len(s) : s[i] \in Samples
  <1>1. Samples \subseteq Int
    BY SamplesAre
  <1>2. s \in [1 .. Len(s) -> Samples] /\ Len(s) \in Nat
    BY LenProperties
  <1>3. s \in [1 .. Len(s) -> Int]
    BY <1>1, <1>2
  <1> QED BY <1>2, <1>3

\* The mean of a window is an integer.
LEMMA SumIsMultiple ==
    ASSUME StatisticsAssumption, NEW s \in Seq(Samples)
    PROVE  Multiple(Sum(s), Unit)
           /\ \A f : Running(f, s) => \A k \in 0 .. Len(s) : Multiple(f[k], Unit)
  <1>1. s \in Seq(Int) /\ Len(s) \in Nat /\ \A i \in 1 .. Len(s) : Multiple(s[i], Unit)
    BY WindowIs, SamplesAre
  <1>2. ASSUME NEW f, Running(f, s) PROVE \A k \in 0 .. Len(s) : Multiple(f[k], Unit)
    BY <1>1, <1>2, SumsDivide, SamplesAre
  <1>3. PICK f : Running(f, s) /\ Sum(s) = f[Len(s)]
    BY <1>1, SumRuns
  <1>4. Len(s) \in 0 .. Len(s)
    BY <1>1
  <1> QED BY <1>2, <1>3, <1>4

\* What LossyAdd and WelfordAdd return, whatever they are given.
Accumulators ==
    [lossy : [sum : Int, squares : Int, fill : Int, overflowed : BOOLEAN],
     welford : [mean : Int, m2 : Int, count : Nat]]

Add(a, x) == [lossy |-> LossyAdd(a.lossy, x), welford |-> WelfordAdd(a.welford, x)]

LEMMA AddType ==
    ASSUME StatisticsAssumption, NEW a \in Accumulators, NEW x \in Int
    PROVE  Add(a, x) \in Accumulators
  <1>1. LossyAdd(a.lossy, x) \in [sum : Int, squares : Int, fill : Int, overflowed : BOOLEAN]
    <2> DEFINE sum == a.lossy.sum + 1 * x
               square == Saturated(x * x)
               squares == a.lossy.squares + 1 * square
               flag == a.lossy.overflowed \/ Clamped(sum) \/ Clamped(x * x) \/ Clamped(squares)
    <2>1. a.lossy.sum \in Int /\ a.lossy.squares \in Int /\ a.lossy.fill \in Int
      BY DEF Accumulators
    <2>2. \A y \in Int : Saturated(y) \in Int
      BY DEF Saturated, StatisticsAssumption
    <2>3. x * x \in Int /\ square \in Int
      BY <2>2, SquareIs
    <2> HIDE DEF square
    <2>4. sum \in Int /\ squares \in Int /\ a.lossy.fill + 1 \in Int
      BY <2>1, <2>3
    <2>5. flag \in BOOLEAN
      OBVIOUS
    <2>6. LossyAdd(a.lossy, x) = [sum |-> Saturated(sum), squares |-> Saturated(squares),
                                  fill |-> a.lossy.fill + 1, overflowed |-> flag]
      BY Zenon DEF LossyAdd, Moved, square
    <2> HIDE DEF sum, squares, flag
    <2> QED BY <2>2, <2>4, <2>5, <2>6
  <1>2. WelfordAdd(a.welford, x) \in [mean : Int, m2 : Int, count : Nat]
    <2> DEFINE o == a.welford.mean
               n == a.welford.count
               m == o + (x - o) \div (n + 1)
    <2>1. o \in Int /\ n \in Nat /\ a.welford.m2 \in Int
      BY DEF Accumulators
    <2>2. WelfordAdd(a.welford, x)
            = [mean |-> m, count |-> n + 1, m2 |-> a.welford.m2 + (x - o) * (x - m)]
      BY DEF WelfordAdd
    <2> HIDE DEF o, n
    <2>3. m \in Int /\ n + 1 \in Nat
      BY <2>1
    <2> HIDE DEF m
    <2>4. a.welford.m2 + (x - o) * (x - m) \in Int
      BY <2>1, <2>3
    <2> QED BY <2>2, <2>3, <2>4
  <1> QED BY <1>1, <1>2, Zenon DEF Add, Accumulators

LEMMA EmptyType ==
    ASSUME StatisticsAssumption
    PROVE  [lossy |-> EmptyLossy, welford |-> EmptyWelford] \in Accumulators
  BY DEF EmptyLossy, EmptyWelford, Accumulators

\* Fed is the last value of a loop.
Feeds(a, s) ==
    /\ a[0] = [lossy |-> EmptyLossy, welford |-> EmptyWelford]
    /\ \A i \in 1 .. Len(s) : a[i] = Add(a[i - 1], Oldest(s, i))

LEMMA FedRuns ==
    ASSUME StatisticsAssumption, NEW s \in Seq(Int)
    PROVE  \E a : Feeds(a, s) /\ Fed(s) = a[Len(s)]
  <1> DEFINE n == Len(s)
             first == [lossy |-> EmptyLossy, welford |-> EmptyWelford]
             F == [i \in 1 .. n |-> [a \in Accumulators |-> Add(a, Oldest(s, i))]]
             body(a) == [i \in 0 .. n |->
                            IF i = 0 THEN first
                            ELSE [lossy   |-> LossyAdd(a[i - 1].lossy, Oldest(s, i)),
                                  welford |-> WelfordAdd(a[i - 1].welford, Oldest(s, i))]]
             after == CHOOSE a : a = body(a)
  <1>1. Fed(s) = after[n]
    BY DEF Fed
  <1>2. n \in Nat /\ \A i \in 1 .. n : Oldest(s, i) \in Int
    BY OldestIs
  <1>3. first \in Accumulators
    BY EmptyType
  <1> HIDE DEF n, first
  <1>4. F \in [1 .. n -> [Accumulators -> Accumulators]]
    <2>1. ASSUME NEW i \in 1 .. n PROVE [a \in Accumulators |-> Add(a, Oldest(s, i))] \in [Accumulators -> Accumulators]
      BY <1>2, AddType
    <2> QED BY <2>1
  <1>5. PICK f \in [0 .. n -> Accumulators] : Loop(f, n, first, F)
    <2> HIDE DEF F
    <2> QED BY <1>2, <1>3, <1>4, LoopExists
  <1>6. ASSUME NEW i \in 1 .. n PROVE f[i] = Add(f[i - 1], Oldest(s, i))
    <2>1. i - 1 \in 0 .. n
      BY <1>2
    <2>2. f[i] = F[i][f[i - 1]]
      <3> HIDE DEF F
      <3> QED BY <1>5 DEF Loop
    <2>3. f[i - 1] \in Accumulators
      BY <1>5, <2>1
    <2> QED BY <2>2, <2>3
  <1> HIDE DEF F
  <1>7. f = body(f)
    <2>1. \A i \in 0 .. n : i # 0 => i \in 1 .. n
      BY <1>2
    <2>2. ASSUME NEW i \in 0 .. n PROVE f[i] = body(f)[i]
      BY <1>5, <1>6, <2>1 DEF Loop, Add
    <2> QED BY <1>5, <2>2
  <1>8. after = body(after)
    <2> HIDE DEF body
    <2> QED BY <1>7
  <1> HIDE DEF after
  <1>9. after[0] = first
    <2>1. 0 \in 0 .. n
      BY <1>2
    <2>2. body(after)[0] = first
      BY <2>1
    <2> HIDE DEF body
    <2> QED BY <1>8, <2>2
  <1>10. ASSUME NEW i \in 1 .. n PROVE after[i] = Add(after[i - 1], Oldest(s, i))
    <2>1. i \in 0 .. n /\ i # 0
      BY <1>2
    <2>2. body(after)[i] = Add(after[i - 1], Oldest(s, i))
      BY <2>1 DEF Add
    <2> HIDE DEF body
    <2> QED BY <1>8, <2>2
  <1> QED BY <1>1, <1>9, <1>10 DEF Feeds, n, first

\* A rebuild is worth the window, and its flag is up exactly if the window does not fit.
LEMMA FedIs ==
    ASSUME StatisticsAssumption, NEW s \in Seq(Samples), Len(s) <= WindowSize
    PROVE  /\ LossyIs(Fed(s).lossy, Sum(s), Squares(s), Len(s))
           /\ Fed(s).lossy.overflowed <=> Squares(s) > IMax
           /\ WelfordIs(Fed(s).welford, Sum(s), Squares(s), Len(s))
  <1> DEFINE n == Len(s)
  <1>1. s \in Seq(Int) /\ n \in Nat /\ \A i \in 1 .. n : Oldest(s, i) \in Int
    BY WindowIs, OldestIs
  <1>2. PICK a : Feeds(a, s) /\ Fed(s) = a[n]
    BY <1>1, FedRuns
  <1>3. PICK f : Running(f, s) /\ Sum(s) = f[n]
    BY <1>1, SumRuns
  <1>4. PICK h : Running(h, Squared(s)) /\ Squares(s) = h[n]
    BY <1>1, SumRuns, SquaredIs DEF Squares
  <1>5. \A k \in 0 .. n : /\ 0 <= h[k] /\ -h[k] <= f[k] /\ f[k] <= h[k]
                          /\ Multiple(f[k], Unit)
    BY <1>1, <1>3, <1>4, RunningBounds, SumIsMultiple
  <1>6. /\ f \in [0 .. n -> Int] /\ h \in [0 .. n -> Int] /\ f[0] = 0 /\ h[0] = 0
        /\ \A i \in 1 .. n : /\ f[i] = f[i - 1] + Oldest(s, i)
                             /\ h[i] = h[i - 1] + Oldest(s, i) * Oldest(s, i)
    BY <1>1, <1>3, <1>4, SquaredIs DEF Running
  <1>7. /\ a[0] = [lossy |-> EmptyLossy, welford |-> EmptyWelford]
        /\ \A i \in 1 .. n : a[i] = Add(a[i - 1], Oldest(s, i))
    BY <1>2 DEF Feeds
  <1>8. n <= WindowSize
    OBVIOUS
  <1> HIDE DEF n
  <1> DEFINE G(k) == /\ LossyIs(a[k].lossy, f[k], h[k], k)
                     /\ a[k].lossy.overflowed <=> h[k] > IMax
                     /\ WelfordIs(a[k].welford, f[k], h[k], k)
             T == {k \in Nat : k <= n => G(k)}
  <1>9. 0 \in T
    <2>1. a[0].lossy = EmptyLossy /\ a[0].welford = EmptyWelford
      BY <1>7
    <2>2. ~EmptyLossy.overflowed /\ ~(0 > IMax)
      BY DEF EmptyLossy, StatisticsAssumption
    <2>3. G(0)
      BY <1>6, <2>1, <2>2, EmptyLossyIs, EmptyWelfordIs
    <2> HIDE DEF G
    <2> QED BY <2>3
  <1>10. ASSUME NEW k \in Nat, k \in T PROVE k + 1 \in T
    <2> SUFFICES ASSUME k + 1 <= n PROVE G(k + 1)
      OBVIOUS
    <2> DEFINE x == Oldest(s, k + 1)
               xx == x * x
    <2>1. k + 1 \in 1 .. n /\ (k + 1) - 1 = k /\ k \in 0 .. n /\ k + 1 \in 0 .. n /\ k <= n
      BY <1>1
    <2>2. G(k)
      BY <1>10, <2>1
    <2>3. x \in Int /\ xx \in Int /\ 0 <= xx
      BY <1>1, <2>1, SquareIs
    <2>4. f[k + 1] = f[k] + x /\ h[k + 1] = h[k] + xx /\ f[k] \in Int /\ h[k] \in Int
      BY <1>6, <2>1
    <2>5. a[k + 1].lossy = LossyAdd(a[k].lossy, x) /\ a[k + 1].welford = WelfordAdd(a[k].welford, x)
      <3>1. a[k + 1] = Add(a[k], x)
        BY <1>7, <2>1
      <3> HIDE DEF x
      <3> QED BY <3>1 DEF Add
    <2>6. 0 <= h[k] /\ -(h[k] + xx) <= f[k] + x /\ f[k] + x <= h[k] + xx
      BY <1>5, <2>1, <2>4
    <2>7. Multiple(f[k] + x, k + 1)
      <3>1. Multiple(f[k] + x, Unit)
        BY <1>5, <2>1, <2>4
      <3>2. k + 1 \in 1 .. WindowSize
        BY <1>1, <1>8, <2>1, SamplesAre
      <3>3. Multiple(Unit, k + 1) /\ Unit \in Int /\ k + 1 \in Int
        BY <3>2, SamplesAre
      <3> QED BY <3>1, <3>3, MultiplesChain
    <2> HIDE DEF x
    <2>8. /\ LossyIs(LossyAdd(a[k].lossy, x), f[k] + x, h[k] + xx, k + 1)
          /\ a[k].lossy.overflowed => LossyAdd(a[k].lossy, x).overflowed
          /\ ~a[k].lossy.overflowed => (LossyAdd(a[k].lossy, x).overflowed <=> h[k] + xx > IMax)
      BY <2>2, <2>3, <2>4, <2>6, LossyAddIs
    <2>9. WelfordIs(WelfordAdd(a[k].welford, x), f[k] + x, h[k] + xx, k + 1)
      BY <2>2, <2>3, <2>4, <2>7, WelfordAddIs
    <2>10. LossyAdd(a[k].lossy, x).overflowed <=> h[k] + xx > IMax
      <3>1. CASE a[k].lossy.overflowed
        <4>1. h[k] > IMax /\ IMax \in Int
          BY <2>2, <3>1 DEF StatisticsAssumption
        <4> HIDE DEF xx
        <4>2. h[k] + xx > IMax
          BY <2>3, <2>4, <4>1
        <4> QED BY <2>8, <3>1, <4>2
      <3> QED BY <2>8, <3>1
    <2> QED BY <2>4, <2>5, <2>8, <2>9, <2>10
  <1>11. Nat \subseteq T
    <2> HIDE DEF T
    <2> QED BY <1>9, <1>10, Induction
  <1>12. G(n)
    <2>1. n \in T /\ n <= n
      BY <1>1, <1>11
    <2> QED BY <2>1
  <1> QED BY <1>2, <1>3, <1>4, <1>12 DEF n

----------------------------------------------------------------------------
(* The steps                                                               *)

StatInv ==
    /\ window \in Seq(Samples) /\ Len(window) <= WindowSize
    /\ evicted \in Samples \cup {NoSample}
    /\ LossyIs(lossy, Sum(window), Squares(window), Len(window))
    /\ WelfordIs(welford, Sum(window), Squares(window), Len(window))

\* A sample in front of a window with a place for it.
LEMMA AddIs ==
    ASSUME StatisticsAssumption, NEW s \in Seq(Samples), Len(s) + 1 <= WindowSize,
           NEW x \in Samples, NEW l, NEW w,
           LossyIs(l, Sum(s), Squares(s), Len(s)), WelfordIs(w, Sum(s), Squares(s), Len(s))
    PROVE  LET t == <<x>> \o s
           IN  /\ t \in Seq(Samples) /\ Len(t) = Len(s) + 1
               /\ LossyIs(LossyAdd(l, x), Sum(t), Squares(t), Len(t))
               /\ WelfordIs(WelfordAdd(w, x), Sum(t), Squares(t), Len(t))
               /\ ~l.overflowed => (LossyAdd(l, x).overflowed <=> Squares(t) > IMax)
  <1> DEFINE t == <<x>> \o s
             n == Len(s)
  <1>1. s \in Seq(Int) /\ x \in Int /\ n \in Nat
    BY WindowIs, SamplesAre
  <1>2. t \in Seq(Samples) /\ Len(t) = n + 1
    BY PushedIs
  <1>3. Sum(t) = Sum(s) + x /\ Squares(t) = Squares(s) + x * x
    BY <1>1, SumPush, SquaresPush
  <1>4. t \in Seq(Int)
    BY <1>2, WindowIs
  <1> HIDE DEF t, n
  <1>5. /\ Sum(s) \in Int /\ Squares(s) \in Int /\ 0 <= Squares(s)
        /\ -Squares(t) <= Sum(t) /\ Sum(t) <= Squares(t)
    BY <1>1, <1>4, SumBounds
  <1>6. Multiple(Sum(s) + x, n + 1)
    <2>1. Multiple(Sum(t), Unit)
      BY <1>2, SumIsMultiple
    <2>2. n + 1 \in 1 .. WindowSize
      BY <1>1, SamplesAre DEF n
    <2>3. Multiple(Unit, n + 1) /\ Unit \in Int /\ n + 1 \in Int
      BY <2>2, SamplesAre
    <2> QED BY <1>3, <2>1, <2>3, MultiplesChain
  <1>7. LossyIs(l, Sum(s), Squares(s), n) /\ WelfordIs(w, Sum(s), Squares(s), n)
    BY DEF n
  <1>8. /\ LossyIs(LossyAdd(l, x), Sum(s) + x, Squares(s) + x * x, n + 1)
        /\ ~l.overflowed => (LossyAdd(l, x).overflowed <=> Squares(s) + x * x > IMax)
    BY <1>1, <1>3, <1>5, <1>7, LossyAddIs
  <1>9. WelfordIs(WelfordAdd(w, x), Sum(s) + x, Squares(s) + x * x, n + 1)
    BY <1>1, <1>5, <1>6, <1>7, WelfordAddIs
  <1> QED BY <1>2, <1>3, <1>8, <1>9 DEF t, n

\* A window without one of its samples.
LEMMA RemoveIs ==
    ASSUME StatisticsAssumption, NEW s \in Seq(Samples), Len(s) <= WindowSize,
           NEW i \in 1 .. Len(s), NEW l, NEW w,
           LossyIs(l, Sum(s), Squares(s), Len(s)), WelfordIs(w, Sum(s), Squares(s), Len(s))
    PROVE  LET t == RemoveAt(s, i)
           IN  /\ t \in Seq(Samples) /\ Len(t) = Len(s) - 1
               /\ LossyIs(LossyRemove(l, s[i]), Sum(t), Squares(t), Len(t))
               /\ WelfordIs(WelfordRemove(w, s[i]), Sum(t), Squares(t), Len(t))
               /\ ~l.overflowed => ~LossyRemove(l, s[i]).overflowed
  <1> DEFINE t == RemoveAt(s, i)
             n == Len(s)
             x == s[i]
  <1>1. s \in Seq(Int) /\ x \in Int /\ n \in Nat /\ n >= 1
    BY WindowIs, SamplesAre
  <1>2. t \in Seq(Samples) /\ Len(t) = n - 1
    BY RemovedIs
  <1>3. Sum(t) = Sum(s) - x /\ Squares(t) = Squares(s) - x * x
    BY <1>1, SumRemoved, SquaresRemoved
  <1>4. t \in Seq(Int)
    BY <1>2, WindowIs
  <1>5. n <= WindowSize
    OBVIOUS
  <1> HIDE DEF t, n, x
  <1>6. /\ Sum(s) \in Int /\ Squares(s) \in Int /\ 0 <= Squares(t)
        /\ -Squares(t) <= Sum(t) /\ Sum(t) <= Squares(t)
    BY <1>1, <1>4, SumBounds
  <1>7. n = 1 => Sum(s) = x /\ Squares(s) = x * x
    <2> SUFFICES ASSUME n = 1 PROVE Sum(s) = x /\ Squares(s) = x * x
      OBVIOUS
    <2>1. t = <<>>
      BY <1>2, EmptySeq
    <2>2. Sum(t) = 0 /\ Squares(t) = 0
      BY <2>1, SumEmpty, SquaresEmpty
    <2>3. x * x \in Int
      BY <1>1, SquareIs
    <2> DEFINE xx == x * x
    <2> HIDE DEF xx
    <2>4. Sum(s) = x /\ Squares(s) = xx
      BY <1>1, <1>3, <1>6, <2>2, <2>3 DEF xx
    <2> QED BY <2>4 DEF xx
  <1>8. n # 1 => Multiple(Sum(s) - x, n - 1)
    <2> SUFFICES ASSUME n # 1 PROVE Multiple(Sum(s) - x, n - 1)
      OBVIOUS
    <2>1. Multiple(Sum(t), Unit)
      BY <1>2, SumIsMultiple
    <2>2. n - 1 \in 1 .. WindowSize
      BY <1>1, <1>5, SamplesAre
    <2>3. Multiple(Unit, n - 1) /\ Unit \in Int /\ n - 1 \in Int
      BY <2>2, SamplesAre
    <2> QED BY <1>3, <2>1, <2>3, MultiplesChain
  <1>9. LossyIs(l, Sum(s), Squares(s), n) /\ WelfordIs(w, Sum(s), Squares(s), n)
    BY DEF n
  <1>10. /\ LossyIs(LossyRemove(l, x), Sum(s) - x, Squares(s) - x * x, n - 1)
         /\ ~l.overflowed => ~LossyRemove(l, x).overflowed
    BY <1>1, <1>3, <1>6, <1>7, <1>9, LossyRemoveIs
  <1>11. WelfordIs(WelfordRemove(w, x), Sum(s) - x, Squares(s) - x * x, n - 1)
    BY <1>1, <1>6, <1>7, <1>8, <1>9, WelfordRemoveIs
  <1> QED BY <1>2, <1>3, <1>10, <1>11 DEF t, n, x

\* Taking the oldest sample away is one way of removing a sample.
LEMMA WithoutOldest == ASSUME NEW s PROVE Len(s) \in Nat => Buffer!Front(s) = RemoveAt(s, Len(s))
  <1> SUFFICES ASSUME Len(s) \in Nat PROVE Buffer!Front(s) = RemoveAt(s, Len(s))
    OBVIOUS
  <1> DEFINE n == Len(s)
             a == SubSeq(s, 1, n - 1)
  <1>1. SubSeq(s, n + 1, n) = <<>>
    OBVIOUS
  <1>2. a \o <<>> = a
    OBVIOUS
  <1> QED BY <1>1, <1>2 DEF Buffer!Front, RemoveAt

LEMMA StatInitHolds == ASSUME StatisticsAssumption, StatInit PROVE StatInv
  <1>1. window = <<>> /\ evicted = NoSample /\ lossy = EmptyLossy /\ welford = EmptyWelford
    BY DEF StatInit, Buffer!Init
  <1>2. <<>> \in Seq(Samples) /\ Len(<<>>) = 0 /\ Len(<<>>) <= WindowSize
    BY SamplesAre
  <1>3. Sum(<<>>) = 0 /\ Squares(<<>>) = 0
    BY SumEmpty, SquaresEmpty
  <1> QED BY <1>1, <1>2, <1>3, EmptyLossyIs, EmptyWelfordIs DEF StatInv

LEMMA PushHolds ==
    ASSUME StatisticsAssumption, StatInv, NEW x \in Samples, Push(x)
    PROVE  StatInv' /\ FlagOnlyIfNeeded
  <1> DEFINE n == Len(window)
  <1>1. /\ window \in Seq(Samples) /\ n \in Nat /\ n <= WindowSize /\ WindowSize \in Nat
        /\ WindowSize >= 3
        /\ LossyIs(lossy, Sum(window), Squares(window), n)
        /\ WelfordIs(welford, Sum(window), Squares(window), n)
    BY WindowIs, SamplesAre DEF StatInv
  <1>2. CASE n # WindowSize
    <2>1. evicted' = NoSample /\ window' = <<x>> \o window
      BY <1>2 DEF Push, Buffer!PushHead, Buffer!Full
    <2>2. lossy' = LossyAdd(lossy, x) /\ welford' = WelfordAdd(welford, x)
      BY <2>1 DEF Push
    <2>3. n + 1 <= WindowSize
      BY <1>1, <1>2
    <2> DEFINE t == <<x>> \o window
    <2>4. /\ t \in Seq(Samples) /\ Len(t) = n + 1
          /\ LossyIs(LossyAdd(lossy, x), Sum(t), Squares(t), Len(t))
          /\ WelfordIs(WelfordAdd(welford, x), Sum(t), Squares(t), Len(t))
          /\ ~lossy.overflowed => (LossyAdd(lossy, x).overflowed <=> Squares(t) > IMax)
      BY <1>1, <2>3, AddIs
    <2> HIDE DEF t
    <2>5. window' = t
      BY <2>1 DEF t
    <2> QED BY <2>1, <2>2, <2>3, <2>4, <2>5 DEF StatInv, FlagOnlyIfNeeded
  <1>3. CASE n = WindowSize
    <2>1. n \in 1 .. n /\ window[n] \in Samples /\ NoSample \notin Samples
      BY <1>1, <1>3, WindowIs DEF StatisticsAssumption
    <2> DEFINE r == RemoveAt(window, n)
               t == <<x>> \o r
               old == window[n]
    <2>2. evicted' = old /\ window' = t
      BY <1>1, <1>3, WithoutOldest DEF Push, Buffer!PushHead, Buffer!Full
    <2>3. /\ lossy' = LossyAdd(LossyRemove(lossy, old), x)
          /\ welford' = WelfordAdd(WelfordRemove(welford, old), x)
      BY <2>1, <2>2 DEF Push
    <2>4. /\ r \in Seq(Samples) /\ Len(r) = n - 1
          /\ LossyIs(LossyRemove(lossy, old), Sum(r), Squares(r), Len(r))
          /\ WelfordIs(WelfordRemove(welford, old), Sum(r), Squares(r), Len(r))
          /\ ~lossy.overflowed => ~LossyRemove(lossy, old).overflowed
      BY <1>1, <2>1, RemoveIs
    <2> HIDE DEF r
    <2>5. Len(r) + 1 <= WindowSize /\ Len(r) + 1 = n
      BY <1>1, <1>3, <2>4
    <2> DEFINE l == LossyRemove(lossy, old)
               w == WelfordRemove(welford, old)
    <2>6. /\ LossyIs(l, Sum(r), Squares(r), Len(r)) /\ WelfordIs(w, Sum(r), Squares(r), Len(r))
          /\ ~lossy.overflowed => ~l.overflowed
      BY <2>4
    <2> HIDE DEF l, w
    <2>7. /\ t \in Seq(Samples) /\ Len(t) = Len(r) + 1
          /\ LossyIs(LossyAdd(l, x), Sum(t), Squares(t), Len(t))
          /\ WelfordIs(WelfordAdd(w, x), Sum(t), Squares(t), Len(t))
          /\ ~l.overflowed => (LossyAdd(l, x).overflowed <=> Squares(t) > IMax)
      BY <2>4, <2>5, <2>6, AddIs
    <2> HIDE DEF t
    <2>8. lossy' = LossyAdd(l, x) /\ welford' = WelfordAdd(w, x)
      BY <2>3 DEF l, w
    <2> QED BY <2>1, <2>2, <2>5, <2>6, <2>7, <2>8 DEF StatInv, FlagOnlyIfNeeded
  <1> QED BY <1>2, <1>3

LEMMA RebuildHolds ==
    ASSUME StatisticsAssumption, StatInv, Rebuild
    PROVE  StatInv' /\ FlagOnlyIfNeeded /\ (lossy'.overflowed <=> Squares(window) > IMax)
  <1>1. /\ LossyIs(Fed(window).lossy, Sum(window), Squares(window), Len(window))
        /\ Fed(window).lossy.overflowed <=> Squares(window) > IMax
        /\ WelfordIs(Fed(window).welford, Sum(window), Squares(window), Len(window))
    BY FedIs DEF StatInv
  <1>2. /\ window' = window /\ evicted' = evicted
        /\ lossy' = Fed(window).lossy /\ welford' = Fed(window).welford
    BY DEF Rebuild
  <1> QED BY <1>1, <1>2 DEF StatInv, FlagOnlyIfNeeded

LEMMA AddSampleHolds ==
    ASSUME StatisticsAssumption, StatInv, NEW x \in Samples, AddSample(x)
    PROVE  StatInv' /\ FlagOnlyIfNeeded
  <1> DEFINE n == Len(window)
  <1>1. /\ window \in Seq(Samples) /\ n \in Nat /\ n < WindowSize /\ WindowSize \in Nat
        /\ LossyIs(lossy, Sum(window), Squares(window), n)
        /\ WelfordIs(welford, Sum(window), Squares(window), n)
    BY WindowIs, SamplesAre DEF StatInv, AddSample
  <1>2. evicted' = NoSample /\ window' = <<x>> \o window
    BY <1>1 DEF AddSample, Buffer!PushHead, Buffer!Full
  <1>3. lossy' = LossyAdd(lossy, x) /\ welford' = WelfordAdd(welford, x)
    BY DEF AddSample
  <1>4. n + 1 <= WindowSize
    BY <1>1
  <1> DEFINE t == <<x>> \o window
  <1>5. /\ t \in Seq(Samples) /\ Len(t) = n + 1
        /\ LossyIs(LossyAdd(lossy, x), Sum(t), Squares(t), Len(t))
        /\ WelfordIs(WelfordAdd(welford, x), Sum(t), Squares(t), Len(t))
        /\ ~lossy.overflowed => (LossyAdd(lossy, x).overflowed <=> Squares(t) > IMax)
    BY <1>1, <1>4, AddIs
  <1> HIDE DEF t
  <1>6. window' = t
    BY <1>2 DEF t
  <1> QED BY <1>2, <1>3, <1>4, <1>5, <1>6 DEF StatInv, FlagOnlyIfNeeded

LEMMA RemoveSampleHolds ==
    ASSUME StatisticsAssumption, StatInv, NEW i \in DOMAIN window, RemoveSample(i)
    PROVE  StatInv' /\ FlagOnlyIfNeeded
  <1> DEFINE n == Len(window)
             t == RemoveAt(window, i)
             x == window[i]
  <1>1. /\ window \in Seq(Samples) /\ n \in Nat /\ n <= WindowSize /\ WindowSize \in Nat
        /\ LossyIs(lossy, Sum(window), Squares(window), n)
        /\ WelfordIs(welford, Sum(window), Squares(window), n)
    BY WindowIs, SamplesAre DEF StatInv
  <1>2. i \in 1 .. n
    BY <1>1, LenProperties
  <1>3. /\ t \in Seq(Samples) /\ Len(t) = n - 1
        /\ LossyIs(LossyRemove(lossy, x), Sum(t), Squares(t), Len(t))
        /\ WelfordIs(WelfordRemove(welford, x), Sum(t), Squares(t), Len(t))
        /\ ~lossy.overflowed => ~LossyRemove(lossy, x).overflowed
    BY <1>1, <1>2, RemoveIs
  <1>4. /\ window' = t /\ evicted' = evicted
        /\ lossy' = LossyRemove(lossy, x) /\ welford' = WelfordRemove(welford, x)
    BY DEF RemoveSample
  <1> HIDE DEF t, x, n
  <1>5. Len(t) <= WindowSize
    BY <1>1, <1>3
  <1> QED BY <1>3, <1>4, <1>5 DEF StatInv, FlagOnlyIfNeeded

\* What the invariant says of the window.
LEMMA InvHolds == ASSUME StatisticsAssumption, StatInv PROVE StatTypeOK /\ StatisticsInv
  <1> DEFINE n == Len(window)
             S == Sum(window)
             Q == Squares(window)
  <1>1. /\ window \in Seq(Samples) /\ n \in Nat /\ n <= WindowSize /\ WindowSize \in Nat
        /\ evicted \in Samples \cup {NoSample}
        /\ LossyIs(lossy, S, Q, n)
        /\ WelfordIs(welford, S, Q, n)
        /\ window \in Seq(Int) /\ S \in Int /\ Q \in Int
    BY WindowIs, SamplesAre, SumInt, SquaresInt DEF StatInv
  <1> HIDE DEF S, Q
  <1>2. /\ lossy.sum \in IMin .. IMax /\ lossy.squares \in IMin .. IMax /\ lossy.fill = n
        /\ lossy.overflowed \in BOOLEAN /\ welford.count = n /\ n \in 0 .. WindowSize
    BY <1>1 DEF LossyIs, WelfordIs
  <1>3. StatTypeOK
    BY <1>1, <1>2 DEF StatTypeOK
  <1>4. SumsExact
    BY <1>1, <1>2 DEF SumsExact, LossyIs, S, Q
  <1>5. EmptyIsClean
    <2>1. window = <<>> => n = 0
      OBVIOUS
    <2> QED BY <1>1, <2>1 DEF EmptyIsClean, LossyIs, WelfordIs
  <1>6. WelfordExact
    BY <1>1, <1>2 DEF WelfordExact, WelfordIs, S, Q
  <1>7. ConstantIsOkay
    <2> SUFFICES ASSUME ~lossy.overflowed, ~Clamped(lossy.fill * lossy.squares),
                        \A i, j \in DOMAIN window : window[i] = window[j],
                        \A i \in DOMAIN window : window[i] \in -Exact .. Exact
                 PROVE  Status(lossy) = "Okay"
      BY DEF ConstantIsOkay
    <2>1. CASE n = 0
      BY <1>2, <2>1 DEF Status
    <2>2. CASE n # 0
      <3> DEFINE x == window[1]
                 xx == x * x
      <3>1. DOMAIN window = 1 .. n /\ 1 \in 1 .. n
        BY <1>1, <2>2, LenProperties
      <3>2. x \in Int /\ xx \in Int /\ \A i \in 1 .. n : window[i] = x
        BY <1>1, <3>1, ElementOfSeq, SquareIs
      <3>3. S = n * x
        BY <1>1, <3>2, SumConstant DEF S
      <3>4. Q = n * xx
        <4>1. /\ Squared(window) \in Seq(Int) /\ Len(Squared(window)) = n
              /\ \A i \in 1 .. n : Squared(window)[i] = window[i] * window[i]
          BY <1>1, SquaredIs
        <4>2. \A i \in 1 .. n : Squared(window)[i] = xx
          BY <3>2, <4>1
        <4> QED BY <3>2, <4>1, <4>2, SumConstant DEF Squares, Q
      <3>5. lossy.sum = S /\ lossy.squares = Q
        BY <1>1 DEF LossyIs
      <3>p. x \in -Exact .. Exact
        BY <3>1
      <3> HIDE DEF x
      <3>6. n * Q = S * S
        <4>1. n * (n * (x * x)) = (n * x) * (n * x)
          BY <1>1, <3>2
        <4> QED BY <3>3, <3>4, <4>1
      <3>7. ~Clamped(n * Q) /\ ~Clamped(S * S)
        BY <1>2, <3>5, <3>6
      <3>8. lossy.fill = n /\ n \in Nat \ {0}
        BY <1>1, <1>2, <2>2
      <3>9. S \div n = x /\ Q \div n = xx
        BY <3>2, <3>3, <3>4, <3>8, Divides
      <3>10. F64(x) = x /\ F64(0) = 0
        BY <3>p DEF StatisticsAssumption
      <3>11. F64(xx) \in Int
        <4>1. xx \in IMin .. IMax
          <5>1. xx <= Q
            BY <1>1, <3>1, SquareFits DEF Q, x
          <5>2. 0 <= xx
            BY <3>2, SquareIs
          <5> QED BY <1>2, <3>2, <3>5, <5>1, <5>2 DEF StatisticsAssumption
        <4> HIDE DEF xx
        <4> QED BY <4>1 DEF StatisticsAssumption
      <3>12. F64(F64(Q \div n) - F64(F64(S \div n) * F64(S \div n))) = 0
        <4>1. F64(S \div n) = x /\ F64(Q \div n) = F64(xx)
          BY <3>9, <3>10
        <4>2. F64(xx) - F64(xx) = 0
          BY <3>11
        <4> QED BY <3>10, <4>1, <4>2
      <3>13. ~lossy.overflowed /\ lossy.fill > 0 /\ lossy.fill # 0
        BY <3>8
      <3> QED BY <3>5, <3>6, <3>7, <3>8, <3>12, <3>13 DEF Status
    <2> QED BY <2>1, <2>2
  <1> QED BY <1>3, <1>4, <1>5, <1>6, <1>7 DEF StatisticsInv

\* StatSpec: for every size of window, every set of samples and every width of the sums,
\* whatever is pushed, evicted and rebuilt, both accumulators are worth the window, a
\* rebuild heals an overflow, and the flag rises only for a window that does not fit.
THEOREM StatisticsHold == ASSUME StatisticsAssumption PROVE StatSpec => StatisticsFollow
  <1>1. StatInit => StatInv
    BY StatInitHolds
  <1>2. StatInv /\ [StatNext]_statVars => StatInv' /\ [ResetHeals /\ FlagOnlyIfNeeded]_statVars
    <2> SUFFICES ASSUME StatInv, [StatNext]_statVars
                 PROVE  StatInv' /\ [ResetHeals /\ FlagOnlyIfNeeded]_statVars
      OBVIOUS
    <2>1. ResetHeals
      BY RebuildHolds DEF ResetHeals
    <2>2. CASE \E x \in Samples : Push(x)
      BY <2>1, <2>2, PushHolds
    <2>3. CASE Rebuild
      BY <2>1, <2>3, RebuildHolds
    <2>4. CASE UNCHANGED statVars
      BY <2>4 DEF StatInv, statVars
    <2> QED BY <2>2, <2>3, <2>4 DEF StatNext
  <1>3. StatInv => StatTypeOK /\ StatisticsInv
    BY InvHolds
  <1> QED BY <1>1, <1>2, <1>3, PTL DEF StatSpec, StatisticsFollow

\* DirectSpec: the same of an accumulator that a caller feeds and empties by hand,
\* removing any of the samples.
THEOREM TrackedStatisticsHold ==
    ASSUME StatisticsAssumption PROVE DirectSpec => StatisticsFollow
  <1>1. StatInit => StatInv
    BY StatInitHolds
  <1>2. StatInv /\ [DirectNext]_statVars => StatInv' /\ [ResetHeals /\ FlagOnlyIfNeeded]_statVars
    <2> SUFFICES ASSUME StatInv, [DirectNext]_statVars
                 PROVE  StatInv' /\ [ResetHeals /\ FlagOnlyIfNeeded]_statVars
      OBVIOUS
    <2>1. ResetHeals
      BY RebuildHolds DEF ResetHeals
    <2>2. CASE \E x \in Samples : AddSample(x)
      BY <2>1, <2>2, AddSampleHolds
    <2>3. CASE \E i \in DOMAIN window : RemoveSample(i)
      BY <2>1, <2>3, RemoveSampleHolds
    <2>4. CASE UNCHANGED statVars
      BY <2>4 DEF StatInv, statVars
    <2> QED BY <2>2, <2>3, <2>4 DEF DirectNext
  <1>3. StatInv => StatTypeOK /\ StatisticsInv
    BY InvHolds
  <1> QED BY <1>1, <1>2, <1>3, PTL DEF DirectSpec, StatisticsFollow
==============================================================================
