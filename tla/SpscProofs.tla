----------------------------- MODULE SpscProofs ------------------------------
(* The SPSC channel, for every capacity, cursor width and set of values: its  *)
(* cursors are ordered, its slots belong to one side at a time, its end is    *)
(* final, and it implements the queue of BatchFifo.                           *)
EXTENDS Spsc, CursorProofs, SequenceTheorems

------------------------------------------------------------------------------
(* The order of the cursors.                                                  *)

IndInv == TypeOK /\ CursorInv

\* A fresh channel (Ring::new) satisfies the inductive invariant.
THEOREM InitIndInv == Init => IndInv
  <1> SUFFICES ASSUME Init PROVE IndInv
    OBVIOUS
  <1> USE Bounds, SpscAssumption DEF Init
  <1>1. TypeOK
    <2>1. buf \in [Slots -> Values \cup {Uninit}]
      OBVIOUS
    <2>2. 0 \in Cursor /\ 0 \in 0 .. N
      BY DEF Cursor
    <2> QED BY <2>1, <2>2 DEF TypeOK
  <1>2. CursorInv
    BY DEF CursorInv, CachesLag, CallsFit, InRing, FreeSeen, WSub
  <1> QED BY <1>1, <1>2 DEF IndInv

\* The distances the invariant speaks of are numbers.
LEMMA Distances ==
    ASSUME TypeOK
    PROVE  /\ WSub(tail, head) \in Cursor
           /\ WSub(tail, cached_head) \in Cursor
           /\ WSub(cached_tail, head) \in Cursor
  <1>1. tail \in Cursor /\ head \in Cursor /\ cached_head \in Cursor /\ cached_tail \in Cursor
    BY DEF TypeOK
  <1> QED BY <1>1, Bounds DEF WSub, Cursor

\* Every step of the SPSC code preserves it: one case per action, one step per
\* conjunct the action can disturb.
THEOREM NextIndInv == IndInv /\ [Next]_vars => IndInv'
  <1> SUFFICES ASSUME TypeOK, CursorInv, [Next]_vars
               PROVE  TypeOK' /\ CursorInv'
    BY DEF IndInv
  <1> USE Bounds
  <1>d. /\ WSub(tail, head) \in Nat /\ WSub(tail, cached_head) \in Nat
        /\ WSub(cached_tail, head) \in Nat
        /\ room \in Nat /\ pushed \in Nat /\ avail \in Nat /\ taken \in Nat
    BY Distances DEF Cursor, TypeOK
  \* Steps that move no cursor.
  <1>1. ASSUME NEW k \in {"push", "batch", "iter"}, StartPush(k)
        PROVE  TypeOK' /\ CursorInv'
    <2>1. item' \in Values \cup {Uninit}
      BY <1>1 DEF TypeOK, StartPush, consumer
    <2>2. /\ room' \in 0 .. N /\ pushed' \in 0 .. N
          /\ avail' \in 0 .. N /\ taken' \in 0 .. N
      BY <1>1, <1>d DEF TypeOK, CursorInv, CallsFit, StartPush, consumer
    <2>3. TypeOK'
      BY <1>1, <2>1, <2>2 DEF TypeOK, StartPush, consumer
    <2>4. CachesLag'
      BY <1>1 DEF CursorInv, CachesLag, InRing, StartPush, consumer
    <2>5. CallsFit'
      BY <1>1, <1>d DEF CursorInv, CallsFit, FreeSeen, StartPush, consumer
    <2> QED BY <2>3, <2>4, <2>5 DEF CursorInv
  <1>2. CASE CloseProducer
    <2>1. item' \in Values \cup {Uninit}
      BY <1>2 DEF TypeOK, CloseProducer, producer, consumer
    <2>2. /\ room' \in 0 .. N /\ pushed' \in 0 .. N
          /\ avail' \in 0 .. N /\ taken' \in 0 .. N
      BY <1>2, <1>d DEF TypeOK, CursorInv, CallsFit, CloseProducer, producer, consumer
    <2>3. TypeOK'
      BY <1>2, <2>1, <2>2 DEF TypeOK, CloseProducer, producer, consumer
    <2>4. CachesLag'
      BY <1>2 DEF CursorInv, CachesLag, InRing, CloseProducer, producer, consumer
    <2>5. CallsFit'
      BY <1>2, <1>d DEF CursorInv, CallsFit, FreeSeen, CloseProducer, producer, consumer
    <2> QED BY <2>3, <2>4, <2>5 DEF CursorInv
  <1>3. CASE CloseConsumer
    <2>1. item' \in Values \cup {Uninit}
      BY <1>3 DEF TypeOK, CloseConsumer, producer, consumer
    <2>2. /\ room' \in 0 .. N /\ pushed' \in 0 .. N
          /\ avail' \in 0 .. N /\ taken' \in 0 .. N
      BY <1>3, <1>d DEF TypeOK, CursorInv, CallsFit, CloseConsumer, producer, consumer
    <2>3. TypeOK'
      BY <1>3, <2>1, <2>2 DEF TypeOK, CloseConsumer, producer, consumer
    <2>4. CachesLag'
      BY <1>3 DEF CursorInv, CachesLag, InRing, CloseConsumer, producer, consumer
    <2>5. CallsFit'
      BY <1>3, <1>d DEF CursorInv, CallsFit, FreeSeen, CloseConsumer, producer, consumer
    <2> QED BY <2>3, <2>4, <2>5 DEF CursorInv
  <1>4. CASE DropProducer
    <2>1. item' \in Values \cup {Uninit}
      BY <1>4 DEF TypeOK, DropProducer, consumer
    <2>2. /\ room' \in 0 .. N /\ pushed' \in 0 .. N
          /\ avail' \in 0 .. N /\ taken' \in 0 .. N
      BY <1>4, <1>d DEF TypeOK, CursorInv, CallsFit, DropProducer, consumer
    <2>3. TypeOK'
      BY <1>4, <2>1, <2>2 DEF TypeOK, DropProducer, consumer
    <2>4. CachesLag'
      BY <1>4 DEF CursorInv, CachesLag, InRing, DropProducer, consumer
    <2>5. CallsFit'
      BY <1>4, <1>d DEF CursorInv, CallsFit, FreeSeen, DropProducer, consumer
    <2> QED BY <2>3, <2>4, <2>5 DEF CursorInv
  <1>5. CASE DropConsumer
    <2>1. item' \in Values \cup {Uninit}
      BY <1>5 DEF TypeOK, DropConsumer, producer
    <2>2. /\ room' \in 0 .. N /\ pushed' \in 0 .. N
          /\ avail' \in 0 .. N /\ taken' \in 0 .. N
      BY <1>5, <1>d DEF TypeOK, CursorInv, CallsFit, DropConsumer, producer
    <2>3. TypeOK'
      BY <1>5, <2>1, <2>2 DEF TypeOK, DropConsumer, producer
    <2>4. CachesLag'
      BY <1>5 DEF CursorInv, CachesLag, InRing, DropConsumer, producer
    <2>5. CallsFit'
      BY <1>5, <1>d DEF CursorInv, CallsFit, FreeSeen, DropConsumer, producer
    <2> QED BY <2>3, <2>4, <2>5 DEF CursorInv
  <1>6. CASE DropRing
    <2>1. item' \in Values \cup {Uninit}
      BY <1>6 DEF TypeOK, DropRing, producer
    <2>2. /\ room' \in 0 .. N /\ pushed' \in 0 .. N
          /\ avail' \in 0 .. N /\ taken' \in 0 .. N
      BY <1>6, <1>d DEF TypeOK, CursorInv, CallsFit, DropRing, producer
    <2>3. TypeOK'
      BY <1>6, <2>1, <2>2 DEF TypeOK, DropRing, producer
    <2>4. CachesLag'
      BY <1>6 DEF CursorInv, CachesLag, InRing, DropRing, producer
    <2>5. CallsFit'
      BY <1>6, <1>d DEF CursorInv, CallsFit, FreeSeen, DropRing, producer
    <2> QED BY <2>3, <2>4, <2>5 DEF CursorInv
  <1>7. CASE SeeClosed
    <2>1. item' \in Values \cup {Uninit}
      BY <1>7 DEF TypeOK, SeeClosed, producer
    <2>2. /\ room' \in 0 .. N /\ pushed' \in 0 .. N
          /\ avail' \in 0 .. N /\ taken' \in 0 .. N
      BY <1>7, <1>d DEF TypeOK, CursorInv, CallsFit, SeeClosed, producer
    <2>3. TypeOK'
      BY <1>7, <2>1, <2>2 DEF TypeOK, SeeClosed, producer
    <2>4. CachesLag'
      BY <1>7 DEF CursorInv, CachesLag, InRing, SeeClosed, producer
    <2>5. CallsFit'
      BY <1>7, <1>d DEF CursorInv, CallsFit, FreeSeen, SeeClosed, producer
    <2> QED BY <2>3, <2>4, <2>5 DEF CursorInv
  <1>8. CASE DropView
    <2>1. item' \in Values \cup {Uninit}
      BY <1>8 DEF TypeOK, DropView, PopReturns, producer
    <2>2. /\ room' \in 0 .. N /\ pushed' \in 0 .. N
          /\ avail' \in 0 .. N /\ taken' \in 0 .. N
      BY <1>8, <1>d DEF TypeOK, CursorInv, CallsFit, DropView, PopReturns, producer
    <2>3. TypeOK'
      BY <1>8, <2>1, <2>2 DEF TypeOK, DropView, PopReturns, producer
    <2>4. CachesLag'
      BY <1>8 DEF CursorInv, CachesLag, InRing, DropView, PopReturns, producer
    <2>5. CallsFit'
      BY <1>8, <1>d DEF CursorInv, CallsFit, FreeSeen, DropView, PopReturns, producer
    <2> QED BY <2>3, <2>4, <2>5 DEF CursorInv
  <1>9. CASE DrainNext
    <2>1. item' \in Values \cup {Uninit}
      BY <1>9 DEF TypeOK, DrainNext, PopReturns, producer
    <2>2. /\ room' \in 0 .. N /\ pushed' \in 0 .. N
          /\ avail' \in 0 .. N /\ taken' \in 0 .. N
      BY <1>9, <1>d DEF TypeOK, CursorInv, CallsFit, DrainNext, PopReturns, producer
    <2>3. TypeOK'
      BY <1>9, <2>1, <2>2 DEF TypeOK, DrainNext, PopReturns, producer
    <2>4. CachesLag'
      BY <1>9 DEF CursorInv, CachesLag, InRing, DrainNext, PopReturns, producer
    <2>5. CallsFit'
      BY <1>9, <1>d DEF CursorInv, CallsFit, FreeSeen, DrainNext, PopReturns, producer
    <2> QED BY <2>3, <2>4, <2>5 DEF CursorInv
  <1>10. ASSUME NEW v \in Values, WriteCell(v)
        PROVE  TypeOK' /\ CursorInv'
    <2>1. item' \in Values \cup {Uninit}
      BY <1>10 DEF TypeOK, WriteCell, consumer
    <2>2. /\ room' \in 0 .. N /\ pushed' \in 0 .. N
          /\ avail' \in 0 .. N /\ taken' \in 0 .. N
      BY <1>10, <1>d DEF TypeOK, CursorInv, CallsFit, WriteCell, consumer
    <2>3. TypeOK'
      BY ZenonT(30), <1>10, <2>1, <2>2 DEF TypeOK, WriteCell, consumer
    <2>4. CachesLag'
      BY <1>10 DEF CursorInv, CachesLag, InRing, WriteCell, consumer
    <2>5. CallsFit'
      BY <1>10, <1>d DEF CursorInv, CallsFit, FreeSeen, WriteCell, consumer
    <2> QED BY <2>3, <2>4, <2>5 DEF CursorInv
  <1>11. CASE ReadCell
    <2>1. item' \in Values \cup {Uninit}
      <3>1. WAdd(head, taken) \in Nat
        BY <1>d, <1>11 DEF TypeOK, Cursor, WAdd
      <3> QED BY <3>1, <1>11, SlotType DEF ReadCell, TypeOK
    <2>2. /\ room' \in 0 .. N /\ pushed' \in 0 .. N
          /\ avail' \in 0 .. N /\ taken' \in 0 .. N
      BY <1>11, <1>d DEF TypeOK, CursorInv, CallsFit, ReadCell, PopReturns, producer
    <2>3. TypeOK'
      BY <1>11, <2>1, <2>2 DEF TypeOK, ReadCell, PopReturns, producer
    <2>4. CachesLag'
      BY <1>11 DEF CursorInv, CachesLag, InRing, ReadCell, PopReturns, producer
    <2>5. CallsFit'
      BY <1>11, <1>d DEF CursorInv, CallsFit, FreeSeen, ReadCell, PopReturns, producer
    <2> QED BY <2>3, <2>4, <2>5 DEF CursorInv
  <1>12. CASE ReadChunk
    <2>1. item' \in Values \cup {Uninit}
      <3>1. WAdd(head, taken) \in Nat
        BY <1>d, <1>12 DEF TypeOK, Cursor, WAdd
      <3> QED BY <3>1, <1>12, SlotType DEF ReadChunk, TypeOK
    <2>2. /\ room' \in 0 .. N /\ pushed' \in 0 .. N
          /\ avail' \in 0 .. N /\ taken' \in 0 .. N
      BY <1>12, <1>d DEF TypeOK, CursorInv, CallsFit, ReadChunk, producer
    <2>3. TypeOK'
      BY <1>12, <2>1, <2>2 DEF TypeOK, ReadChunk, producer
    <2>4. CachesLag'
      BY <1>12 DEF CursorInv, CachesLag, InRing, ReadChunk, producer
    <2>5. CallsFit'
      BY <1>12, <1>d DEF CursorInv, CallsFit, FreeSeen, ReadChunk, producer
    <2> QED BY <2>3, <2>4, <2>5 DEF CursorInv
  <1>13. CASE UNCHANGED vars
    <2>1. item' \in Values \cup {Uninit}
      BY <1>13 DEF TypeOK, vars, producer, consumer
    <2>2. /\ room' \in 0 .. N /\ pushed' \in 0 .. N
          /\ avail' \in 0 .. N /\ taken' \in 0 .. N
      BY <1>13, <1>d DEF TypeOK, CursorInv, CallsFit, vars, producer, consumer
    <2>3. TypeOK'
      BY <1>13, <2>1, <2>2 DEF TypeOK, vars, producer, consumer
    <2>4. CachesLag'
      BY <1>13 DEF CursorInv, CachesLag, InRing, vars, producer, consumer
    <2>5. CallsFit'
      BY <1>13, <1>d DEF CursorInv, CallsFit, FreeSeen, vars, producer, consumer
    <2> QED BY <2>3, <2>4, <2>5 DEF CursorInv
  \* Steps that move a cursor, or a copy of one.
  <1>14. CASE FindRoom
    <2>1. cached_head' = cached_head \/ cached_head' = head
      BY <1>14 DEF FindRoom, HeadSeen
    <2>2. /\ WSub(tail, head) <= WSub(tail, cached_head')
          /\ WSub(tail, cached_head') \in Nat /\ WSub(tail, cached_head') <= N
      BY <2>1, <1>d DEF CursorInv, CachesLag, InRing
    <2>3. pushed = 0 /\ room = 0
      BY <1>14, <1>d DEF FindRoom, HeadSeen, CursorInv, CallsFit
    <2>4. FreeSeen(cached_head)' = FreeSeen(cached_head')
      BY <1>14 DEF FindRoom, HeadSeen, FreeSeen
    <2>5. FreeSeen(cached_head') \in 0 .. N
      BY <2>2 DEF FreeSeen
    <2>6. /\ room' \in 0 .. N /\ room' <= FreeSeen(cached_head')
          /\ pushed' = 0 /\ (ppc' # "write" => room' = 0)
      <3>1. CASE PushReturns
        BY <3>1, <2>5 DEF PushReturns
      <3>2. CASE /\ FreeSeen(cached_head') > 0 /\ ppc' = "write"
                 /\ room' \in CASE kind = "push"  -> {1}
                                [] kind = "batch" -> 1 .. FreeSeen(cached_head')
                                [] kind = "iter"  -> {FreeSeen(cached_head')}
                 /\ UNCHANGED pushed
        <4>1. kind \in {"push", "batch", "iter"}
          BY DEF TypeOK
        <4> QED BY <3>2, <4>1, <2>3, <2>5
      <3> QED BY <3>1, <3>2, <1>14 DEF FindRoom, HeadSeen
    <2>7. TypeOK'
      <3>1. cached_head' \in Cursor /\ pushed' \in 0 .. N
        BY <2>1, <2>6 DEF TypeOK
      <3> QED BY <3>1, <2>6, <1>14 DEF TypeOK, FindRoom, HeadSeen, PushReturns, consumer
    <2>8. CachesLag'
      BY <2>2, <1>14 DEF CursorInv, CachesLag, InRing, FindRoom, HeadSeen, consumer
    <2>9. CallsFit'
      <3>1. pushed' <= room'
        BY <2>6
      <3> QED BY <3>1, <2>4, <2>6, <1>14 DEF CursorInv, CallsFit, FindRoom, HeadSeen, consumer
    <2> QED BY <2>7, <2>8, <2>9 DEF CursorInv
  <1>15. CASE Publish
    <2>1. WSub(tail, cached_head) + pushed <= N
      BY <1>d DEF CursorInv, CachesLag, CallsFit, FreeSeen
    <2>2. /\ WSub(tail', cached_head) = WSub(tail, cached_head) + pushed
          /\ WSub(tail', head) = WSub(tail, head) + pushed
      <3>1. WSub(tail, cached_head) + pushed < W /\ WSub(tail, head) + pushed < W
        BY <2>1, <1>d DEF CursorInv, CachesLag, InRing
      <3>2. tail \in Cursor /\ head \in Cursor /\ cached_head \in Cursor
        BY DEF TypeOK
      <3> QED BY <3>1, <3>2, <1>d, <1>15, AdvanceBack DEF Publish
    <2>3. TypeOK'
      <3>1. tail' \in Cursor
        BY <1>15, <1>d, CursorArith, <2>1 DEF Publish, TypeOK
      <3>2. room' \in 0 .. N /\ pushed' \in 0 .. N
        BY <1>15 DEF Publish, PushReturns
      <3> QED BY <3>1, <3>2, <1>15 DEF Publish, PushReturns, TypeOK, consumer
    <2>4. CachesLag'
      <3>1. WSub(cached_tail, head) <= WSub(tail, head) + pushed
        BY <1>d DEF CursorInv, CachesLag, InRing
      <3> QED BY <2>1, <2>2, <3>1, <1>d, <1>15
              DEF CursorInv, CachesLag, InRing, Publish, consumer
    <2>5. CallsFit'
      <3>1. N - (WSub(tail, cached_head) + pushed) >= 0
        BY <2>1, <1>d
      <3> QED BY <2>2, <3>1, <1>d, <1>15
              DEF CursorInv, CallsFit, FreeSeen, Publish, PushReturns, consumer
    <2> QED BY <2>3, <2>4, <2>5 DEF CursorInv
  <1>16. ASSUME NEW o \in {"pop", "peek"}, CallPop(o)
         PROVE  TypeOK' /\ CursorInv'
    <2>1. cached_tail' = cached_tail \/ cached_tail' = tail
      BY <1>16 DEF CallPop, TailSeen
    <2>2. /\ WSub(cached_tail', head) \in Nat
          /\ WSub(cached_tail', head) <= WSub(tail, head)
      BY <2>1, <1>d DEF CursorInv, CachesLag, InRing
    <2>3. head # cached_tail' => WSub(cached_tail', head) > 0
      <3>1. cached_tail' \in Cursor /\ head \in Cursor
        BY <2>1 DEF TypeOK
      <3> QED BY <3>1, CursorGap
    <2>4. avail = 0 /\ taken = 0
      BY <1>16, <1>d DEF CallPop, TailSeen, CursorInv, CallsFit
    <2>5. TypeOK'
      <3>1. cached_tail' \in Cursor /\ avail' \in 0 .. N /\ taken' \in 0 .. N
        BY <2>1, <2>4, <1>16 DEF CallPop, TailSeen, PopReturns, TypeOK
      <3> QED BY <3>1, <1>16 DEF CallPop, TailSeen, PopReturns, TypeOK, producer
    <2>6. CachesLag'
      BY <2>2, <1>16 DEF CursorInv, CachesLag, InRing, CallPop, TailSeen, producer
    <2>7. CallsFit'
      BY <2>2, <2>3, <2>4, <1>16
      DEF CursorInv, CallsFit, FreeSeen, CallPop, TailSeen, PopReturns, producer
    <2> QED BY <2>5, <2>6, <2>7 DEF CursorInv
  <1>17. ASSUME NEW o \in {"drain", "batch", "chunk"}, CallBatch(o)
         PROVE  TypeOK' /\ CursorInv'
    <2>1. WSub(tail, head) <= N
      BY <1>d DEF CursorInv, CachesLag, InRing
    <2>2. head # tail => WSub(tail, head) > 0
      BY CursorGap DEF TypeOK
    <2>3. avail = 0 /\ taken = 0
      BY <1>17, <1>d DEF CallBatch, CursorInv, CallsFit
    <2>4. /\ taken' = 0 /\ avail' \in 0 .. N /\ avail' <= WSub(tail, head)
          /\ head # tail => avail' > 0
          /\ head = tail => avail' = 0
      <3>1. CASE head = tail
        BY <3>1, <1>17, <1>d DEF CallBatch, PopReturns
      <3>2. CASE head # tail
        BY <3>2, <1>17, <1>d, <2>1, <2>2, <2>3 DEF CallBatch
      <3> QED BY <3>1, <3>2
    <2>5. /\ cpc' \in {"idle", "read", "drain", "chunk"}
          /\ op' \in {"pop", "drain", "batch", "chunk"}
          /\ cpc' \in {"drain", "chunk"} => op' = cpc'
          /\ cpc' = "idle" => head = tail
          /\ cpc' = "read" => head # tail
          /\ cached_tail' = tail /\ foundNone' \in BOOLEAN
      BY <1>17 DEF CallBatch, PopReturns
    <2>6. TypeOK'
      <3>1. taken' \in 0 .. N
        BY <2>4
      <3> QED BY <3>1, <2>4, <2>5, <1>17 DEF CallBatch, TypeOK, producer
    <2>7. CachesLag'
      BY <2>5, <1>d, <1>17 DEF CursorInv, CachesLag, InRing, CallBatch, producer
    <2>8. CallsFit'
      <3>1. taken' <= avail'
        BY <2>4
      <3>2. cpc' # "advance"
        BY <2>5
      <3>3. UNCHANGED <<producer, tail, head>>
        BY <1>17 DEF CallBatch
      <3>4. pushed' <= room' /\ room' <= FreeSeen(cached_head)'
            /\ (ppc' # "write" => room' = 0)
        BY <3>3 DEF CursorInv, CallsFit, FreeSeen, producer
      <3>5. avail' <= WSub(cached_tail', head')
        BY <2>4, <2>5, <3>3
      <3>6. /\ cpc' \in {"idle", "gone", "freed"} => avail' = 0
            /\ cpc' = "read" => taken' < avail'
        BY <2>4, <2>5
      <3> QED BY <3>1, <3>2, <3>4, <3>5, <3>6, <2>4, <2>5 DEF CallsFit
    <2> QED BY <2>6, <2>7, <2>8 DEF CursorInv
  \* Giving `by` slots back, no more than the consumer saw published.
  <1>a. ASSUME NEW by \in Nat, by <= WSub(cached_tail, head), Advance(by),
               UNCHANGED <<tail, cached_tail, cached_head>>
        PROVE  /\ head' \in Cursor
               /\ buf' \in [Slots -> Values \cup {Uninit}]
               /\ WSub(cached_tail', head') = WSub(cached_tail, head) - by
               /\ WSub(cached_tail', head') \in Nat
               /\ CachesLag'
    <2>1. tail \in Cursor /\ head \in Cursor /\ cached_tail \in Cursor
      BY DEF TypeOK
    <2>2. by <= WSub(tail, head) /\ by \in 0 .. W
      BY <1>a, <1>d DEF CursorInv, CachesLag, InRing
    <2>3. /\ WSub(cached_tail, WAdd(head, by)) = WSub(cached_tail, head) - by
          /\ WSub(tail, WAdd(head, by)) = WSub(tail, head) - by
      BY <2>1, <2>2, <1>a, AdvanceFront
    <2>4. head' = WAdd(head, by) /\ buf' \in [Slots -> Values \cup {Uninit}]
      BY <1>a DEF Advance, TypeOK
    <2>5. head' \in Cursor
      BY <2>1, <2>2, <2>4, CursorArith
    <2>6. CachesLag'
      <3>1. /\ WSub(tail', head') = WSub(tail, head) - by
            /\ WSub(cached_tail', head') = WSub(cached_tail, head) - by
            /\ WSub(tail', cached_head') = WSub(tail, cached_head)
        BY <2>3, <2>4, <1>a
      <3> QED BY <3>1, <1>a, <1>d DEF CursorInv, CachesLag, InRing
    <2> QED BY <2>3, <2>4, <2>5, <2>6, <1>a, <1>d
  <1>18. CASE FinishRead
    <2>1. /\ taken \in Nat /\ taken <= WSub(cached_tail, head)
          /\ op = "drain" => taken = 1
      BY <1>18, <1>d DEF FinishRead, CursorInv, CallsFit
    <2>2. Advance(taken) /\ UNCHANGED <<tail, cached_tail, cached_head>>
      BY <1>18 DEF FinishRead, producer
    <2>3. /\ head' \in Cursor
          /\ buf' \in [Slots -> Values \cup {Uninit}]
          /\ WSub(cached_tail', head') = WSub(cached_tail, head) - taken
          /\ WSub(cached_tail', head') \in Nat
          /\ CachesLag'
      BY <1>a, <2>1, <2>2
    <2>4. /\ avail' \in 0 .. N /\ taken' = 0
          /\ avail' <= WSub(cached_tail', head')
          /\ \/ cpc' = "idle" /\ op' = "pop" /\ avail' = 0
             \/ cpc' = "drain" /\ op' = "drain"
          /\ foundNone' \in BOOLEAN
      <3>1. CASE op = "drain"
        <4>1. avail \in Nat /\ avail >= 1 /\ avail <= N
          BY <3>1, <2>1, <1>d DEF TypeOK, CursorInv, CallsFit
        <4>2. /\ avail' = avail - 1 /\ taken' = 0
              /\ cpc' = "drain" /\ op' = "drain"
          BY <3>1, <1>18 DEF FinishRead
        <4>3. avail <= WSub(cached_tail, head)
          BY DEF CursorInv, CallsFit
        <4>4. foundNone' \in BOOLEAN
          BY <3>1, <1>18, Zenon DEF FinishRead, TypeOK
        <4>5. avail' \in 0 .. N /\ avail' <= WSub(cached_tail', head')
          BY <3>1, <4>1, <4>2, <4>3, <2>1, <2>3, <1>d
        <4> QED BY <4>2, <4>4, <4>5
      <3>2. CASE op # "drain"
        <4>1. PopReturns(FALSE)
          BY <3>2, <1>18 DEF FinishRead
        <4>2. /\ cpc' = "idle" /\ op' = "pop" /\ foundNone' = FALSE
              /\ avail' = 0 /\ taken' = 0
          BY <4>1 DEF PopReturns
        <4>3. avail' \in 0 .. N /\ avail' <= WSub(cached_tail', head')
          BY <4>2, <2>3
        <4> QED BY <4>2, <4>3
      <3> QED BY <3>1, <3>2
    <2>5. TypeOK'
      <3>1. taken' \in 0 .. N
        BY <2>4
      <3> QED BY <3>1, <2>3, <2>4, <1>18 DEF FinishRead, TypeOK, producer
    <2>6. CallsFit'
      <3>1. pushed' <= room' /\ room' <= FreeSeen(cached_head)'
            /\ (ppc' # "write" => room' = 0)
        BY <1>18 DEF FinishRead, CursorInv, CallsFit, FreeSeen, producer
      <3>2. taken' <= avail'
        BY <2>4
      <3> QED BY <3>1, <3>2, <2>4 DEF CallsFit
    <2> QED BY <2>3, <2>5, <2>6 DEF CursorInv
  <1>19. ASSUME NEW n \in 0 .. N, Commit(n)
         PROVE  TypeOK' /\ CursorInv'
    <2>1. n \in Nat /\ n <= WSub(cached_tail, head)
      BY <1>19, <1>d DEF Commit, CursorInv, CallsFit
    <2>2. Advance(n) /\ UNCHANGED <<tail, cached_tail, cached_head>>
      BY <1>19 DEF Commit, producer
    <2>3. /\ head' \in Cursor
          /\ buf' \in [Slots -> Values \cup {Uninit}]
          /\ WSub(cached_tail', head') \in Nat
          /\ CachesLag'
      BY <1>a, <2>1, <2>2
    <2>4. cpc' = "idle" /\ op' = "pop" /\ avail' = 0 /\ taken' = 0 /\ foundNone' = FALSE
      BY <1>19 DEF Commit, PopReturns
    <2>5. TypeOK'
      <3>1. taken' \in 0 .. N /\ avail' \in 0 .. N
        BY <2>4
      <3> QED BY <3>1, <2>3, <2>4, <1>19 DEF Commit, TypeOK, producer
    <2>6. CallsFit'
      <3>1. pushed' <= room' /\ room' <= FreeSeen(cached_head)'
            /\ (ppc' # "write" => room' = 0)
        BY <1>19 DEF Commit, CursorInv, CallsFit, FreeSeen, producer
      <3>2. taken' <= avail' /\ avail' <= WSub(cached_tail', head')
        BY <2>3, <2>4
      <3> QED BY <3>1, <3>2, <2>4 DEF CallsFit
    <2> QED BY <2>3, <2>5, <2>6 DEF CursorInv
  <1> QED
    BY <1>1, <1>2, <1>3, <1>4, <1>5, <1>6, <1>7, <1>8, <1>9, <1>10, <1>11, <1>12, <1>13,
       <1>14, <1>15, <1>16, <1>17, <1>18, <1>19
    DEF Next, ProducerStep, ConsumerStep, ProgramStep

\* IndInv holds in every state.
THEOREM SpscIndInv == Spec => []IndInv
  BY InitIndInv, NextIndInv, PTL DEF Spec

\* Every variable keeps its type, at any capacity and cursor width.
THEOREM SpscTypeCorrect == Spec => []TypeOK
  BY SpscIndInv, PTL DEF IndInv

\* The cursors of push, push_batch, push_iter, pop, drain, pop_batch and
\* read_chunk stay in order: `tail` never laps `head` and no call goes past
\* the slots it was entitled to, whatever the interleaving and the wraps.
THEOREM SpscCursorsOrdered == Spec => []CursorInv
  BY SpscIndInv, PTL DEF IndInv

------------------------------------------------------------------------------
(* What the slots between the cursors hold.                                   *)

\* Slots the consumer owns, or that the run in progress has written.
Held == WSub(tail, head) + pushed

\* The i-th of them.
Cell(i) == buf[Slot(WAdd(head, i))]

\* They hold values and nothing else does.
Filled ==
    /\ cpc # "freed" =>
          /\ \A i \in 0 .. Held - 1 : Cell(i) \in Values
          /\ \A s \in Slots : buf[s] # Uninit =>
                \E i \in 0 .. Held - 1 : s = Slot(WAdd(head, i))
    /\ cpc = "freed" => ppc = "gone" /\ \A s \in Slots : buf[s] = Uninit

\* What the calls of the consumer have seen, and what is_closed() saw: with the
\* producer alone closing, no push is in progress then or later.
Seen ==
    /\ op = "peek" => taken = 0
    /\ op = "drain" => avail = WSub(cached_tail, head)
    /\ cpc \in {"idle", "gone", "freed"} => op = "pop"
    /\ foundNone => cpc = "idle"
    /\ sawClosed => closed
    /\ ~ConsumerCloses =>
          /\ closed /\ cpc \notin {"gone", "freed"} => ppc \in {"idle", "gone"}
          /\ sawClosed => ppc \in {"idle", "gone"}
          /\ sawClosed /\ op = "drain" => cached_tail = tail
          /\ sawClosed /\ foundNone => tail = head

FillInv == IndInv /\ Filled /\ Seen

\* The numbers of a state that satisfies the cursor invariant.
LEMMA Numbers ==
    ASSUME IndInv
    PROVE  /\ N \in Nat /\ N >= 2 /\ W \in Nat /\ W >= 2 * N
           /\ head \in Cursor /\ tail \in Cursor /\ cached_tail \in Cursor
           /\ pushed \in Nat /\ room \in Nat /\ avail \in Nat /\ taken \in Nat
           /\ WSub(tail, head) \in Nat /\ WSub(cached_tail, head) \in Nat
           /\ Held \in Nat /\ Held <= N
           /\ WSub(tail, head) <= N /\ pushed <= N
           /\ taken <= avail /\ avail <= WSub(cached_tail, head)
           /\ WSub(cached_tail, head) <= WSub(tail, head)
           /\ (ppc # "write" => room = 0 /\ pushed = 0)
           /\ (pushed < room => Held < N)
  <1>1. TypeOK /\ CachesLag /\ CallsFit
    BY DEF IndInv, CursorInv
  <1>2. /\ WSub(tail, head) \in Nat /\ WSub(tail, cached_head) \in Nat
        /\ WSub(cached_tail, head) \in Nat
    BY <1>1, Distances, Bounds DEF Cursor
  <1>3. /\ head \in Cursor /\ tail \in Cursor /\ cached_tail \in Cursor
        /\ pushed \in Nat /\ room \in Nat /\ avail \in Nat /\ taken \in Nat
    BY <1>1 DEF TypeOK
  <1> QED BY <1>1, <1>2, <1>3, Bounds DEF CachesLag, CallsFit, InRing, FreeSeen, Held

\* A fresh channel is empty.
LEMMA InitFill == Init => FillInv
  <1> SUFFICES ASSUME Init PROVE FillInv
    OBVIOUS
  <1>1. IndInv
    BY InitIndInv
  <1>2. Held = 0
    BY Bounds DEF Init, Held, WSub
  <1>3. Filled
    BY <1>2 DEF Init, Filled
  <1>4. Seen
    BY Bounds DEF Init, Seen, WSub
  <1> QED BY <1>1, <1>3, <1>4 DEF FillInv

\* A step that touches no slot and no cursor.
LEMMA QuietFill ==
    ASSUME Filled, UNCHANGED <<buf, head, tail, pushed>>,
           cpc' = "freed" <=> cpc = "freed", cpc = "freed" => ppc' = ppc
    PROVE  Filled'
  <1>1. Held' = Held /\ \A i : Cell(i)' = Cell(i)
    BY DEF Held, Cell
  <1> QED BY <1>1 DEF Filled, Cell

\* The release store: the front of the window goes, the rest stays where it is.
LEMMA AdvanceFill ==
    ASSUME IndInv, Filled, NEW by \in Nat, by <= WSub(tail, head), Advance(by),
           UNCHANGED <<tail, pushed>>, cpc # "freed", cpc' # "freed"
    PROVE  /\ Filled'
           /\ WSub(tail, head)' = WSub(tail, head) - by
           /\ \A i \in 0 .. Held - by - 1 : Cell(i)' = Cell(by + i)
  <1>n. /\ N \in Nat /\ W \in Nat /\ W >= 2 * N
        /\ head \in Cursor /\ tail \in Cursor /\ WSub(tail, head) \in Nat
        /\ Held \in Nat /\ Held <= N /\ pushed \in Nat /\ by <= Held /\ by \in 0 .. N
    BY Numbers, Bounds DEF Held
  <1>1. head' = WAdd(head, by) /\ head' \in Cursor
    BY <1>n, CursorArith, Bounds DEF Advance
  <1>2. WSub(tail, head)' = WSub(tail, head) - by
    BY <1>1, <1>n, AdvanceFront
  <1>3. Held' = Held - by
    BY <1>2, <1>n DEF Held
  <1>4. ASSUME NEW i \in 0 .. Held - by - 1
        PROVE  WAdd(head', i) = WAdd(head, by + i)
    BY <1>1, <1>n, AddTwice
  <1>5. \A s \in Slots : buf'[s] = IF \E j \in 0 .. by - 1 : s = Slot(WAdd(head, j))
                                  THEN Uninit ELSE buf[s]
    BY <1>n, WindowIs DEF Advance
  <1>6. ASSUME NEW i \in 0 .. Held - 1 PROVE Slot(WAdd(head, i)) \in Slots
    <2>1. i \in 0 .. W
      BY <1>n
    <2>2. WAdd(head, i) \in Nat
      <3>1. WAdd(head, i) \in Cursor
        BY <1>n, <2>1, CursorArith
      <3> QED BY <3>1, <1>n DEF Cursor
    <2> QED BY <2>2, SlotType
  <1>7. ASSUME NEW i \in 0 .. Held - by - 1 PROVE Cell(i)' = Cell(by + i)
    <2>1. by + i \in 0 .. Held - 1 /\ by + i \in 0 .. N - 1
      BY <1>n, <1>7
    <2>2. ASSUME NEW j \in 0 .. by - 1 PROVE Slot(WAdd(head, by + i)) # Slot(WAdd(head, j))
      <3>1. j \in 0 .. N - 1 /\ j # by + i
        BY <1>n, <1>7
      <3> QED BY <1>n, <2>1, <3>1, SlotsApart
    <2>3. buf'[Slot(WAdd(head, by + i))] = buf[Slot(WAdd(head, by + i))]
      BY <1>5, <1>6, <2>1, <2>2
    <2> QED BY <1>4, <1>7, <2>3 DEF Cell
  <1>8. \A i \in 0 .. Held' - 1 : Cell(i)' \in Values
    <2> SUFFICES ASSUME NEW i \in 0 .. Held' - 1 PROVE Cell(i)' \in Values
      OBVIOUS
    <2>1. i \in 0 .. Held - by - 1 /\ by + i \in 0 .. Held - 1
      BY <1>3, <1>n
    <2> QED BY <1>7, <2>1 DEF Filled
  <1>9. ASSUME NEW s \in Slots, buf'[s] # Uninit
        PROVE  \E i \in 0 .. Held' - 1 : s = Slot(WAdd(head', i))
    <2>1. buf[s] # Uninit /\ ~ \E j \in 0 .. by - 1 : s = Slot(WAdd(head, j))
      BY <1>5, <1>9
    <2>2. PICK i \in 0 .. Held - 1 : s = Slot(WAdd(head, i))
      BY <2>1 DEF Filled
    <2>3. i - by \in 0 .. Held - by - 1 /\ by + (i - by) = i
      BY <1>n, <2>1, <2>2
    <2> QED BY <1>3, <1>4, <2>2, <2>3
  <1> QED BY <1>2, <1>7, <1>8, <1>9 DEF Filled

\* Every step keeps what the slots hold and what the consumer has seen: one case per
\* action.
LEMMA NextFill == FillInv /\ [Next]_vars => FillInv'
  <1> SUFFICES ASSUME FillInv, [Next]_vars PROVE Filled' /\ Seen'
    BY NextIndInv DEF FillInv
  <1>i. IndInv /\ Filled /\ Seen
    BY DEF FillInv
  <1>n. /\ N \in Nat /\ N >= 2 /\ W \in Nat /\ W >= 2 * N
        /\ head \in Cursor /\ tail \in Cursor /\ cached_tail \in Cursor
        /\ pushed \in Nat /\ room \in Nat /\ avail \in Nat /\ taken \in Nat
        /\ WSub(tail, head) \in Nat /\ WSub(cached_tail, head) \in Nat
        /\ Held \in Nat /\ Held <= N
        /\ WSub(tail, head) <= N /\ pushed <= N
        /\ taken <= avail /\ avail <= WSub(cached_tail, head)
        /\ WSub(cached_tail, head) <= WSub(tail, head)
        /\ (ppc # "write" => room = 0 /\ pushed = 0)
        /\ (pushed < room => Held < N)
    BY <1>i, Numbers
  <1>c. CallsFit
    BY <1>i DEF IndInv, CursorInv
  <1>1. ASSUME NEW k \in {"push", "batch", "iter"}, StartPush(k) PROVE Filled' /\ Seen'
    <2>1. UNCHANGED <<buf, head, tail, pushed>> /\ (cpc' = "freed" <=> cpc = "freed")
          /\ (cpc = "freed" => ppc' = ppc)
      BY <1>1, <1>i, <1>n DEF StartPush, consumer, Filled
    <2>2. Seen'
      BY <1>1, <1>i, <1>n, <1>c DEF StartPush, consumer, Seen
    <2> QED BY <2>1, <2>2, <1>i, QuietFill
  <1>2. CASE FindRoom
    <2>1. UNCHANGED <<buf, head, tail, pushed>> /\ (cpc' = "freed" <=> cpc = "freed")
          /\ (cpc = "freed" => ppc' = ppc)
      BY <1>2, <1>i, <1>n DEF FindRoom, PushReturns, consumer, Filled
    <2>2. Seen'
      BY <1>2, <1>i, <1>n, <1>c DEF FindRoom, PushReturns, consumer, Seen
    <2> QED BY <2>1, <2>2, <1>i, QuietFill
  <1>3. CASE CloseProducer
    <2>1. UNCHANGED <<buf, head, tail, pushed>> /\ (cpc' = "freed" <=> cpc = "freed")
          /\ (cpc = "freed" => ppc' = ppc)
      BY <1>3, <1>i, <1>n DEF CloseProducer, producer, consumer, Filled
    <2>2. Seen'
      BY <1>3, <1>i, <1>n, <1>c DEF CloseProducer, producer, consumer, Seen
    <2> QED BY <2>1, <2>2, <1>i, QuietFill
  <1>4. CASE DropProducer
    <2>1. UNCHANGED <<buf, head, tail, pushed>> /\ (cpc' = "freed" <=> cpc = "freed")
          /\ (cpc = "freed" => ppc' = ppc)
      BY <1>4, <1>i, <1>n DEF DropProducer, consumer, Filled
    <2>2. Seen'
      BY <1>4, <1>i, <1>n, <1>c DEF DropProducer, consumer, Seen
    <2> QED BY <2>1, <2>2, <1>i, QuietFill
  <1>5. ASSUME NEW o \in {"pop", "peek"}, CallPop(o) PROVE Filled' /\ Seen'
    <2>1. UNCHANGED <<buf, head, tail, pushed>> /\ (cpc' = "freed" <=> cpc = "freed")
          /\ (cpc = "freed" => ppc' = ppc)
      BY <1>5, <1>i, <1>n DEF CallPop, PopReturns, producer, TailSeen, Filled
    <2>2. Seen'
      BY <1>5, <1>i, <1>n, <1>c DEF CallPop, PopReturns, producer, TailSeen, Seen, CallsFit
    <2> QED BY <2>1, <2>2, <1>i, QuietFill
  <1>6. ASSUME NEW o \in {"drain", "batch", "chunk"}, CallBatch(o) PROVE Filled' /\ Seen'
    <2>1. UNCHANGED <<buf, head, tail, pushed>> /\ (cpc' = "freed" <=> cpc = "freed")
          /\ (cpc = "freed" => ppc' = ppc)
      BY <1>6, <1>i, <1>n DEF CallBatch, PopReturns, producer, Filled
    <2>2. Seen'
      BY <1>6, <1>i, <1>n, <1>c DEF CallBatch, PopReturns, producer, Seen
    <2> QED BY <2>1, <2>2, <1>i, QuietFill
  <1>7. CASE DrainNext
    <2>1. UNCHANGED <<buf, head, tail, pushed>> /\ (cpc' = "freed" <=> cpc = "freed")
          /\ (cpc = "freed" => ppc' = ppc)
      BY <1>7, <1>i, <1>n DEF DrainNext, PopReturns, producer, Filled
    <2>2. op = "drain" /\ (avail = 0 => head = cached_tail)
      <3>1. WSub(cached_tail, head) = 0 => cached_tail = head
        BY <1>n, CursorGap
      <3> QED BY <1>7, <3>1, <1>i, <1>c DEF DrainNext, CallsFit, Seen
    <2>3. Seen'
      BY <1>7, <2>2, <1>i DEF DrainNext, PopReturns, producer, Seen
    <2> QED BY <2>1, <2>3, <1>i, QuietFill
  <1>8. CASE ReadCell
    <2>1. UNCHANGED <<buf, head, tail, pushed>> /\ (cpc' = "freed" <=> cpc = "freed")
          /\ (cpc = "freed" => ppc' = ppc)
      BY <1>8, <1>i, <1>n DEF ReadCell, PopReturns, producer, Filled
    <2>2. Seen'
      BY <1>8, <1>i, <1>n, <1>c DEF ReadCell, PopReturns, producer, Seen, CallsFit
    <2> QED BY <2>1, <2>2, <1>i, QuietFill
  <1>9. CASE ReadChunk
    <2>1. UNCHANGED <<buf, head, tail, pushed>> /\ (cpc' = "freed" <=> cpc = "freed")
          /\ (cpc = "freed" => ppc' = ppc)
      BY <1>9, <1>i, <1>n DEF ReadChunk, producer, Filled
    <2>2. Seen'
      BY <1>9, <1>i, <1>n, <1>c DEF ReadChunk, producer, Seen, CallsFit
    <2> QED BY <2>1, <2>2, <1>i, QuietFill
  <1>10. CASE DropView
    <2>1. UNCHANGED <<buf, head, tail, pushed>> /\ (cpc' = "freed" <=> cpc = "freed")
          /\ (cpc = "freed" => ppc' = ppc)
      BY <1>10, <1>i, <1>n DEF DropView, PopReturns, producer, Filled
    <2>2. Seen'
      BY <1>10, <1>i, <1>n, <1>c DEF DropView, PopReturns, producer, Seen
    <2> QED BY <2>1, <2>2, <1>i, QuietFill
  <1>11. CASE SeeClosed
    <2>1. UNCHANGED <<buf, head, tail, pushed>> /\ (cpc' = "freed" <=> cpc = "freed")
          /\ (cpc = "freed" => ppc' = ppc)
      BY <1>11, <1>i, <1>n DEF SeeClosed, producer, Filled
    <2>2. Seen'
      BY <1>11, <1>i, <1>n, <1>c DEF SeeClosed, producer, Seen
    <2> QED BY <2>1, <2>2, <1>i, QuietFill
  <1>12. CASE CloseConsumer
    <2>1. UNCHANGED <<buf, head, tail, pushed>> /\ (cpc' = "freed" <=> cpc = "freed")
          /\ (cpc = "freed" => ppc' = ppc)
      BY <1>12, <1>i, <1>n DEF CloseConsumer, producer, consumer, Filled
    <2>2. Seen'
      BY <1>12, <1>i, <1>n, <1>c DEF CloseConsumer, producer, consumer, Seen
    <2> QED BY <2>1, <2>2, <1>i, QuietFill
  <1>13. CASE DropConsumer
    <2>1. UNCHANGED <<buf, head, tail, pushed>> /\ (cpc' = "freed" <=> cpc = "freed")
          /\ (cpc = "freed" => ppc' = ppc)
      BY <1>13, <1>i, <1>n DEF DropConsumer, producer, Filled
    <2>2. Seen'
      BY <1>13, <1>i, <1>n, <1>c DEF DropConsumer, producer, Seen
    <2> QED BY <2>1, <2>2, <1>i, QuietFill
  <1>14. ASSUME NEW v \in Values, WriteCell(v) PROVE Filled' /\ Seen'
    <2>1. /\ pushed < room /\ cpc # "freed"
          /\ buf' = [buf EXCEPT ![Slot(WAdd(head, Held))] = v] /\ pushed' = pushed + 1
          /\ UNCHANGED <<head, tail>> /\ cpc' = cpc
      <3>1. WAdd(tail, pushed) = WAdd(head, Held)
        BY <1>n, FromFront DEF Held
      <3> QED BY <1>14, <1>i, <3>1 DEF WriteCell, consumer, Filled
    <2>2. Held' = Held + 1 /\ Held < N
      BY <2>1, <1>n DEF Held
    <2>3. buf \in [Slots -> Values \cup {Uninit}]
      BY <1>i DEF IndInv, TypeOK
    <2>4. ASSUME NEW i \in 0 .. Held PROVE Slot(WAdd(head, i)) \in Slots
      <3>1. i \in 0 .. W
        BY <1>n, <2>2
      <3>2. WAdd(head, i) \in Cursor
        BY <1>n, <3>1, CursorArith
      <3> QED BY <3>2, <1>n, SlotType DEF Cursor
    <2>5. ASSUME NEW i \in 0 .. Held
          PROVE  Cell(i)' = IF i = Held THEN v ELSE Cell(i)
      <3>1. i # Held => Slot(WAdd(head, i)) # Slot(WAdd(head, Held))
        <4>1. i \in 0 .. N - 1 /\ Held \in 0 .. N - 1
          BY <1>n, <2>2
        <4> QED BY <4>1, <1>n, SlotsApart
      <3> QED BY <2>1, <2>3, <2>4, <3>1, <1>n DEF Cell
    <2>6. \A i \in 0 .. Held' - 1 : Cell(i)' \in Values
      <3> SUFFICES ASSUME NEW i \in 0 .. Held' - 1 PROVE Cell(i)' \in Values
        OBVIOUS
      <3>1. i \in 0 .. Held /\ (i # Held => i \in 0 .. Held - 1)
        BY <2>2, <1>n
      <3> QED BY <3>1, <2>1, <2>5, <1>i DEF Filled
    <2>7. ASSUME NEW s \in Slots, buf'[s] # Uninit
          PROVE  \E i \in 0 .. Held' - 1 : s = Slot(WAdd(head', i))
      <3>1. CASE s = Slot(WAdd(head, Held))
        <4>1. Held \in 0 .. Held' - 1
          BY <2>2, <1>n
        <4> QED BY <3>1, <4>1, <2>1
      <3>2. CASE s # Slot(WAdd(head, Held))
        <4>1. buf[s] # Uninit
          BY <2>1, <2>3, <2>7, <3>2
        <4>2. PICK i \in 0 .. Held - 1 : s = Slot(WAdd(head, i))
          BY <4>1, <2>1, <1>i DEF Filled
        <4>3. i \in 0 .. Held' - 1
          BY <2>2, <1>n
        <4> QED BY <4>2, <4>3, <2>1
      <3> QED BY <3>1, <3>2
    <2>8. Filled'
      BY <2>1, <2>6, <2>7 DEF Filled
    <2>9. Seen'
      BY <1>14, <1>i DEF WriteCell, consumer, Seen
    <2> QED BY <2>8, <2>9
  <1>15. CASE Publish
    <2>1. /\ cpc # "freed" /\ cpc' = cpc /\ buf' = buf /\ head' = head
          /\ tail' = WAdd(tail, pushed) /\ pushed' = 0
      BY <1>15, <1>i DEF Publish, PushReturns, consumer, Filled
    <2>2. Held' = Held
      <3>1. WSub(tail, head) + pushed < W
        BY <1>n DEF Held
      <3>2. WSub(tail', head') = WSub(tail, head) + pushed
        BY <2>1, <3>1, <1>n, AdvanceBack
      <3> QED BY <2>1, <3>2, <1>n DEF Held
    <2>3. Filled'
      BY <2>1, <2>2, <1>i DEF Filled, Cell
    <2>4. Seen'
      BY <1>15, <1>i DEF Publish, PushReturns, consumer, Seen
    <2> QED BY <2>3, <2>4
  <1>16. CASE FinishRead
    <2>1. /\ cpc = "advance" /\ Advance(taken) /\ UNCHANGED <<tail, pushed>> /\ cpc' # "freed"
      BY <1>16 DEF FinishRead, PopReturns, producer
    <2>2. Filled' /\ WSub(tail, head)' = WSub(tail, head) - taken
      BY <2>1, <1>i, <1>n, AdvanceFill
    <2>3. WSub(cached_tail, head)' = WSub(cached_tail, head) - taken
      BY <1>16, <1>n, AdvanceFront DEF FinishRead, Advance
    <2>4. Seen'
      <3>1. op = "drain" => op' = "drain" /\ avail' = avail - 1 /\ taken = 1 /\ taken' = 0
        BY <1>16, <1>c, <1>n DEF FinishRead, CallsFit
      <3>2. op # "drain" => cpc' = "idle" /\ op' = "pop" /\ taken' = 0
        BY <1>16 DEF FinishRead, PopReturns
      <3>3. ~foundNone'
        BY <1>16, <1>i DEF FinishRead, PopReturns, Seen
      <3>4. /\ UNCHANGED <<sawClosed, closed, ppc, cached_tail, tail>>
            /\ cpc' \in {"idle", "drain"} /\ (cpc' = "idle" => op # "drain")
        BY <1>16 DEF FinishRead, PopReturns, producer
      <3> QED BY <2>1, <2>3, <3>1, <3>2, <3>3, <3>4, <1>i, <1>n DEF Seen
    <2> QED BY <2>2, <2>4
  <1>17. ASSUME NEW n \in 0 .. N, Commit(n) PROVE Filled' /\ Seen'
    <2>1. /\ cpc = "chunk" /\ Advance(n) /\ UNCHANGED <<tail, pushed>> /\ cpc' = "idle"
          /\ n <= WSub(tail, head) /\ n \in Nat
      BY <1>17, <1>n DEF Commit, PopReturns, producer
    <2>2. Filled'
      BY <2>1, <1>i, AdvanceFill
    <2>3. Seen'
      BY <1>17, <1>i DEF Commit, PopReturns, producer, Seen
    <2> QED BY <2>2, <2>3
  <1>18. CASE DropRing
    <2>1. Held = WSub(tail, head)
      BY <1>18, <1>n DEF DropRing, Held
    <2>2. tail = WAdd(head, Held)
      BY <2>1, <1>n DEF WAdd, WSub, Cursor
    <2>3. Window(head, tail) = {WAdd(head, i) : i \in 0 .. Held - 1}
      <3>1. Held \in 0 .. N
        BY <1>n
      <3> QED BY <2>2, <3>1, <1>n, WindowIs
    <2>4. \A s \in Slots : buf'[s] = Uninit
      BY <1>18, <2>3, <1>i DEF DropRing, Filled
    <2>5. Filled'
      BY <1>18, <2>4 DEF DropRing, producer, Filled
    <2>6. Seen'
      BY <1>18, <1>i DEF DropRing, producer, Seen
    <2> QED BY <2>5, <2>6
  <1>19. CASE UNCHANGED vars
    <2>1. Filled'
      BY <1>19, <1>i, QuietFill DEF vars, producer, consumer
    <2>2. Seen'
      BY <1>19, <1>i DEF vars, producer, consumer, Seen
    <2> QED BY <2>1, <2>2
  <1> QED
    BY <1>1, <1>2, <1>3, <1>4, <1>5, <1>6, <1>7, <1>8, <1>9, <1>10,
       <1>11, <1>12, <1>13, <1>14, <1>15, <1>16, <1>17, <1>18, <1>19
    DEF Next, ProducerStep, ConsumerStep, ProgramStep

\* The invariant holds in every state.
THEOREM SpscFillInv == Spec => []FillInv
  BY InitFill, NextFill, PTL DEF Spec

\* Invariant 2 of the source (spsc/queue.rs): exactly the slots of [head, tail) and of the
\* run in progress hold live values, so that no value is dropped twice, leaked, or read
\* before it is written.
THEOREM SpscOwnership == Spec => []Ownership
  <1>1. FillInv => Ownership
    <2> SUFFICES ASSUME FillInv PROVE Ownership
      OBVIOUS
    <2>i. IndInv /\ Filled
      BY DEF FillInv
    <2>n. /\ N \in Nat /\ W \in Nat /\ W >= 2 * N /\ head \in Cursor /\ tail \in Cursor
          /\ pushed \in Nat /\ WSub(tail, head) \in Nat /\ Held \in Nat /\ Held <= N
      BY <2>i, Numbers
    <2>1. CASE cpc = "freed"
      BY <2>1, <2>i DEF Filled, Ownership
    <2>2. CASE cpc # "freed"
      <3>1. WAdd(tail, pushed) = WAdd(head, Held)
        BY <2>n, FromFront DEF Held
      <3>2. Window(head, WAdd(tail, pushed)) = {WAdd(head, i) : i \in 0 .. Held - 1}
        <4>1. Held \in 0 .. N
          BY <2>n
        <4> QED BY <3>1, <4>1, <2>n, WindowIs
      <3>3. ASSUME NEW i \in 0 .. Held - 1
            PROVE  Slot(WAdd(head, i)) \in Slots /\ buf[Slot(WAdd(head, i))] # Uninit
        <4>1. i \in 0 .. W
          BY <2>n
        <4>2. WAdd(head, i) \in Cursor
          BY <4>1, <2>n, CursorArith
        <4>3. Slot(WAdd(head, i)) \in Slots
          BY <4>2, <2>n, SlotType DEF Cursor
        <4>4. Cell(i) \in Values
          BY <2>2, <2>i DEF Filled
        <4> QED BY <4>3, <4>4, SpscAssumption DEF Cell
      <3>4. {s \in Slots : buf[s] # Uninit} = {Slot(WAdd(head, i)) : i \in 0 .. Held - 1}
        BY <2>2, <2>i, <3>3 DEF Filled
      <3>5. {Slot(t) : t \in Window(head, WAdd(tail, pushed))}
              = {Slot(WAdd(head, i)) : i \in 0 .. Held - 1}
        BY <3>2
      <3> QED BY <2>2, <3>4, <3>5 DEF Ownership
    <2> QED BY <2>1, <2>2
  <1> QED BY <1>1, SpscFillInv, PTL

\* Unless the consumer closed the channel itself, an empty answer after is_closed()
\* returned true is final: no value is behind it and none comes (spsc/mod.rs).
THEOREM SpscFinalNone == Spec => []FinalNone
  <1>1. FillInv => FinalNone
    BY Bounds DEF FillInv, IndInv, TypeOK, Seen, FinalNone, InRing, WSub, Cursor
  <1> QED BY <1>1, SpscFillInv, PTL

------------------------------------------------------------------------------
(* The refinement of BatchFifo.                                               *)

\* The queue the ring stands for.
Queue == IF cpc = "freed" THEN << >>
         ELSE [i \in 1 .. InRing |-> buf[Slot(WAdd(head, i - 1))]]

\* Its items are the cells that hold values.
LEMMA QueueIs ==
    ASSUME IndInv, Filled, cpc # "freed"
    PROVE  /\ InRing \in Nat /\ InRing <= N
           /\ Queue \in Seq(Values) /\ Len(Queue) = InRing
           /\ \A i \in 1 .. InRing : Queue[i] = Cell(i - 1)
  <1>1. InRing \in Nat /\ InRing <= N /\ pushed \in Nat
    BY Numbers DEF InRing
  <1>2. Queue = [i \in 1 .. InRing |-> Cell(i - 1)]
    BY DEF Queue, Cell
  <1>3. ASSUME NEW i \in 1 .. InRing PROVE Cell(i - 1) \in Values
    <2>1. i - 1 \in 0 .. Held - 1
      BY <1>1 DEF Held, InRing
    <2> QED BY <2>1 DEF Filled
  <1> QED BY <1>1, <1>2, <1>3

\* A sequence that continues another.
LEMMA Appended ==
    ASSUME NEW S, NEW a \in Seq(S), NEW n \in Nat, NEW b \in [1 .. n -> S],
           NEW c \in Seq(S), Len(c) = Len(a) + n,
           \A i \in 1 .. Len(a) : c[i] = a[i],
           \A i \in 1 .. n : c[Len(a) + i] = b[i]
    PROVE  c = a \o b
  <1>1. b \in Seq(S) /\ Len(b) = n /\ Len(a) \in Nat
    OBVIOUS
  <1>2. /\ a \o b \in Seq(S) /\ Len(a \o b) = Len(c)
        /\ \A i \in 1 .. Len(c) : (a \o b)[i] = IF i <= Len(a) THEN a[i] ELSE b[i - Len(a)]
    BY ZenonT(30), <1>1, ConcatProperties
  <1>3. ASSUME NEW i \in 1 .. Len(c) PROVE c[i] = (a \o b)[i]
    <2>1. CASE i <= Len(a)
      BY <1>1, <1>2, <2>1
    <2>2. CASE i > Len(a)
      <3>1. i - Len(a) \in 1 .. n /\ Len(a) + (i - Len(a)) = i
        BY <1>1, <1>3, <2>2
      <3>2. c[i] = b[i - Len(a)]
        BY <3>1
      <3> QED BY <1>1, <1>2, <2>2, <3>2
    <2> QED BY <1>1, <2>1, <2>2
  <1> QED BY <1>2, <1>3, SeqEqual

\* The front of the window leaves: so does the front of the queue.
LEMMA AdvanceQueue ==
    ASSUME IndInv, Filled, NEW by \in Nat, by <= WSub(tail, head), Advance(by),
           UNCHANGED <<tail, pushed>>, cpc # "freed", cpc' # "freed"
    PROVE  Queue' = SubSeq(Queue, by + 1, Len(Queue))
  <1>1. /\ InRing \in Nat /\ Queue \in Seq(Values) /\ Len(Queue) = InRing
        /\ \A i \in 1 .. InRing : Queue[i] = Cell(i - 1)
    BY QueueIs
  <1>2. /\ InRing' = InRing - by
        /\ \A i \in 0 .. Held - by - 1 : Cell(i)' = Cell(by + i)
    BY AdvanceFill DEF InRing
  <1>3. Queue' = [i \in 1 .. InRing' |-> Cell(i - 1)']
    BY DEF Queue, Cell
  <1>4. pushed \in Nat /\ by <= InRing
    BY Numbers DEF InRing
  <1>5. ASSUME NEW i \in 1 .. InRing - by PROVE Cell(i - 1)' = Queue[i + by]
    <2>1. i - 1 \in 0 .. Held - by - 1 /\ i + by \in 1 .. InRing /\ by + (i - 1) = (i + by) - 1
      BY <1>1, <1>4 DEF Held, InRing
    <2> QED BY <1>1, <1>2, <2>1
  <1>6. Queue' = [i \in 1 .. InRing - by |-> Queue[i + by]]
    BY <1>2, <1>3, <1>5
  <1> QED BY <1>1, <1>4, <1>6

\* Every step of the code is a step of the queue, or none: one case per action.
LEMMA StepRefines == FillInv /\ [Next]_vars => [F!Next]_F!vars
  <1> SUFFICES ASSUME FillInv, [Next]_vars PROVE [F!Next]_F!vars
    OBVIOUS
  <1>i. IndInv /\ Filled /\ Seen
    BY DEF FillInv
  <1>n. /\ N \in Nat /\ N >= 2 /\ W \in Nat /\ W >= 2 * N
        /\ head \in Cursor /\ tail \in Cursor /\ cached_tail \in Cursor
        /\ pushed \in Nat /\ room \in Nat /\ avail \in Nat /\ taken \in Nat
        /\ WSub(tail, head) \in Nat /\ WSub(cached_tail, head) \in Nat
        /\ Held \in Nat /\ Held <= N
        /\ WSub(tail, head) <= N /\ pushed <= N
        /\ taken <= avail /\ avail <= WSub(cached_tail, head)
        /\ WSub(cached_tail, head) <= WSub(tail, head)
        /\ (ppc # "write" => room = 0 /\ pushed = 0)
        /\ (pushed < room => Held < N)
    BY <1>i, Numbers
  <1>c. CallsFit
    BY <1>i DEF IndInv, CursorInv
  <1>q. cpc # "freed" =>
           /\ InRing \in Nat /\ InRing <= N /\ InRing = WSub(tail, head)
           /\ Queue \in Seq(Values) /\ Len(Queue) = InRing
           /\ \A j \in 1 .. InRing : Queue[j] = Cell(j - 1)
    BY <1>i, QueueIs DEF InRing
  \* The same queue, calls and values: a stutter.
  <1>s. ASSUME Queue' = Queue, UNCHANGED <<taken, item>>,
               cpc' = "chunk" <=> cpc = "chunk", cpc' = "freed" <=> cpc = "freed"
        PROVE  [F!Next]_F!vars
    BY <1>s DEF F!vars, Queue
  <1>t. ASSUME UNCHANGED <<buf, head, tail, taken, item>>,
               cpc' = "chunk" <=> cpc = "chunk", cpc' = "freed" <=> cpc = "freed"
        PROVE  [F!Next]_F!vars
    <2>1. Queue' = Queue
      BY <1>t DEF Queue, InRing
    <2> QED BY <1>s, <1>t, <2>1
  <1>1. ASSUME NEW k \in {"push", "batch", "iter"}, StartPush(k) PROVE [F!Next]_F!vars
    <2>1. UNCHANGED <<buf, head, tail, taken, item>>
      BY <1>1, <1>i, <1>n, <1>c DEF StartPush, consumer, CallsFit, Seen
    <2>2. (cpc' = "chunk" <=> cpc = "chunk") /\ (cpc' = "freed" <=> cpc = "freed")
      BY <1>1 DEF StartPush, consumer, CallsFit
    <2> QED BY <2>1, <2>2, <1>t
  <1>2. CASE FindRoom
    <2>1. UNCHANGED <<buf, head, tail, taken, item>>
      BY <1>2, <1>i, <1>n, <1>c DEF FindRoom, consumer, CallsFit, Seen
    <2>2. (cpc' = "chunk" <=> cpc = "chunk") /\ (cpc' = "freed" <=> cpc = "freed")
      BY <1>2 DEF FindRoom, consumer, CallsFit
    <2> QED BY <2>1, <2>2, <1>t
  <1>3. CASE CloseProducer
    <2>1. UNCHANGED <<buf, head, tail, taken, item>>
      BY <1>3, <1>i, <1>n, <1>c DEF CloseProducer, producer, consumer, CallsFit, Seen
    <2>2. (cpc' = "chunk" <=> cpc = "chunk") /\ (cpc' = "freed" <=> cpc = "freed")
      BY <1>3 DEF CloseProducer, producer, consumer, CallsFit
    <2> QED BY <2>1, <2>2, <1>t
  <1>4. CASE DropProducer
    <2>1. UNCHANGED <<buf, head, tail, taken, item>>
      BY <1>4, <1>i, <1>n, <1>c DEF DropProducer, consumer, CallsFit, Seen
    <2>2. (cpc' = "chunk" <=> cpc = "chunk") /\ (cpc' = "freed" <=> cpc = "freed")
      BY <1>4 DEF DropProducer, consumer, CallsFit
    <2> QED BY <2>1, <2>2, <1>t
  <1>5. CASE CloseConsumer
    <2>1. UNCHANGED <<buf, head, tail, taken, item>>
      BY <1>5, <1>i, <1>n, <1>c DEF CloseConsumer, producer, consumer, CallsFit, Seen
    <2>2. (cpc' = "chunk" <=> cpc = "chunk") /\ (cpc' = "freed" <=> cpc = "freed")
      BY <1>5 DEF CloseConsumer, producer, consumer, CallsFit
    <2> QED BY <2>1, <2>2, <1>t
  <1>6. CASE DropConsumer
    <2>1. UNCHANGED <<buf, head, tail, taken, item>>
      BY <1>6, <1>i, <1>n, <1>c DEF DropConsumer, producer, CallsFit, Seen
    <2>2. (cpc' = "chunk" <=> cpc = "chunk") /\ (cpc' = "freed" <=> cpc = "freed")
      BY <1>6 DEF DropConsumer, producer, CallsFit
    <2> QED BY <2>1, <2>2, <1>t
  <1>7. CASE SeeClosed
    <2>1. UNCHANGED <<buf, head, tail, taken, item>>
      BY <1>7, <1>i, <1>n, <1>c DEF SeeClosed, producer, CallsFit, Seen
    <2>2. (cpc' = "chunk" <=> cpc = "chunk") /\ (cpc' = "freed" <=> cpc = "freed")
      BY <1>7 DEF SeeClosed, producer, CallsFit
    <2> QED BY <2>1, <2>2, <1>t
  <1>8. ASSUME NEW o \in {"pop", "peek"}, CallPop(o) PROVE [F!Next]_F!vars
    <2>1. UNCHANGED <<buf, head, tail, taken, item>>
      BY <1>8, <1>i, <1>n, <1>c DEF CallPop, PopReturns, producer, CallsFit, Seen
    <2>2. (cpc' = "chunk" <=> cpc = "chunk") /\ (cpc' = "freed" <=> cpc = "freed")
      BY <1>8 DEF CallPop, PopReturns, producer, CallsFit
    <2> QED BY <2>1, <2>2, <1>t
  <1>9. CASE DrainNext
    <2>1. UNCHANGED <<buf, head, tail, taken, item>>
      BY <1>9, <1>i, <1>n, <1>c DEF DrainNext, PopReturns, producer, CallsFit, Seen
    <2>2. (cpc' = "chunk" <=> cpc = "chunk") /\ (cpc' = "freed" <=> cpc = "freed")
      BY <1>9 DEF DrainNext, PopReturns, producer, CallsFit
    <2> QED BY <2>1, <2>2, <1>t
  <1>10. CASE UNCHANGED vars
    <2>1. UNCHANGED <<buf, head, tail, taken, item>>
      BY <1>10, <1>i, <1>n, <1>c DEF vars, producer, consumer, CallsFit, Seen
    <2>2. (cpc' = "chunk" <=> cpc = "chunk") /\ (cpc' = "freed" <=> cpc = "freed")
      BY <1>10 DEF vars, producer, consumer, CallsFit
    <2> QED BY <2>1, <2>2, <1>t
  <1>11. ASSUME NEW o \in {"drain", "batch", "chunk"}, CallBatch(o) PROVE [F!Next]_F!vars
    <2>1. CASE o # "chunk"
      <3>1. UNCHANGED <<buf, head, tail, taken, item>>
        BY <1>11, <1>c, <1>n DEF CallBatch, PopReturns, CallsFit
      <3>2. (cpc' = "chunk" <=> cpc = "chunk") /\ (cpc' = "freed" <=> cpc = "freed")
        BY <1>11, <2>1 DEF CallBatch, PopReturns
      <3> QED BY <3>1, <3>2, <1>t
    <2>2. CASE o = "chunk" /\ head = tail
      <3>1. UNCHANGED <<buf, head, tail, taken, item>>
        BY <1>11, <2>2, <1>c, <1>n DEF CallBatch, PopReturns, CallsFit
      <3>2. (cpc' = "chunk" <=> cpc = "chunk") /\ (cpc' = "freed" <=> cpc = "freed")
        BY <1>11, <2>2 DEF CallBatch, PopReturns
      <3> QED BY <3>1, <3>2, <1>t
    <2>3. CASE o = "chunk" /\ head # tail
      <3>1. /\ cpc = "idle" /\ cpc' = "chunk" /\ taken = 0
            /\ UNCHANGED <<buf, head, tail, taken, item>>
        BY <1>11, <2>3, <1>c, <1>n DEF CallBatch, CallsFit
      <3>2. Queue' = Queue
        BY <3>1 DEF Queue, InRing
      <3>3. Queue # << >>
        BY <3>1, <2>3, <1>n, <1>q, CursorGap
      <3>4. F!OpenView
        BY <3>1, <3>2, <3>3 DEF F!OpenView, Queue
      <3> QED BY <3>1, <3>4 DEF F!Next
    <2> QED BY <2>1, <2>2, <2>3
  <1>12. ASSUME NEW v \in Values, WriteCell(v) PROVE [F!Next]_F!vars
    <2>1. /\ pushed < room /\ cpc # "freed" /\ cpc' = cpc
          /\ buf' = [buf EXCEPT ![Slot(WAdd(head, Held))] = v]
          /\ UNCHANGED <<head, tail, taken, item>>
      <3>1. WAdd(tail, pushed) = WAdd(head, Held)
        BY <1>n, FromFront DEF Held
      <3> QED BY <1>12, <1>i, <3>1 DEF WriteCell, consumer, Filled
    <2>2. ASSUME NEW j \in 1 .. InRing
          PROVE  buf'[Slot(WAdd(head, j - 1))] = buf[Slot(WAdd(head, j - 1))]
      <3>1. j - 1 \in 0 .. N - 1 /\ Held \in 0 .. N - 1 /\ j - 1 # Held
        BY <2>1, <1>n, <1>q DEF Held
      <3>2. Slot(WAdd(head, j - 1)) # Slot(WAdd(head, Held))
        BY <3>1, <1>n, SlotsApart
      <3>3. buf \in [Slots -> Values \cup {Uninit}] /\ Slot(WAdd(head, j - 1)) \in Slots
        <4>1. j - 1 \in 0 .. W
          BY <3>1, <1>n
        <4>2. WAdd(head, j - 1) \in Cursor
          BY <4>1, <1>n, CursorArith
        <4> QED BY <4>2, <1>n, <1>i, SlotType DEF Cursor, IndInv, TypeOK
      <3> QED BY <2>1, <3>2, <3>3
    <2>3. Queue' = Queue
      BY <2>1, <2>2 DEF Queue, InRing
    <2> QED BY <2>1, <2>3, <1>s
  <1>13. CASE Publish
    <2> DEFINE batch == [j \in 1 .. pushed |-> Cell((InRing + j) - 1)]
    <2>1. /\ cpc # "freed" /\ cpc' = cpc /\ buf' = buf /\ head' = head
          /\ tail' = WAdd(tail, pushed) /\ UNCHANGED <<taken, item>>
      BY <1>13, <1>i DEF Publish, PushReturns, consumer, Filled
    <2>2. InRing' = InRing + pushed /\ Held = InRing + pushed
      <3>1. WSub(tail, head) + pushed < W
        BY <1>n DEF Held
      <3>2. WSub(tail', head') = WSub(tail, head) + pushed
        BY <2>1, <3>1, <1>n, AdvanceBack
      <3> QED BY <3>2 DEF Held, InRing
    <2>3. Queue' = [j \in 1 .. InRing + pushed |-> Cell(j - 1)]
      BY <2>1, <2>2 DEF Queue, Cell
    <2>4. ASSUME NEW j \in 1 .. InRing + pushed PROVE Cell(j - 1) \in Values
      <3>1. j - 1 \in 0 .. Held - 1
        BY <2>1, <2>2, <1>n, <1>q
      <3> QED BY <2>1, <3>1, <1>i DEF Filled
    <2>5. ASSUME NEW j \in 1 .. pushed PROVE batch[j] = Cell((InRing + j) - 1) /\ batch[j] \in Values
      <3>1. InRing + j \in 1 .. InRing + pushed
        BY <2>1, <1>n, <1>q
      <3>2. batch[j] = Cell((InRing + j) - 1)
        OBVIOUS
      <3> HIDE DEF batch
      <3> QED BY <2>4, <3>1, <3>2
    <2>6. batch \in [1 .. pushed -> Values] /\ Queue' = Queue \o batch
      <3>1. batch \in [1 .. pushed -> Values]
        BY <2>5
      <3>2. Queue' \in Seq(Values) /\ Len(Queue') = InRing + pushed
        <4>1. InRing + pushed \in Nat
          BY <2>1, <1>n, <1>q
        <4> QED BY <2>3, <2>4, <4>1
      <3>3. \A j \in 1 .. InRing : Queue'[j] = Queue[j]
        BY <2>1, <2>3, <1>n, <1>q
      <3>4. \A j \in 1 .. pushed : Queue'[InRing + j] = batch[j]
        <4> SUFFICES ASSUME NEW j \in 1 .. pushed PROVE Queue'[InRing + j] = batch[j]
          OBVIOUS
        <4>1. InRing + j \in 1 .. InRing + pushed
          BY <2>1, <1>n, <1>q
        <4> QED BY <2>3, <2>5, <4>1
      <3>5. Queue \in Seq(Values) /\ Len(Queue) = InRing
        BY <2>1, <1>q
      <3> HIDE DEF batch
      <3>6. /\ pushed \in Nat /\ Len(Queue') = Len(Queue) + pushed
            /\ \A j \in 1 .. Len(Queue) : Queue'[j] = Queue[j]
            /\ \A j \in 1 .. pushed : Queue'[Len(Queue) + j] = batch[j]
        BY <1>n, <3>2, <3>3, <3>4, <3>5
      <3> QED BY <3>1, <3>2, <3>5, <3>6, Appended, Zenon
    <2>7. CASE pushed = 0
      <3>1. Queue' = Queue
        BY <2>1, <2>2, <2>7, <1>n, <1>q DEF Queue
      <3> QED BY <2>1, <3>1, <1>s
    <2>8. CASE pushed # 0
      <3>1. Len(batch) = pushed /\ Len(Queue) + pushed <= N /\ pushed \in 1 .. N
        BY <2>1, <2>2, <2>6, <2>8, <1>n, <1>q
      <3>2. F!Push(batch)
        BY <2>1, <2>6, <3>1 DEF F!Push, Queue
      <3> HIDE DEF batch
      <3> QED BY <2>1, <2>6, <3>1, <3>2 DEF F!Next
    <2> QED BY <2>7, <2>8
  <1>14. CASE ReadCell
    <2>1. /\ cpc = "read" /\ item' = Cell(taken) /\ UNCHANGED <<buf, head, tail>>
          /\ cpc' \in {"idle", "read", "advance"} /\ taken < InRing
      BY <1>14, <1>c, <1>n DEF ReadCell, PopReturns, Cell, CallsFit, InRing
    <2>2. Queue' = Queue /\ item' = Queue[taken + 1] /\ Queue # << >>
      <3>1. taken + 1 \in 1 .. InRing /\ (taken + 1) - 1 = taken
        BY <2>1, <1>n, <1>q
      <3> QED BY <2>1, <3>1, <1>q DEF Queue, InRing
    <2>3. CASE op = "peek"
      <3>1. taken = 0 /\ taken' = 0
        BY <1>14, <2>3, <1>i DEF ReadCell, PopReturns, Seen
      <3>2. item' = Head(Queue)
        BY <2>1, <2>2, <3>1, <1>q
      <3>3. F!Peek
        BY <2>1, <2>2, <3>1, <3>2 DEF F!Peek, Queue
      <3> QED BY <2>1, <3>3 DEF F!Next
    <2>4. CASE op # "peek"
      <3>1. taken' = taken + 1
        BY <1>14, <2>4 DEF ReadCell
      <3>2. F!Look
        BY <2>1, <2>2, <3>1, <1>q DEF F!Look, Queue
      <3> QED BY <2>1, <3>2 DEF F!Next
    <2> QED BY <2>3, <2>4
  <1>15. CASE ReadChunk
    <2>1. /\ cpc = "chunk" /\ cpc' = cpc /\ item' = Cell(taken) /\ taken' = taken + 1
          /\ UNCHANGED <<buf, head, tail>> /\ taken < InRing
      BY <1>15, <1>n DEF ReadChunk, Cell, InRing
    <2>2. Queue' = Queue /\ item' = Queue[taken + 1]
      <3>1. taken + 1 \in 1 .. InRing /\ (taken + 1) - 1 = taken
        BY <2>1, <1>n, <1>q
      <3> QED BY <2>1, <3>1, <1>q DEF Queue, InRing
    <2>3. F!Look
      BY <2>1, <2>2, <1>q DEF F!Look, Queue
    <2> QED BY <2>1, <2>3 DEF F!Next
  <1>16. CASE FinishRead
    <2>1. /\ cpc = "advance" /\ Advance(taken) /\ UNCHANGED <<tail, pushed, item>>
          /\ cpc' \in {"idle", "drain"} /\ taken' = 0
      BY <1>16 DEF FinishRead, PopReturns, producer
    <2>2. Queue' = SubSeq(Queue, taken + 1, Len(Queue)) /\ taken \in 0 .. N
      BY <2>1, <1>i, <1>n, AdvanceQueue
    <2>3. F!Remove(taken)
      BY <2>1, <2>2 DEF F!Remove, Queue
    <2> QED BY <2>1, <2>2, <2>3 DEF F!Next
  <1>17. ASSUME NEW n \in 0 .. N, Commit(n) PROVE [F!Next]_F!vars
    <2>1. /\ cpc = "chunk" /\ Advance(n) /\ UNCHANGED <<tail, pushed, item>>
          /\ cpc' = "idle" /\ taken' = 0 /\ n \in Nat /\ n <= InRing
      BY <1>17, <1>n DEF Commit, PopReturns, producer, InRing
    <2>2. Queue' = SubSeq(Queue, n + 1, Len(Queue)) /\ n <= Len(Queue)
      BY <2>1, <1>i, <1>q, AdvanceQueue
    <2>3. F!Remove(n)
      BY <2>1, <2>2 DEF F!Remove, Queue
    <2> QED BY <2>1, <2>3, <1>17 DEF F!Next
  <1>18. CASE DropView
    <2>1. /\ UNCHANGED <<buf, head, tail, item>> /\ cpc' = "idle" /\ taken' = 0
          /\ cpc \in {"drain", "chunk"}
      BY <1>18 DEF DropView, PopReturns
    <2>2. Queue' = Queue
      BY <2>1 DEF Queue, InRing
    <2>3. CASE cpc = "drain"
      <3>1. taken = 0
        BY <2>3, <1>c DEF CallsFit
      <3> QED BY <2>1, <2>2, <2>3, <3>1, <1>s
    <2>4. CASE cpc = "chunk"
      <3>1. Queue = SubSeq(Queue, 0 + 1, Len(Queue)) /\ 0 <= Len(Queue)
        BY <2>4, <1>q
      <3>2. F!Remove(0)
        BY <2>1, <2>2, <2>4, <3>1 DEF F!Remove, Queue
      <3>3. 0 \in 0 .. N
        BY <1>n
      <3> QED BY <2>4, <3>2, <3>3 DEF F!Next
    <2> QED BY <2>1, <2>3, <2>4
  <1>19. CASE DropRing
    <2>1. cpc = "gone" /\ cpc' = "freed" /\ UNCHANGED <<taken, item>>
      BY <1>19 DEF DropRing
    <2>2. F!Discard
      BY <2>1 DEF F!Discard
    <2> QED BY <2>1, <2>2 DEF F!Next
  <1> QED
    BY <1>1, <1>2, <1>3, <1>4, <1>5, <1>6, <1>7, <1>8, <1>9, <1>10,
       <1>11, <1>12, <1>13, <1>14, <1>15, <1>16, <1>17, <1>18, <1>19
    DEF Next, ProducerStep, ConsumerStep, ProgramStep

\* The channel implements the abstract queue: batches appear at once and in order, values
\* come out once, oldest first, and a view that is dropped consumes nothing.
THEOREM SpscImplementsBatchFifo == Spec => Fifo
  <1>1. Init => F!Init
    <2> SUFFICES ASSUME Init PROVE F!Init
      OBVIOUS
    <2>1. InRing = 0
      BY Bounds DEF Init, InRing, WSub
    <2>2. Queue = << >>
      BY <2>1 DEF Queue
    <2> QED BY <2>2 DEF Init, F!Init, Queue
  <1> QED BY <1>1, StepRefines, SpscFillInv, PTL DEF Spec, Fifo, F!Spec

==============================================================================
