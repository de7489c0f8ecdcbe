----------------------------- MODULE MpscProofs ------------------------------
(* The MPSC channel, for every capacity, cursor width, set of producers and   *)
(* set of values: handles are counted exactly, no credit is lost or given     *)
(* twice, a cell belongs to one thread at a time, nothing leaks at the end,   *)
(* an end that was announced is final when handles are only dropped, and the  *)
(* ring implements the queue of TicketFifo.                                   *)
EXTENDS Mpsc, CursorProofs, FiniteSetTheorems, SequenceTheorems

------------------------------------------------------------------------------
(* Sums of per-producer counts.                                             *)

Pairs(f) == {x \in Producers \X (1 .. N) : x[2] <= f[x[1]]}

\* The pairs of one producer.
Column(p, k) == {x \in {p} \X (1 .. N) : x[2] <= k}

\* The pairs are finitely many, so the sum is a number.
LEMMA PairsFinite ==
    ASSUME NEW f
    PROVE  IsFiniteSet(Pairs(f)) /\ Total(f) \in Nat
  <1>1. IsFiniteSet(1 .. N)
    BY FS_Interval, Bounds
  <1>2. IsFiniteSet(Producers \X (1 .. N))
    BY <1>1, FS_Product, MpscAssumption
  <1>3. Pairs(f) \in SUBSET (Producers \X (1 .. N))
    BY DEF Pairs
  <1>4. IsFiniteSet(Pairs(f))
    BY <1>2, <1>3, FS_Subset
  <1> QED BY <1>4, FS_CardinalityType DEF Total, Pairs

\* A producer with count k contributes k pairs.
LEMMA ColumnSize ==
    ASSUME NEW p, NEW k \in 0 .. N
    PROVE  IsFiniteSet(Column(p, k)) /\ Cardinality(Column(p, k)) = k
  <1> DEFINE g == [i \in 1 .. k |-> <<p, i>>]
  <1> USE Bounds
  <1>1. g \in [1 .. k -> Column(p, k)]
    BY DEF Column
  <1>2. g \in Injection(1 .. k, Column(p, k))
    BY <1>1 DEF Injection, IsInjective
  <1>3. \A x \in Column(p, k) : \E i \in 1 .. k : g[i] = x
    <2> TAKE x \in Column(p, k)
    <2>1. x[2] \in 1 .. k /\ x = <<p, x[2]>>
      BY DEF Column
    <2> QED BY <2>1
  <1>4. g \in Bijection(1 .. k, Column(p, k))
    BY <1>1, <1>2, <1>3 DEF Bijection, Surjection
  <1>5. ExistsBijection(1 .. k, Column(p, k))
    BY <1>4 DEF ExistsBijection
  <1>6. IsFiniteSet(1 .. k) /\ Cardinality(1 .. k) = k
    BY FS_Interval
  <1> QED BY <1>5, <1>6, FS_Bijection

\* Changing one count changes the sum by the difference.
LEMMA TotalUpdate ==
    ASSUME NEW f \in [Producers -> 0 .. N], NEW p \in Producers, NEW k \in 0 .. N
    PROVE  Total([f EXCEPT ![p] = k]) = Total(f) - f[p] + k
  <1> DEFINE h == [f EXCEPT ![p] = k]
             Rest == {x \in Pairs(f) : x[1] # p}
  <1> USE Bounds
  <1>1. IsFiniteSet(Rest)
    <2>1. Rest \in SUBSET Pairs(f)
      OBVIOUS
    <2> QED BY <2>1, PairsFinite, FS_Subset
  <1>2. Pairs(f) = Rest \cup Column(p, f[p]) /\ Rest \cap Column(p, f[p]) = {}
    BY DEF Pairs, Column
  <1>3. Pairs(h) = Rest \cup Column(p, k) /\ Rest \cap Column(p, k) = {}
    BY DEF Pairs, Column
  <1>4. f[p] \in 0 .. N
    OBVIOUS
  <1>5. Cardinality(Rest) \in Nat /\ Cardinality({}) = 0
    BY <1>1, FS_CardinalityType, FS_EmptySet
  <1>6. Cardinality(Pairs(f)) = Cardinality(Rest) + f[p]
    <2>1. IsFiniteSet(Column(p, f[p])) /\ Cardinality(Column(p, f[p])) = f[p]
      BY <1>4, ColumnSize
    <2>2. Cardinality(Rest \cup Column(p, f[p])) =
             Cardinality(Rest) + f[p] - Cardinality({})
      BY <1>1, <1>2, <2>1, FS_Union
    <2>3. Cardinality(Pairs(f)) = Cardinality(Rest) + f[p] - Cardinality({})
      BY <1>2, <2>2, Zenon
    <2> HIDE DEF Rest
    <2> QED BY <1>4, <1>5, <2>3
  <1>7. Cardinality(Pairs(h)) = Cardinality(Rest) + k
    <2>1. IsFiniteSet(Column(p, k)) /\ Cardinality(Column(p, k)) = k
      BY ColumnSize
    <2>2. Cardinality(Rest \cup Column(p, k)) =
             Cardinality(Rest) + k - Cardinality({})
      BY <1>1, <1>3, <2>1, FS_Union
    <2>3. Cardinality(Pairs(h)) = Cardinality(Rest) + k - Cardinality({})
      BY <1>3, <2>2, Zenon
    <2> HIDE DEF Rest, h
    <2> QED BY <1>5, <2>3
  <1> QED BY <1>4, <1>5, <1>6, <1>7 DEF Total, Pairs

------------------------------------------------------------------------------
(* The inductive invariant.                                                 *)

IndInv == TypeOK /\ CallState /\ LastDropCloses /\ NoOvercommit

\* A fresh channel (Ring::new) satisfies the inductive invariant.
THEOREM InitIndInv == Init => IndInv
  <1> SUFFICES ASSUME Init PROVE IndInv
    OBVIOUS
  <1> USE Bounds
  <1>1. TypeOK
    <2>1. 0 \in Cursor /\ 0 \in 0 .. N /\ N \in Int /\ 1 \in Nat
      BY DEF Cursor
    <2>2. seq \in [Slots -> Cursor] /\ data \in [Slots -> Values \cup {Uninit}]
      BY DEF Init, Slots, Cursor
    <2>3. handle \in SUBSET Producers
      BY DEF Init
    <2>4. /\ owed \in [Producers -> 0 .. N] /\ grant \in [Producers -> 0 .. N]
          /\ pos \in [Producers -> Cursor] /\ left \in [Producers -> 0 .. N]
      BY <2>1, Zenon DEF Init
    <2>5. /\ ppc \in [Producers -> ProducerPC]
          /\ kind \in [Producers -> {"push", "iter"}]
      BY DEF Init, ProducerPC
    <2>6. /\ cpc \in ConsumerPC /\ op \in {"pop", "peek", "drain"}
          /\ outcome \in {"none", "Empty", "Busy", "Done"}
      BY DEF Init, ConsumerPC
    <2>7. /\ tail \in Cursor /\ head \in Cursor /\ cached_tail \in Cursor
          /\ remaining \in Cursor /\ tickets \in Int /\ producers_count \in Nat
      BY <2>1, Zenon DEF Init
    <2>8. /\ closed \in BOOLEAN /\ sawClosed \in BOOLEAN
          /\ recycling \in SUBSET Cursor /\ item \in Values \cup {Uninit}
      BY DEF Init
    <2> QED BY <2>2, <2>3, <2>4, <2>5, <2>6, <2>7, <2>8, Zenon DEF TypeOK
  <1>2. CallState
    BY DEF Init, CallState
  <1>3. LastDropCloses
    <2>1. PICK p \in Producers : handle = {p}
      BY DEF Init
    <2>2. Cardinality(handle) = 1
      BY <2>1, FS_Singleton
    <2> QED BY <2>1, <2>2 DEF Init, LastDropCloses
  <1>4. NoOvercommit
    BY PairsFinite DEF Init, NoOvercommit
  <1> QED BY <1>1, <1>2, <1>3, <1>4 DEF IndInv

\* Every step of the MPSC code preserves it: one case per action, one step per
\* conjunct the action can disturb.
THEOREM NextIndInv == IndInv /\ [Next]_vars => IndInv'
  <1> SUFFICES ASSUME TypeOK, CallState, LastDropCloses, NoOvercommit, [Next]_vars
               PROVE  TypeOK' /\ CallState' /\ LastDropCloses' /\ NoOvercommit'
    BY DEF IndInv
  <1> USE Bounds
  <1>c. tickets \in Int /\ Total(owed) \in Nat
    BY PairsFinite DEF TypeOK
  <1>1. ASSUME NEW p \in Producers, NEW k \in {"push", "iter"}, StartCall(p, k)
        PROVE  TypeOK' /\ CallState' /\ LastDropCloses' /\ NoOvercommit'
    <2>1. TypeOK'
      BY <1>1 DEF StartCall, ring, consumer, TypeOK, ProducerPC, ConsumerPC
    <2>2. CallState'
      BY <1>1 DEF StartCall, ring, consumer, CallState, TypeOK
    <2>3. LastDropCloses'
      BY <1>1 DEF StartCall, ring, consumer, LastDropCloses, TypeOK
    <2>4. NoOvercommit'
      BY <1>1 DEF StartCall, ring, consumer, NoOvercommit
    <2> QED BY <2>1, <2>2, <2>3, <2>4
  <1>2. ASSUME NEW p \in Producers, LoadTickets(p)
        PROVE  TypeOK' /\ CallState' /\ LastDropCloses' /\ NoOvercommit'
    <2>1. TypeOK'
      BY <1>2 DEF LoadTickets, Idle, ring, consumer, TypeOK, ProducerPC, ConsumerPC
    <2>2. CallState'
      BY <1>2 DEF LoadTickets, Idle, ring, consumer, CallState, TypeOK
    <2>3. LastDropCloses'
      BY <1>2 DEF LoadTickets, Idle, ring, consumer, LastDropCloses, TypeOK
    <2>4. NoOvercommit'
      BY <1>2 DEF LoadTickets, Idle, ring, consumer, NoOvercommit
    <2> QED BY <2>1, <2>2, <2>3, <2>4
  <1>3. ASSUME NEW p \in Producers, NEW k \in 1 .. N, TakeCredits(p, k)
        PROVE  TypeOK' /\ CallState' /\ LastDropCloses' /\ NoOvercommit'
    <2> DEFINE granted == Clamp(tickets, 0, k)
    <2>a. /\ granted \in 0 .. N /\ granted <= k /\ k - granted \in 0 .. N
          /\ granted > 0 => granted <= tickets
          /\ k - granted = 0 \/ granted < k
      BY <1>c DEF Clamp
    <2>b. /\ ppc[p] = "take" /\ tickets' = tickets - k
          /\ grant' = [grant EXCEPT ![p] = granted]
          /\ owed' = [owed EXCEPT ![p] = k - granted]
          /\ ppc' = [ppc EXCEPT ![p] = IF granted < k THEN "refund" ELSE "ticket"]
      BY <1>3 DEF TakeCredits
    <2> HIDE DEF granted
    <2>1. TypeOK'
      <3>1. tickets' \in Int
        BY <2>b, <1>c
      <3>2. /\ grant' \in [Producers -> 0 .. N] /\ owed' \in [Producers -> 0 .. N]
        BY <2>a, <2>b, Zenon DEF TypeOK
      <3>3. ppc' \in [Producers -> ProducerPC]
        BY <2>b DEF TypeOK, ProducerPC
      <3> QED BY <3>1, <3>2, <3>3, <1>3 DEF TakeCredits, TypeOK, consumer
    <2>2. CallState'
      BY <1>3, <2>a, <2>b DEF TakeCredits, CallState, TypeOK, consumer
    <2>3. LastDropCloses'
      BY <1>3, <2>b DEF TakeCredits, LastDropCloses, TypeOK, consumer
    <2>4. NoOvercommit'
      <3>1. owed[p] = 0 /\ owed \in [Producers -> 0 .. N]
        BY <2>b DEF CallState, TypeOK
      <3>2. /\ k - granted \in 0 .. N
            /\ Total([owed EXCEPT ![p] = k - granted]) =
                  Total(owed) - owed[p] + (k - granted)
        BY <2>a, <3>1, TotalUpdate
      <3>3. Total(owed') = Total(owed) - owed[p] + (k - granted)
        BY <2>b, <3>2, Zenon
      <3>4. /\ Total(owed') = Total(owed) + (k - granted)
        BY <3>1, <3>2, <3>3, <1>c
      <3>5. tickets + Total(owed) >= 0
        BY DEF NoOvercommit
      <3>6. tickets' + Total(owed') >= 0
        <4>1. tickets' + Total(owed') = tickets + Total(owed) - granted
          BY <2>a, <2>b, <3>4, <1>c
        <4>2. granted = 0 \/ granted <= tickets
          BY <2>a
        <4> QED BY <4>1, <4>2, <3>5, <2>a, <1>c
      <3> QED BY <3>6 DEF NoOvercommit
    <2> QED BY <2>1, <2>2, <2>3, <2>4
  <1>4. ASSUME NEW p \in Producers, Refund(p)
        PROVE  TypeOK' /\ CallState' /\ LastDropCloses' /\ NoOvercommit'
    <2>1. TypeOK'
      <3>1. owed[p] \in 0 .. N /\ 0 \in 0 .. N
        BY DEF TypeOK
      <3>2. tickets' \in Int
        BY <1>4, <3>1, <1>c DEF Refund
      <3>3. owed' \in [Producers -> 0 .. N]
        BY <1>4, <3>1, Zenon DEF Refund, TypeOK
      <3>4. ppc' \in [Producers -> ProducerPC] /\ kind' \in [Producers -> {"push", "iter"}]
        BY <1>4 DEF Refund, Idle, TypeOK, ProducerPC
      <3>5. UNCHANGED <<seq, data, tail, closed, producers_count, recycling,
                        handle, grant, pos, left, consumer>>
        BY <1>4 DEF Refund
      <3> QED BY <3>2, <3>3, <3>4, <3>5, Zenon DEF TypeOK, consumer
    <2>2. CallState'
      BY <1>4 DEF Refund, Idle, consumer, CallState, TypeOK
    <2>3. LastDropCloses'
      BY <1>4 DEF Refund, Idle, consumer, LastDropCloses, TypeOK
    <2>4. NoOvercommit'
      <3>1. owed \in [Producers -> 0 .. N] /\ owed[p] \in 0 .. N /\ 0 \in 0 .. N
        BY DEF TypeOK
      <3>2. owed' = [owed EXCEPT ![p] = 0] /\ tickets' = tickets + owed[p]
        BY <1>4 DEF Refund
      <3>3. Total(owed') = Total(owed) - owed[p] + 0
        BY <3>1, <3>2, TotalUpdate
      <3> QED BY <3>1, <3>2, <3>3, <1>c DEF NoOvercommit
    <2> QED BY <2>1, <2>2, <2>3, <2>4
  <1>5. ASSUME NEW p \in Producers, TakeTickets(p)
        PROVE  TypeOK' /\ CallState' /\ LastDropCloses' /\ NoOvercommit'
    <2>a. grant[p] \in 0 .. N /\ tail \in Cursor
      BY DEF TypeOK
    <2>b. WAdd(tail, grant[p]) \in Cursor
      BY <2>a DEF WAdd, Cursor
    <2>1. TypeOK'
      <3>1. grant' \in [Producers -> 0 .. N] /\ left' \in [Producers -> 0 .. N]
        BY <1>5, <2>a DEF TakeTickets, TypeOK
      <3>2. pos' \in [Producers -> Cursor] /\ tail' \in Cursor
        BY <1>5, <2>a, <2>b DEF TakeTickets, TypeOK
      <3>3. ppc' \in [Producers -> ProducerPC]
        BY <1>5 DEF TakeTickets, TypeOK, ProducerPC
      <3> QED BY <3>1, <3>2, <3>3, <1>5 DEF TakeTickets, TypeOK, consumer
    <2>2. CallState'
      BY <1>5 DEF TakeTickets, consumer, CallState, TypeOK
    <2>3. LastDropCloses'
      BY <1>5 DEF TakeTickets, consumer, LastDropCloses, TypeOK
    <2>4. NoOvercommit'
      BY <1>5 DEF TakeTickets, consumer, NoOvercommit
    <2> QED BY <2>1, <2>2, <2>3, <2>4
  <1>6. ASSUME NEW p \in Producers, AwaitSlot(p)
        PROVE  TypeOK' /\ CallState' /\ LastDropCloses' /\ NoOvercommit'
    <2>1. TypeOK'
      BY <1>6 DEF AwaitSlot, ring, consumer, TypeOK, ProducerPC, ConsumerPC
    <2>2. CallState'
      BY <1>6 DEF AwaitSlot, ring, consumer, CallState, TypeOK
    <2>3. LastDropCloses'
      BY <1>6 DEF AwaitSlot, ring, consumer, LastDropCloses, TypeOK
    <2>4. NoOvercommit'
      BY <1>6 DEF AwaitSlot, ring, consumer, NoOvercommit
    <2> QED BY <2>1, <2>2, <2>3, <2>4
  <1>7. ASSUME NEW p \in Producers, NEW v \in Values, Publish(p, v)
        PROVE  TypeOK' /\ CallState' /\ LastDropCloses' /\ NoOvercommit'
    <2>a. /\ pos[p] \in Cursor /\ left[p] \in 0 .. N /\ left[p] > 0 /\ 0 \in Cursor
      BY <1>7 DEF TypeOK, CallState, Publish, Cursor
    <2>b. /\ WAdd(pos[p], 1) \in Cursor /\ WAdd(pos[p], N) \in Cursor
          /\ left[p] - 1 \in 0 .. N /\ (left[p] # 1 => left[p] - 1 > 0)
      BY <2>a DEF WAdd, Cursor
    <2>1. TypeOK'
      <3>1. /\ seq' \in [Slots -> Cursor] /\ data' \in [Slots -> Values \cup {Uninit}]
            /\ pos' \in [Producers -> Cursor] /\ left' \in [Producers -> 0 .. N]
        BY <1>7, <2>a, <2>b DEF Publish, NextTicket, TypeOK
      <3>2. ppc' \in [Producers -> ProducerPC] /\ kind' \in [Producers -> {"push", "iter"}]
        BY <1>7 DEF Publish, NextTicket, Idle, TypeOK, ProducerPC
      <3> QED BY <3>1, <3>2, <1>7 DEF Publish, TypeOK, consumer
    <2>2. CallState'
      BY <1>7, <2>a, <2>b DEF Publish, NextTicket, Idle, CallState, TypeOK, consumer
    <2>3. LastDropCloses'
      BY <1>7 DEF Publish, NextTicket, Idle, consumer, LastDropCloses, TypeOK
    <2>4. NoOvercommit'
      BY <1>7 DEF Publish, NextTicket, Idle, consumer, NoOvercommit
    <2> QED BY <2>1, <2>2, <2>3, <2>4
  <1>8. ASSUME NEW p \in Producers, EndEarly(p)
        PROVE  TypeOK' /\ CallState' /\ LastDropCloses' /\ NoOvercommit'
    <2>1. TypeOK'
      BY <1>8 DEF EndEarly, ring, consumer, TypeOK, ProducerPC, ConsumerPC
    <2>2. CallState'
      BY <1>8 DEF EndEarly, ring, consumer, CallState, TypeOK
    <2>3. LastDropCloses'
      BY <1>8 DEF EndEarly, ring, consumer, LastDropCloses, TypeOK
    <2>4. NoOvercommit'
      BY <1>8 DEF EndEarly, ring, consumer, NoOvercommit
    <2> QED BY <2>1, <2>2, <2>3, <2>4
  <1>9. ASSUME NEW p \in Producers, Abandon(p)
        PROVE  TypeOK' /\ CallState' /\ LastDropCloses' /\ NoOvercommit'
    <2>a. /\ pos[p] \in Cursor /\ left[p] \in 0 .. N /\ left[p] > 0 /\ 0 \in Cursor
      BY <1>9 DEF TypeOK, CallState, Abandon, Cursor
    <2>b. /\ WAdd(pos[p], 1) \in Cursor /\ WAdd(pos[p], N) \in Cursor
          /\ left[p] - 1 \in 0 .. N /\ (left[p] # 1 => left[p] - 1 > 0)
      BY <2>a DEF WAdd, Cursor
    <2>1. TypeOK'
      <3>1. /\ seq' \in [Slots -> Cursor] /\ data' \in [Slots -> Values \cup {Uninit}]
            /\ pos' \in [Producers -> Cursor] /\ left' \in [Producers -> 0 .. N]
        BY <1>9, <2>a, <2>b DEF Abandon, NextTicket, TypeOK
      <3>2. ppc' \in [Producers -> ProducerPC] /\ kind' \in [Producers -> {"push", "iter"}]
        BY <1>9 DEF Abandon, NextTicket, Idle, TypeOK, ProducerPC
      <3> QED BY <3>1, <3>2, <1>9 DEF Abandon, TypeOK, consumer
    <2>2. CallState'
      BY <1>9, <2>a, <2>b DEF Abandon, NextTicket, Idle, CallState, TypeOK, consumer
    <2>3. LastDropCloses'
      BY <1>9 DEF Abandon, NextTicket, Idle, consumer, LastDropCloses, TypeOK
    <2>4. NoOvercommit'
      BY <1>9 DEF Abandon, NextTicket, Idle, consumer, NoOvercommit
    <2> QED BY <2>1, <2>2, <2>3, <2>4
  <1>10. ASSUME NEW p \in Producers, NEW q \in Producers, Clone(p, q)
        PROVE  TypeOK' /\ CallState' /\ LastDropCloses' /\ NoOvercommit'
    <2>a. handle \in SUBSET Producers /\ IsFiniteSet(handle)
      BY FS_Subset, MpscAssumption DEF TypeOK
    <2>1. TypeOK'
      BY <1>10 DEF Clone, consumer, TypeOK, ProducerPC, ConsumerPC
    <2>2. CallState'
      BY <1>10 DEF Clone, consumer, CallState, TypeOK
    <2>3. LastDropCloses'
      <3>1. Cardinality(handle \cup {q}) = Cardinality(handle) + 1
        BY <1>10, <2>a, FS_AddElement DEF Clone
      <3>2. q \in handle'
        BY <1>10 DEF Clone
      <3> QED BY <1>10, <3>1, <3>2 DEF Clone, LastDropCloses
    <2>4. NoOvercommit'
      BY <1>10 DEF Clone, consumer, NoOvercommit
    <2> QED BY <2>1, <2>2, <2>3, <2>4
  <1>11. ASSUME NEW p \in Producers, DropProducer(p)
        PROVE  TypeOK' /\ CallState' /\ LastDropCloses' /\ NoOvercommit'
    <2>a. handle \in SUBSET Producers /\ IsFiniteSet(handle)
      BY FS_Subset, MpscAssumption DEF TypeOK
    <2>1. TypeOK'
      <3>1. producers_count \in Nat /\ producers_count > 0
        <4>1. Cardinality(handle) \in Nat /\ Cardinality(handle) # 0
          BY <1>11, <2>a, FS_CardinalityType, FS_EmptySet DEF DropProducer, LastHandle
        <4> QED BY <4>1 DEF LastDropCloses, TypeOK
      <3>2. producers_count' \in Nat
        BY <1>11, <3>1 DEF DropProducer, LastHandle
      <3> QED BY <1>11, <3>2 DEF DropProducer, LastHandle, TypeOK, ProducerPC, consumer
    <2>2. CallState'
      BY <1>11 DEF DropProducer, LastHandle, consumer, CallState, TypeOK
    <2>3. LastDropCloses'
      <3>1. Cardinality(handle \ {p}) = Cardinality(handle) - 1
        BY <1>11, <2>a, FS_RemoveElement DEF DropProducer, LastHandle
      <3>2. handle' = {} => producers_count = 1
        <4>1. Cardinality({}) = 0 /\ Cardinality(handle) \in Nat
          BY <2>a, FS_CardinalityType, FS_EmptySet
        <4>2. handle' = {} => Cardinality(handle) - 1 = 0
          BY <4>1, <3>1, <1>11, Zenon DEF DropProducer, LastHandle
        <4>3. producers_count = Cardinality(handle)
          BY DEF LastDropCloses
        <4> QED BY <4>1, <4>2, <4>3
      <3>3. handle' = {} => ppc'[p] = "closing"
        BY <3>2, <1>11 DEF DropProducer, LastHandle, TypeOK
      <3> QED BY <1>11, <3>1, <3>3 DEF DropProducer, LastHandle, LastDropCloses
    <2>4. NoOvercommit'
      BY <1>11 DEF DropProducer, LastHandle, consumer, NoOvercommit
    <2> QED BY <2>1, <2>2, <2>3, <2>4
  <1>12. ASSUME NEW p \in Producers, CloseLast(p)
        PROVE  TypeOK' /\ CallState' /\ LastDropCloses' /\ NoOvercommit'
    <2>1. TypeOK'
      BY <1>12 DEF CloseLast, Idle, consumer, TypeOK, ProducerPC, ConsumerPC
    <2>2. CallState'
      BY <1>12 DEF CloseLast, Idle, consumer, CallState, TypeOK
    <2>3. LastDropCloses'
      BY <1>12 DEF CloseLast, Idle, consumer, LastDropCloses, TypeOK
    <2>4. NoOvercommit'
      BY <1>12 DEF CloseLast, Idle, consumer, NoOvercommit
    <2> QED BY <2>1, <2>2, <2>3, <2>4
  <1>13. CASE Close
    <2>1. TypeOK'
      BY <1>13 DEF Close, producer, consumer, TypeOK, ProducerPC, ConsumerPC
    <2>2. CallState'
      BY <1>13 DEF Close, producer, consumer, CallState, TypeOK
    <2>3. LastDropCloses'
      BY <1>13 DEF Close, producer, consumer, LastDropCloses
    <2>4. NoOvercommit'
      BY <1>13 DEF Close, producer, consumer, NoOvercommit
    <2> QED BY <2>1, <2>2, <2>3, <2>4
  <1>14. ASSUME NEW t \in Cursor, RecycleVisible(t)
        PROVE  TypeOK' /\ CallState' /\ LastDropCloses' /\ NoOvercommit'
    <2>1. TypeOK'
      <3>1. WAdd(t, N) \in Cursor
        BY DEF WAdd, Cursor
      <3> QED BY <1>14, <3>1 DEF RecycleVisible, TypeOK, producer, consumer
    <2>2. CallState'
      BY <1>14 DEF RecycleVisible, producer, consumer, CallState, TypeOK
    <2>3. LastDropCloses'
      BY <1>14 DEF RecycleVisible, producer, consumer, LastDropCloses
    <2>4. NoOvercommit'
      BY <1>14 DEF RecycleVisible, producer, consumer, NoOvercommit
    <2> QED BY <2>1, <2>2, <2>3, <2>4
  <1>15. ASSUME NEW o \in {"pop", "peek"}, CallPop(o)
        PROVE  TypeOK' /\ CallState' /\ LastDropCloses' /\ NoOvercommit'
    <2>1. TypeOK'
      BY <1>15 DEF CallPop, CheckIfEmpty, TailSeen, Return, ring, producer, TypeOK, ProducerPC, ConsumerPC
    <2>2. CallState'
      BY <1>15 DEF CallPop, CheckIfEmpty, TailSeen, Return, ring, producer, CallState, TypeOK
    <2>3. LastDropCloses'
      BY <1>15 DEF CallPop, CheckIfEmpty, TailSeen, Return, ring, producer, LastDropCloses
    <2>4. NoOvercommit'
      BY <1>15 DEF CallPop, CheckIfEmpty, TailSeen, Return, ring, producer, NoOvercommit
    <2> QED BY <2>1, <2>2, <2>3, <2>4
  <1>16. CASE Recheck
    <2>1. TypeOK'
      BY <1>16 DEF Recheck, CheckIfEmpty, TailSeen, Return, ring, producer, TypeOK, ProducerPC, ConsumerPC
    <2>2. CallState'
      BY <1>16 DEF Recheck, CheckIfEmpty, TailSeen, Return, ring, producer, CallState, TypeOK
    <2>3. LastDropCloses'
      BY <1>16 DEF Recheck, CheckIfEmpty, TailSeen, Return, ring, producer, LastDropCloses
    <2>4. NoOvercommit'
      BY <1>16 DEF Recheck, CheckIfEmpty, TailSeen, Return, ring, producer, NoOvercommit
    <2> QED BY <2>1, <2>2, <2>3, <2>4
  <1>17. CASE CallDrain
    <2>1. TypeOK'
      <3>1. WSub(tail, head) \in Cursor
        BY DEF TypeOK, WSub, Cursor
      <3> QED BY <1>17, <3>1 DEF CallDrain, TypeOK, ring, producer, ConsumerPC
    <2>2. CallState'
      BY <1>17 DEF CallDrain, ring, producer, CallState, TypeOK
    <2>3. LastDropCloses'
      BY <1>17 DEF CallDrain, ring, producer, LastDropCloses
    <2>4. NoOvercommit'
      BY <1>17 DEF CallDrain, ring, producer, NoOvercommit
    <2> QED BY <2>1, <2>2, <2>3, <2>4
  <1>18. CASE DrainNext
    <2>1. TypeOK'
      BY <1>18 DEF DrainNext, Return, ring, producer, TypeOK, ProducerPC, ConsumerPC
    <2>2. CallState'
      BY <1>18 DEF DrainNext, Return, CallState, TypeOK, ring, producer, Cursor
    <2>3. LastDropCloses'
      BY <1>18 DEF DrainNext, Return, ring, producer, LastDropCloses
    <2>4. NoOvercommit'
      BY <1>18 DEF DrainNext, Return, ring, producer, NoOvercommit
    <2> QED BY <2>1, <2>2, <2>3, <2>4
  <1>19. CASE DropDrain
    <2>1. TypeOK'
      <3>1. 0 \in Cursor
        BY DEF Cursor
      <3> QED BY <1>19, <3>1 DEF DropDrain, Return, TypeOK, ring, producer, ConsumerPC
    <2>2. CallState'
      BY <1>19 DEF DropDrain, Return, ring, producer, CallState, TypeOK
    <2>3. LastDropCloses'
      BY <1>19 DEF DropDrain, Return, ring, producer, LastDropCloses
    <2>4. NoOvercommit'
      BY <1>19 DEF DropDrain, Return, ring, producer, NoOvercommit
    <2> QED BY <2>1, <2>2, <2>3, <2>4
  <1>20. CASE LookAtHead
    <2>1. TypeOK'
      <3>1. 0 \in Cursor
        BY DEF Cursor
      <3> QED BY <1>20, <3>1 DEF LookAtHead, Return, TypeOK, ring, producer, ConsumerPC
    <2>2. CallState'
      BY <1>20 DEF LookAtHead, Return, ring, producer, CallState, TypeOK
    <2>3. LastDropCloses'
      BY <1>20 DEF LookAtHead, Return, ring, producer, LastDropCloses
    <2>4. NoOvercommit'
      BY <1>20 DEF LookAtHead, Return, ring, producer, NoOvercommit
    <2> QED BY <2>1, <2>2, <2>3, <2>4
  <1>21. CASE Peek
    <2>1. TypeOK'
      <3>1. Slot(head) \in Slots
        BY CursorAssumption DEF TypeOK, Slot, Slots, Cursor
      <3>2. item' \in Values \cup {Uninit}
        BY <1>21, <3>1 DEF Peek, TypeOK
      <3> QED BY <1>21, <3>2 DEF Peek, TypeOK, ConsumerPC, Return, ring, producer
    <2>2. CallState'
      BY <1>21 DEF Peek, Return, ring, producer, CallState, TypeOK
    <2>3. LastDropCloses'
      BY <1>21 DEF Peek, Return, ring, producer, LastDropCloses
    <2>4. NoOvercommit'
      BY <1>21 DEF Peek, Return, ring, producer, NoOvercommit
    <2> QED BY <2>1, <2>2, <2>3, <2>4
  <1>22. CASE PopCell
    <2>1. TypeOK'
      <3>1. Slot(head) \in Slots
        BY CursorAssumption DEF TypeOK, Slot, Slots, Cursor
      <3>2. item' \in Values \cup {Uninit}
        BY <1>22, <3>1 DEF PopCell, TypeOK
      <3> QED BY <1>22, <3>2 DEF PopCell, TypeOK, ConsumerPC, producer
    <2>2. CallState'
      BY <1>22 DEF PopCell, producer, CallState, TypeOK
    <2>3. LastDropCloses'
      BY <1>22 DEF PopCell, producer, LastDropCloses
    <2>4. NoOvercommit'
      BY <1>22 DEF PopCell, producer, NoOvercommit
    <2> QED BY <2>1, <2>2, <2>3, <2>4
  <1>23. CASE ReturnCredit
    <2>1. TypeOK'
      <3>1. WAdd(head, 1) \in Cursor
        BY DEF TypeOK, WAdd, Cursor
      <3>2. remaining' \in Cursor
        BY <1>23 DEF ReturnCredit, CallState, TypeOK, Cursor
      <3> QED BY <1>23, <3>1, <3>2, <1>c DEF ReturnCredit, Return, TypeOK, producer, ConsumerPC
    <2>2. CallState'
      BY <1>23 DEF ReturnCredit, Return, producer, CallState, TypeOK
    <2>3. LastDropCloses'
      BY <1>23 DEF ReturnCredit, Return, producer, LastDropCloses
    <2>4. NoOvercommit'
      BY <1>23, <1>c DEF ReturnCredit, NoOvercommit, producer
    <2> QED BY <2>1, <2>2, <2>3, <2>4
  <1>24. CASE SkipAbandoned
    <2>1. TypeOK'
      <3>1. WAdd(head, 1) \in Cursor
        BY DEF TypeOK, WAdd, Cursor
      <3>2. remaining' \in Cursor
        BY <1>24 DEF SkipAbandoned, TypeOK, Cursor
      <3> QED BY <1>24, <3>1, <3>2, <1>c DEF SkipAbandoned, TypeOK, producer
    <2>2. CallState'
      BY <1>24 DEF SkipAbandoned, producer, CallState, TypeOK
    <2>3. LastDropCloses'
      BY <1>24 DEF SkipAbandoned, producer, LastDropCloses
    <2>4. NoOvercommit'
      BY <1>24, <1>c DEF SkipAbandoned, NoOvercommit, producer
    <2> QED BY <2>1, <2>2, <2>3, <2>4
  <1>25. CASE SkipEnds
    <2>1. TypeOK'
      BY <1>25 DEF SkipEnds, ring, producer, TypeOK, ProducerPC, ConsumerPC
    <2>2. CallState'
      BY <1>25 DEF SkipEnds, ring, producer, CallState, TypeOK
    <2>3. LastDropCloses'
      BY <1>25 DEF SkipEnds, ring, producer, LastDropCloses
    <2>4. NoOvercommit'
      BY <1>25 DEF SkipEnds, ring, producer, NoOvercommit
    <2> QED BY <2>1, <2>2, <2>3, <2>4
  <1>26. CASE SeeClosed
    <2>1. TypeOK'
      BY <1>26 DEF SeeClosed, ring, producer, TypeOK, ProducerPC, ConsumerPC
    <2>2. CallState'
      BY <1>26 DEF SeeClosed, ring, producer, CallState, TypeOK
    <2>3. LastDropCloses'
      BY <1>26 DEF SeeClosed, ring, producer, LastDropCloses
    <2>4. NoOvercommit'
      BY <1>26 DEF SeeClosed, ring, producer, NoOvercommit
    <2> QED BY <2>1, <2>2, <2>3, <2>4
  <1>27. CASE DropConsumer
    <2>1. TypeOK'
      BY <1>27 DEF DropConsumer, producer, TypeOK, ProducerPC, ConsumerPC
    <2>2. CallState'
      BY <1>27 DEF DropConsumer, producer, CallState, TypeOK
    <2>3. LastDropCloses'
      BY <1>27 DEF DropConsumer, producer, LastDropCloses
    <2>4. NoOvercommit'
      BY <1>27 DEF DropConsumer, producer, NoOvercommit
    <2> QED BY <2>1, <2>2, <2>3, <2>4
  <1>28. CASE DropRing
    <2>1. TypeOK'
      <3>1. data' \in [Slots -> Values \cup {Uninit}]
        BY <1>28 DEF DropRing, TypeOK
      <3> QED BY <1>28, <3>1 DEF DropRing, TypeOK, producer, ConsumerPC
    <2>2. CallState'
      BY <1>28 DEF DropRing, producer, CallState, TypeOK
    <2>3. LastDropCloses'
      BY <1>28 DEF DropRing, producer, LastDropCloses
    <2>4. NoOvercommit'
      BY <1>28 DEF DropRing, producer, NoOvercommit
    <2> QED BY <2>1, <2>2, <2>3, <2>4
  <1>29. CASE UNCHANGED vars
    <2>1. TypeOK'
      BY <1>29 DEF vars, ring, producer, consumer, TypeOK, ProducerPC, ConsumerPC
    <2>2. CallState'
      BY <1>29 DEF vars, ring, producer, consumer, CallState, TypeOK
    <2>3. LastDropCloses'
      BY <1>29 DEF vars, ring, producer, consumer, LastDropCloses
    <2>4. NoOvercommit'
      BY <1>29 DEF vars, ring, producer, consumer, NoOvercommit
    <2> QED BY <2>1, <2>2, <2>3, <2>4
  <1> QED
    BY <1>1, <1>2, <1>3, <1>4, <1>5, <1>6, <1>7, <1>8, <1>9, <1>10,
       <1>11, <1>12, <1>13, <1>14, <1>15, <1>16, <1>17, <1>18, <1>19, <1>20,
       <1>21, <1>22, <1>23, <1>24, <1>25, <1>26, <1>27, <1>28, <1>29
    DEF Next, ProducerStep, ConsumerStep, ProgramStep

\* IndInv holds in every state.
THEOREM MpscIndInv == Spec => []IndInv
  BY InitIndInv, NextIndInv, PTL DEF Spec

\* Every variable keeps its type, at any capacity and for any set of threads.
THEOREM MpscTypeCorrect == Spec => []TypeOK
  BY MpscIndInv, PTL DEF IndInv

\* The credit counter is below zero only by what racing try_reserve and
\* push_iter calls are about to refund, whatever the number of producers, the
\* batch sizes and the interleaving: no credit is granted twice.
THEOREM MpscNoOvercommit == Spec => []NoOvercommit
  BY MpscIndInv, PTL DEF IndInv

\* producers_count counts the handles, and the last of any number of racing
\* drops closes the channel, or is about to.
THEOREM MpscLastDropCloses == Spec => []LastDropCloses
  BY MpscIndInv, PTL DEF IndInv

------------------------------------------------------------------------------
(* What the cells hold.                                                       *)

\* The N tickets from the head on: one for each cell.
Lap == {t \in Cursor : WSub(t, head) < N}

Taken(t)   == WSub(t, head) < WSub(tail, head)
Owns(p, t) == left[p] > 0 /\ WSub(t, pos[p]) < left[p]

\* A ticket that is free, or taken and not settled by its producer yet.
Pending(t) == ~Taken(t) \/ \E p \in Producers : Owns(p, t)

\* Its cell is empty and has been recycled, or is about to be seen so.
Blank(t) ==
    /\ data[Slot(t)] = Uninit
    /\ IF WSub(t, N) \in recycling THEN seq[Slot(t)] = WAdd(WSub(t, N), 1)
                                   ELSE seq[Slot(t)] = t

\* The cell of a ticket that is published or abandoned ...
Settled(t) ==
    \/ seq[Slot(t)] = WAdd(t, 1) /\ data[Slot(t)] \in Values
    \/ seq[Slot(t)] = WAdd(t, N) /\ data[Slot(t)] = Uninit

\* ... and of the one whose value was popped while the head still points at it.
Emptied(t) ==
    /\ data[Slot(t)] = Uninit
    /\ IF t \in recycling THEN seq[Slot(t)] = WAdd(t, 1) ELSE seq[Slot(t)] = WAdd(t, N)

CellState ==
    \A t \in Lap :
       /\ Pending(t) => Blank(t)
       /\ ~Pending(t) /\ ~(cpc = "credit" /\ t = head) => Settled(t)

HeadState ==
    /\ cpc = "credit" => ~Pending(head) /\ Emptied(head)
    /\ cpc = "read" => ~Pending(head) /\ seq[Slot(head)] = WAdd(head, 1)

\* A recycle store under way is that of the head, or of the last lap of a cell
\* that nobody has settled since.
Recycles ==
    \A t \in recycling : \/ cpc = "credit" /\ t = head
                         \/ WAdd(t, N) \in Lap /\ Pending(WAdd(t, N))

Cells == cpc # "freed" => CellState /\ HeadState /\ Recycles

\* The runs of the producers are within the ring and apart.
Run(p) ==
    /\ left[p] > 0 <=> ppc[p] \in {"fill", "write", "abandon"}
    /\ ppc[p] \notin {"refund", "ticket"} => grant[p] = 0
    /\ left[p] > 0 => WSub(pos[p], head) + left[p] <= WSub(tail, head)
    /\ ppc[p] = "write" => seq[Slot(pos[p])] = pos[p]

Runs ==
    /\ \A p \in Producers : Run(p)
    /\ \A p, q \in Producers : \A t \in Cursor : Owns(p, t) /\ Owns(q, t) => p = q

Ended ==
    cpc = "freed" => recycling = {} /\ handle = {} /\ \A p \in Producers : ppc[p] = "idle"

CellInv == IndInv /\ CreditsAddUp /\ Cells /\ Runs /\ Ended

------------------------------------------------------------------------------
(* Tickets.                                                                   *)

\* Tickets of one lap have cells of their own.
LEMMA LapApart ==
    ASSUME head \in Cursor, NEW t \in Lap, NEW u \in Lap, Slot(t) = Slot(u)
    PROVE  t = u
  <1> DEFINE i == WSub(t, head)
             j == WSub(u, head)
  <1>1. t \in Cursor /\ u \in Cursor /\ i < N /\ j < N
    BY DEF Lap
  <1>2. /\ i \in 0 .. N - 1 /\ j \in 0 .. N - 1
        /\ t = WAdd(head, i) /\ u = WAdd(head, j)
    BY <1>1, Bounds DEF Cursor, WAdd, WSub
  <1> HIDE DEF i, j
  <1>3. i = j
    BY <1>2, SlotsApart
  <1> QED BY <1>2, <1>3

\* The cell of a ticket is one of the ring.
LEMMA LapSlot == \A t \in Cursor : Slot(t) \in Slots
  BY SlotType, Bounds DEF Cursor

\* The numbers of a state that satisfies the invariant.
LEMMA Numbers ==
    ASSUME TypeOK, NoOvercommit, CreditsAddUp
    PROVE  /\ N \in Nat /\ N >= 2 /\ W \in Nat /\ W >= 2 * N
           /\ head \in Cursor /\ tail \in Cursor /\ WSub(tail, head) \in Nat
           /\ WSub(tail, head) <= N /\ tickets \in Int
           /\ Total(owed) \in Nat /\ Total(grant) \in Nat
           /\ tickets + Total(owed) + Total(grant) + WSub(tail, head) = N
           /\ WSub(tail, head) + Total(grant) <= N
           /\ \A p \in Producers : /\ pos[p] \in Cursor /\ left[p] \in 0 .. N /\ left[p] \in Nat
                                   /\ grant[p] \in 0 .. N /\ owed[p] \in 0 .. N
  <1>1. /\ head \in Cursor /\ tail \in Cursor /\ tickets \in Int
        /\ \A p \in Producers : /\ pos[p] \in Cursor /\ left[p] \in 0 .. N
                                /\ grant[p] \in 0 .. N /\ owed[p] \in 0 .. N
    BY DEF TypeOK
  <1>2. WSub(tail, head) \in Nat
    BY <1>1, Bounds DEF Cursor, WSub
  <1>3. Total(owed) \in Nat /\ Total(grant) \in Nat
    BY PairsFinite
  <1>4. tickets + Total(owed) >= 0 /\ tickets + Total(owed) + Total(grant) + WSub(tail, head) = N
    BY DEF NoOvercommit, CreditsAddUp, InRing
  <1> QED BY <1>1, <1>2, <1>3, <1>4, Bounds

\* Where the first ticket of a run is.
LEMMA RunFront ==
    ASSUME TypeOK, NoOvercommit, CreditsAddUp, NEW p \in Producers, Run(p), left[p] > 0
    PROVE  pos[p] \in Lap /\ Taken(pos[p]) /\ Owns(p, pos[p]) /\ Pending(pos[p])
  <1>1. /\ pos[p] \in Cursor /\ left[p] \in Nat /\ WSub(pos[p], head) \in Nat
        /\ WSub(pos[p], head) + left[p] <= WSub(tail, head) /\ WSub(pos[p], pos[p]) = 0
        /\ WSub(tail, head) \in Nat /\ WSub(tail, head) <= N
    BY Numbers DEF Run, Cursor, WSub
  <1>2. WSub(pos[p], head) < WSub(tail, head) /\ WSub(pos[p], head) < N
    BY <1>1, Bounds
  <1> QED BY <1>1, <1>2 DEF Lap, Taken, Owns, Pending

\* The head, in a ring that is not empty or is.
LEMMA HeadInLap ==
    ASSUME head \in Cursor
    PROVE  head \in Lap
  BY Bounds DEF Lap, WSub, Cursor

\* A fresh ring.
LEMMA InitCell == Init => CellInv
  <1> SUFFICES ASSUME Init PROVE CellInv
    OBVIOUS
  <1>1. IndInv
    BY InitIndInv
  <1>2. \A f : (f = [p \in Producers |-> 0]) => Total(f) = 0
    <2> SUFFICES ASSUME NEW f, f = [p \in Producers |-> 0] PROVE Total(f) = 0
      OBVIOUS
    <2>1. {x \in Producers \X (1 .. N) : x[2] <= f[x[1]]} = {}
      BY Bounds
    <2> QED BY <2>1, FS_EmptySet DEF Total
  <1>3. Total(owed) = 0 /\ Total(grant) = 0 /\ WSub(tail, head) = 0
    BY <1>2, Bounds DEF Init, WSub
  <1>4. CreditsAddUp
    BY <1>3, Bounds DEF Init, CreditsAddUp, InRing
  <1>5. Cells
    <2>1. head = 0 /\ tail = 0 /\ recycling = {} /\ cpc = "idle"
      BY DEF Init
    <2>2. ASSUME NEW t \in Lap PROVE Pending(t) /\ Blank(t)
      <3>1. t \in 0 .. N - 1
        BY <2>1, Bounds DEF Lap, Cursor, WSub
      <3>2. Slot(t) = t /\ t \in Slots
        <4>1. t \in Nat /\ t \in Slots /\ t = N * 0 + t
          BY <3>1, Bounds DEF Slots
        <4> QED BY <4>1, ModIs
      <3>3. ~Taken(t)
        BY <2>1, <3>1, Bounds DEF Taken, WSub
      <3> QED BY <2>1, <3>2, <3>3 DEF Pending, Blank, Init
    <2> QED BY <2>1, <2>2 DEF Cells, CellState, HeadState, Recycles
  <1>6. Runs
    BY Bounds DEF Init, Runs, Run, Owns
  <1>7. Ended
    BY DEF Init, Ended
  <1> QED BY <1>1, <1>4, <1>5, <1>6, <1>7 DEF CellInv

------------------------------------------------------------------------------
(* Steps that leave the cells and the tickets alone.                          *)

\* The cells are as they were.
LEMMA QuietCells ==
    ASSUME Cells, UNCHANGED <<seq, data, tail, head, recycling, pos, left>>,
           cpc = "freed" => cpc' = "freed",
           cpc' = "credit" <=> cpc = "credit",
           cpc' = "read" => \/ cpc = "read"
                            \/ ~Pending(head) /\ seq[Slot(head)] = WAdd(head, 1)
    PROVE  Cells'
  <1> SUFFICES ASSUME cpc' # "freed" PROVE CellState' /\ HeadState' /\ Recycles'
    BY DEF Cells
  <1>1. CellState /\ HeadState /\ Recycles
    BY DEF Cells
  <1>2. Lap' = Lap /\ head' = head /\ recycling' = recycling
    BY DEF Lap
  <1>3. \A t : /\ Pending(t)' <=> Pending(t)
               /\ Blank(t)' <=> Blank(t)
               /\ Settled(t)' <=> Settled(t)
               /\ Emptied(t)' <=> Emptied(t)
    BY DEF Pending, Taken, Owns, Blank, Settled, Emptied
  <1>4. CellState'
    BY <1>1, <1>2, <1>3 DEF CellState
  <1>5. HeadState'
    BY <1>1, <1>2, <1>3 DEF HeadState
  <1>6. Recycles'
    BY <1>1, <1>2, <1>3 DEF Recycles
  <1> QED BY <1>4, <1>5, <1>6

\* The runs are as they were.
LEMMA QuietRuns ==
    ASSUME Runs, UNCHANGED <<tail, head, pos, left>>,
           \A q \in Producers :
              /\ left[q] > 0 <=> ppc'[q] \in {"fill", "write", "abandon"}
              /\ ppc'[q] \notin {"refund", "ticket"} => grant'[q] = 0
              /\ ppc'[q] = "write" => seq'[Slot(pos[q])] = pos[q]
    PROVE  Runs'
  BY DEF Runs, Run, Owns

\* Nothing moves once the ring is freed.
LEMMA EndedStays == ASSUME TypeOK, Ended, [Next]_vars PROVE Ended'
  <1>1. CASE cpc = "freed"
    <2>1. recycling = {} /\ handle = {} /\ \A p \in Producers : ppc[p] = "idle"
      BY <1>1 DEF Ended
    <2>2. \A p \in Producers : ~ProducerStep(p)
      BY <2>1 DEF ProducerStep, LoadTickets, TakeCredits, Refund, TakeTickets, AwaitSlot,
                  Publish, Abandon, CloseLast
    <2>3. ~ConsumerStep
      BY <1>1 DEF ConsumerStep, Recheck, LookAtHead, Peek, PopCell, ReturnCredit,
                  SkipAbandoned, SkipEnds, DrainNext
    <2>4. \A t \in Cursor : ~RecycleVisible(t)
      BY <2>1 DEF RecycleVisible
    <2>5. ~ProgramStep
      BY <1>1, <2>1 DEF ProgramStep, StartCall, EndEarly, DropProducer, Clone, Close, CallPop,
                        CallDrain, DropDrain, SeeClosed, DropConsumer, DropRing
    <2>6. UNCHANGED vars
      BY <2>2, <2>3, <2>4, <2>5 DEF Next
    <2> QED BY <2>1, <2>6 DEF Ended, vars, ring, producer, consumer
  <1>2. CASE cpc # "freed" /\ cpc' = "freed"
    <2>1. ASSUME NEW p \in Producers, ProducerStep(p) PROVE FALSE
      BY <1>2, <2>1 DEF ProducerStep, LoadTickets, TakeCredits, Refund, TakeTickets, AwaitSlot,
                        Publish, Abandon, CloseLast, consumer
    <2>2. CASE ConsumerStep
      BY <1>2, <2>2 DEF ConsumerStep, Recheck, CheckIfEmpty, LookAtHead, Peek, PopCell,
                        ReturnCredit, SkipAbandoned, SkipEnds, DrainNext, Return
    <2>3. ASSUME NEW t \in Cursor, RecycleVisible(t) PROVE FALSE
      BY <1>2, <2>3 DEF RecycleVisible, consumer
    <2>4. CASE ProgramStep
      <3>1. CASE DropRing
        BY <3>1 DEF DropRing, producer, Ended
      <3> QED BY <1>2, <2>4, <3>1
              DEF ProgramStep, StartCall, EndEarly, DropProducer, Clone, Close, CallPop,
                  CheckIfEmpty, CallDrain, DropDrain, SeeClosed, DropConsumer, Return, consumer
    <2>5. CASE UNCHANGED vars
      BY <1>2, <2>5 DEF vars, consumer
    <2> QED BY <2>1, <2>2, <2>3, <2>4, <2>5 DEF Next
  <1>3. CASE cpc' # "freed"
    BY <1>3 DEF Ended
  <1> QED BY <1>1, <1>2, <1>3

------------------------------------------------------------------------------
(* The steps that move tickets.                                               *)

\* Where a ticket is, seen from the tail.
LEMMA FromTail ==
    ASSUME NEW h \in Cursor, NEW l \in Cursor, NEW t \in Cursor, WSub(l, h) <= N
    PROVE  /\ WSub(t, h) < WSub(l, h) => WSub(t, l) >= N
           /\ WSub(t, h) >= WSub(l, h) => WSub(t, l) = WSub(t, h) - WSub(l, h)
  BY Bounds DEF Cursor, WSub

\* What a run owns is taken.
LEMMA OwnsTaken ==
    ASSUME TypeOK, NoOvercommit, CreditsAddUp, Runs,
           NEW q \in Producers, NEW t \in Cursor, Owns(q, t)
    PROVE  Taken(t)
  <1>1. /\ pos[q] \in Cursor /\ left[q] \in Nat /\ head \in Cursor /\ tail \in Cursor
        /\ WSub(tail, head) \in Nat /\ WSub(tail, head) <= N
    BY Numbers
  <1>2. /\ WSub(pos[q], head) + left[q] <= WSub(tail, head)
        /\ WSub(t, pos[q]) < left[q]
    BY DEF Runs, Run, Owns
  <1>3. WSub(t, head) < WSub(tail, head)
    BY <1>1, <1>2, Bounds DEF Cursor, WSub
  <1> QED BY <1>3 DEF Taken

\* A run of tickets is taken: they were free, now they are owned.
LEMMA TakeKeeps ==
    ASSUME CellInv, NEW p \in Producers, TakeTickets(p)
    PROVE  CreditsAddUp' /\ Cells' /\ Runs'
  <1> DEFINE g == grant[p]
             n == WSub(tail, head)
  <1>1. TypeOK /\ NoOvercommit /\ CreditsAddUp /\ Cells /\ Runs /\ Ended /\ CallState
    BY DEF CellInv, IndInv
  <1>2. /\ head \in Cursor /\ tail \in Cursor /\ n \in Nat /\ g \in Nat /\ g > 0
        /\ N \in Nat /\ W \in Nat /\ W >= 2 * N /\ N >= 2 /\ tickets \in Int
        /\ Total(grant) \in Nat /\ Total(owed) \in Nat /\ n <= N
        /\ tickets + Total(owed) + Total(grant) + n = N /\ n + Total(grant) <= N
    BY <1>1, Numbers DEF TakeTickets, CallState
  <1>3. Total(grant') = Total(grant) - g /\ Total(grant') \in Nat
    <2>1. grant \in [Producers -> 0 .. N] /\ 0 \in 0 .. N
      BY <1>1, <1>2 DEF TypeOK
    <2>2. Total([grant EXCEPT ![p] = 0]) = Total(grant) - grant[p] + 0
      BY <2>1, TotalUpdate
    <2>3. grant' = [grant EXCEPT ![p] = 0]
      BY DEF TakeTickets
    <2>4. Total(grant') \in Nat
      BY <2>3, PairsFinite, Zenon
    <2> QED BY <1>2, <2>2, <2>3, <2>4
  <1>4. n + g <= N /\ WSub(tail', head) = n + g /\ tail' = WAdd(tail, g)
    <2>1. n + g <= N
      BY <1>2, <1>3
    <2>2. tail' = WAdd(tail, g)
      BY DEF TakeTickets
    <2>3. WSub(WAdd(tail, g), head) = n + g
      BY <1>2, <2>1, AdvanceBack
    <2> QED BY <2>1, <2>2, <2>3
  <1>5. CreditsAddUp'
    <2>1. head' = head /\ tickets' = tickets /\ owed' = owed
      BY DEF TakeTickets, consumer
    <2>2. tickets + Total(owed) + Total(grant') + WSub(tail', head) = N
      BY <1>2, <1>3, <1>4
    <2> QED BY <2>1, <2>2 DEF CreditsAddUp, InRing
  <1>6. /\ head' = head /\ recycling' = recycling /\ seq' = seq /\ data' = data /\ cpc' = cpc
        /\ pos' = [pos EXCEPT ![p] = tail] /\ left' = [left EXCEPT ![p] = g]
        /\ grant' = [grant EXCEPT ![p] = 0] /\ ppc' = [ppc EXCEPT ![p] = "fill"]
        /\ ppc[p] = "ticket"
    BY DEF TakeTickets, consumer
  <1>7. /\ pos' = [q \in Producers |-> IF q = p THEN tail ELSE pos[q]]
        /\ left' = [q \in Producers |-> IF q = p THEN g ELSE left[q]]
        /\ grant' = [q \in Producers |-> IF q = p THEN 0 ELSE grant[q]]
        /\ ppc' = [q \in Producers |-> IF q = p THEN "fill" ELSE ppc[q]]
    BY <1>1, <1>6 DEF TypeOK
  <1>8. left[p] = 0
    BY <1>1, <1>6, Numbers DEF Runs, Run
  <1>9. \A t : /\ \A q \in Producers \ {p} : Owns(q, t)' <=> Owns(q, t)
               /\ Owns(p, t)' <=> WSub(t, tail) < g
               /\ ~Owns(p, t)
    BY <1>2, <1>7, <1>8 DEF Owns
  <1> HIDE DEF g, n
  <1>10. \A t \in Cursor : /\ WSub(t, tail) < g => ~Taken(t)
                           /\ Taken(t)' <=> Taken(t) \/ WSub(t, tail) < g
    <2> SUFFICES ASSUME NEW t \in Cursor
                 PROVE  /\ WSub(t, tail) < g => ~(WSub(t, head) < n)
                        /\ WSub(t, head) < n + g <=> WSub(t, head) < n \/ WSub(t, tail) < g
      BY <1>4, <1>6 DEF Taken, n
    <2>1. /\ WSub(t, head) < n => WSub(t, tail) >= N
          /\ WSub(t, head) >= n => WSub(t, tail) = WSub(t, head) - n
      BY <1>2, FromTail DEF n
    <2>2. WSub(t, head) \in Nat /\ WSub(t, tail) \in Nat
      BY <1>2, Bounds DEF Cursor, WSub
    <2> QED BY <1>2, <1>4, <2>1, <2>2
  <1>11. \A t \in Cursor : Pending(t)' <=> Pending(t)
    <2> TAKE t \in Cursor
    <2>1. Pending(t)' <=> ~Taken(t)' \/ \E q \in Producers : Owns(q, t)'
      BY DEF Pending
    <2>2. Pending(t) <=> ~Taken(t) \/ \E q \in Producers : Owns(q, t)
      BY DEF Pending
    <2> QED BY <1>9, <1>10, <2>1, <2>2
  <1>12. Cells'
    <2> SUFFICES ASSUME cpc # "freed" PROVE CellState' /\ HeadState' /\ Recycles'
      BY <1>6 DEF Cells
    <2>1. CellState /\ HeadState /\ Recycles
      BY <1>1 DEF Cells
    <2>2. \A t : /\ Blank(t)' <=> Blank(t)
                 /\ Settled(t)' <=> Settled(t)
                 /\ Emptied(t)' <=> Emptied(t)
      BY <1>6 DEF Blank, Settled, Emptied
    <2>3. Lap' = Lap /\ \A t \in Lap : t \in Cursor
      BY <1>6 DEF Lap
    <2>4. CellState'
      BY <1>6, <1>11, <2>1, <2>2, <2>3 DEF CellState
    <2>5. HeadState'
      BY <1>2, <1>6, <1>11, <2>1, <2>2, <2>3 DEF HeadState
    <2>6. Recycles'
      BY <1>6, <1>11, <2>1, <2>3 DEF Recycles
    <2> QED BY <2>4, <2>5, <2>6
  <1>13. Runs'
    <2>1. ASSUME NEW q \in Producers PROVE Run(q)'
      <3>1. CASE q = p
        <4>1. WSub(tail, head) + g <= WSub(tail', head)
          BY <1>2, <1>4 DEF n
        <4> QED BY <1>2, <1>6, <1>7, <3>1, <4>1 DEF Run
      <3>2. CASE q # p
        <4>1. /\ left[q] > 0 => WSub(pos[q], head) + left[q] <= WSub(tail, head)
              /\ pos[q] \in Cursor /\ left[q] \in Nat /\ WSub(pos[q], head) \in Nat
          BY <1>1, <1>2, Numbers, Bounds DEF Runs, Run, Cursor, WSub
        <4>2. left[q] > 0 => WSub(pos[q], head) + left[q] <= WSub(tail', head)
          BY <1>2, <1>4, <4>1 DEF n
        <4> QED BY <1>1, <1>6, <1>7, <3>2, <4>2 DEF Runs, Run
      <3> QED BY <3>1, <3>2
    <2>2. ASSUME NEW q \in Producers, NEW r \in Producers, NEW t \in Cursor,
                 Owns(q, t)', Owns(r, t)'
          PROVE  q = r
      <3>1. \A o \in Producers \ {p} : Owns(o, t) => ~Owns(p, t)'
        BY <1>1, <1>9, <1>10, OwnsTaken
      <3>2. CASE q # p /\ r # p
        BY <1>1, <1>9, <2>2, <3>2 DEF Runs
      <3> QED BY <1>9, <2>2, <3>1, <3>2
    <2> QED BY <2>1, <2>2 DEF Runs
  <1> QED BY <1>5, <1>12, <1>13

\* A ticket is settled: its cell was blank and is published or abandoned.
LEMMA SettleKeeps ==
    ASSUME CellInv, NEW p \in Producers, NEW again \in {"fill", "abandon"},
           ppc[p] \in {"write", "abandon"}, seq[Slot(pos[p])] = pos[p], NEW s \in Cursor,
           seq' = [seq EXCEPT ![Slot(pos[p])] = s],
           \/ /\ s = WAdd(pos[p], 1)
              /\ \E v \in Values : data' = [data EXCEPT ![Slot(pos[p])] = v]
           \/ s = WAdd(pos[p], N) /\ data' = data,
           NextTicket(p, again),
           UNCHANGED <<tail, tickets, recycling, owed, grant, head, cpc>>
    PROVE  CreditsAddUp' /\ Cells' /\ Runs'
  <1>1. TypeOK /\ NoOvercommit /\ CreditsAddUp /\ Cells /\ Runs /\ Ended
    BY DEF CellInv, IndInv
  <1>u. PICK u \in Cursor : u = pos[p]
    BY <1>1, Numbers
  <1>2. CreditsAddUp'
    BY <1>1 DEF CreditsAddUp, InRing
  <1>3. /\ left[p] > 0 /\ left[p] \in Nat /\ u \in Lap /\ Taken(u) /\ Owns(p, u)
        /\ Pending(u) /\ head \in Cursor /\ tail \in Cursor /\ Run(p)
    BY <1>1, <1>u, RunFront, Numbers DEF Runs, Run
  <1>4. cpc # "freed" /\ CellState /\ HeadState /\ Recycles
    BY <1>1 DEF Cells, Ended
  <1>5. Blank(u)
    BY <1>3, <1>4 DEF CellState
  <1>6. WSub(u, N) \notin recycling /\ data[Slot(u)] = Uninit
    BY <1>u, <1>5, LapArith DEF Blank
  <1>7. /\ pos' = [q \in Producers |-> IF q = p THEN (IF left[p] = 1 THEN 0 ELSE WAdd(u, 1))
                                       ELSE pos[q]]
        /\ left' = [q \in Producers |-> IF q = p THEN left[p] - 1 ELSE left[q]]
        /\ ppc' = [q \in Producers |-> IF q = p THEN (IF left[p] = 1 THEN "idle" ELSE again)
                                       ELSE ppc[q]]
    BY <1>1, <1>u DEF NextTicket, Idle, TypeOK
  <1>8. /\ seq \in [Slots -> Cursor] /\ data \in [Slots -> Values \cup {Uninit}]
        /\ Slot(u) \in Slots /\ \A q \in Producers : pos[q] \in Cursor /\ left[q] \in Nat
    BY <1>1, <1>u, LapSlot, Numbers DEF TypeOK
  <1>9. /\ seq'[Slot(u)] = s
        /\ \A c \in Slots : c # Slot(u) => seq'[c] = seq[c] /\ data'[c] = data[c]
        /\ \/ s = WAdd(u, 1) /\ data'[Slot(u)] \in Values
           \/ s = WAdd(u, N) /\ data'[Slot(u)] = Uninit
    BY <1>u, <1>6, <1>8
  <1>10. \A t \in Cursor : Owns(p, t)' <=> Owns(p, t) /\ t # u
    <2> TAKE t \in Cursor
    <2>1. CASE left[p] = 1
      <3>1. WSub(t, u) < 1 <=> t = u
        BY <1>3, Bounds DEF Cursor, WSub
      <3> QED BY <1>u, <1>7, <2>1, <3>1 DEF Owns
    <2>2. CASE left[p] # 1
      <3>1. left[p] <= N
        BY <1>1, Numbers
      <3>2. /\ t # u => WSub(t, WAdd(u, 1)) = WSub(t, u) - 1
            /\ t = u => WSub(t, WAdd(u, 1)) = W - 1
            /\ WSub(t, u) \in Nat
        BY <1>3, Bounds DEF Cursor, WSub, WAdd
      <3>3. Owns(p, t)' <=> WSub(t, WAdd(u, 1)) < left[p] - 1
        BY <1>3, <1>7, <2>2 DEF Owns
      <3> QED BY <1>u, <1>3, <3>1, <3>2, <3>3, Bounds DEF Owns
    <2> QED BY <2>1, <2>2
  <1>11. \A t, q : q \in Producers \ {p} => (Owns(q, t)' <=> Owns(q, t))
    BY <1>7 DEF Owns
  <1>12. \A q \in Producers \ {p} : ~Owns(q, u)
    BY <1>1, <1>3 DEF Runs
  <1>13. \A t \in Cursor : Pending(t)' <=> Pending(t) /\ t # u
    <2> TAKE t \in Cursor
    <2>1. Pending(t)' <=> ~Taken(t) \/ \E q \in Producers : Owns(q, t)'
      BY DEF Pending, Taken
    <2>2. Pending(t) <=> ~Taken(t) \/ \E q \in Producers : Owns(q, t)
      BY DEF Pending
    <2> QED BY <1>3, <1>10, <1>11, <1>12, <2>1, <2>2
  <1>14. Lap' = Lap /\ \A t \in Lap : t \in Cursor
    BY DEF Lap
  <1>15. ASSUME NEW t \in Lap, t # u
         PROVE  /\ Slot(t) \in Slots /\ Slot(t) # Slot(u)
                /\ seq'[Slot(t)] = seq[Slot(t)] /\ data'[Slot(t)] = data[Slot(t)]
    BY <1>3, <1>9, <1>14, <1>15, LapApart, LapSlot
  <1>16. ASSUME NEW t \in Lap, t # u
         PROVE  /\ Blank(t)' <=> Blank(t)
                /\ Settled(t)' <=> Settled(t)
                /\ Emptied(t)' <=> Emptied(t)
    BY <1>15, <1>16 DEF Blank, Settled, Emptied
  <1>17. Settled(u)'
    BY <1>9 DEF Settled
  <1>18. head \in Lap
    BY <1>3, HeadInLap
  <1>19. CellState'
    <2> SUFFICES ASSUME NEW t \in Lap
                 PROVE  /\ Pending(t)' => Blank(t)'
                        /\ ~Pending(t)' /\ ~(cpc = "credit" /\ t = head) => Settled(t)'
      BY <1>14 DEF CellState
    <2> QED BY <1>4, <1>13, <1>14, <1>16, <1>17 DEF CellState
  <1>20. HeadState'
    <2>1. cpc \in {"credit", "read"} => head # u
      BY <1>3, <1>4 DEF HeadState
    <2> QED BY <1>3, <1>4, <1>13, <1>15, <1>16, <1>18, <2>1 DEF HeadState
  <1>21. Recycles'
    <2> SUFFICES ASSUME NEW t \in recycling
                 PROVE  \/ cpc = "credit" /\ t = head
                        \/ WAdd(t, N) \in Lap /\ Pending(WAdd(t, N))'
      BY <1>14, Zenon DEF Recycles
    <2>1. t \in Cursor
      BY <1>1 DEF TypeOK
    <2>2. WAdd(t, N) # u
      BY <1>6, <2>1, LapArith
    <2> QED BY <1>4, <1>13, <1>14, <2>2 DEF Recycles
  <1>22. Cells'
    BY <1>19, <1>20, <1>21 DEF Cells
  <1>23. Runs'
    <2>1. ASSUME NEW q \in Producers PROVE Run(q)'
      <3>1. CASE q = p
        <4>1. left[p] # 1 => /\ WSub(WAdd(u, 1), head) + (left[p] - 1) <= WSub(tail, head)
                             /\ left[p] - 1 > 0
          <5>1. WSub(u, head) + left[p] <= WSub(tail, head) /\ WSub(tail, head) <= N
            BY <1>u, <1>1, <1>3, Numbers DEF Run
          <5> QED BY <1>3, <5>1, Bounds DEF Cursor, WSub, WAdd
        <4>2. grant[p] = 0
          BY <1>3 DEF Run
        <4>3. CASE left[p] = 1
          BY <1>7, <3>1, <4>2, <4>3 DEF Run
        <4>4. CASE left[p] # 1
          <5>1. /\ pos'[p] = WAdd(u, 1) /\ left'[p] = left[p] - 1 /\ ppc'[p] = again
                /\ left'[p] > 0 /\ grant'[p] = 0
            BY <1>7, <4>1, <4>2, <4>4
          <5>2. WSub(pos'[p], head') + left'[p] <= WSub(tail', head')
            BY <4>1, <4>4, <5>1
          <5> QED BY <3>1, <5>1, <5>2 DEF Run
        <4> QED BY <4>3, <4>4
      <3>2. CASE q # p
        <4>1. Run(q)
          BY <1>1 DEF Runs
        <4>2. ppc[q] = "write" => pos[q] \in Lap /\ pos[q] # u
          BY <1>1, <1>12, <3>2, <4>1, RunFront DEF Run
        <4>3. ppc[q] = "write" => seq'[Slot(pos[q])] = pos[q]
          BY <1>15, <4>1, <4>2 DEF Run
        <4> QED BY <1>7, <3>2, <4>1, <4>3 DEF Run
      <3> QED BY <3>1, <3>2
    <2>2. ASSUME NEW q \in Producers, NEW r \in Producers, NEW t \in Cursor,
                 Owns(q, t)', Owns(r, t)'
          PROVE  q = r
      <3>1. Owns(q, t) /\ Owns(r, t)
        BY <1>10, <1>11, <2>2
      <3> QED BY <1>1, <3>1 DEF Runs
    <2> QED BY <2>1, <2>2 DEF Runs
  <1> QED BY <1>2, <1>22, <1>23

\* A recycle store is seen: of the cell the head is leaving, or of a later lap.
LEMMA RecycleKeeps ==
    ASSUME CellInv, NEW t \in Cursor, RecycleVisible(t)
    PROVE  CreditsAddUp' /\ Cells' /\ Runs'
  <1>1. TypeOK /\ NoOvercommit /\ CreditsAddUp /\ Cells /\ Runs /\ Ended
    BY DEF CellInv, IndInv
  <1>2. /\ t \in recycling /\ seq' = [seq EXCEPT ![Slot(t)] = WAdd(t, N)]
        /\ recycling' = recycling \ {t}
        /\ UNCHANGED <<data, tail, tickets, head, cpc, owed, grant, pos, left, ppc>>
    BY DEF RecycleVisible, producer, consumer
  <1>3. CreditsAddUp'
    BY <1>1, <1>2 DEF CreditsAddUp, InRing
  <1>4. cpc # "freed" /\ CellState /\ HeadState /\ Recycles
    BY <1>1, <1>2 DEF Cells, Ended
  <1>5. /\ head \in Cursor /\ head \in Lap /\ Lap' = Lap /\ Slot(t) \in Slots
        /\ seq \in [Slots -> Cursor] /\ \A x \in Lap : x \in Cursor
    BY <1>1, <1>2, Numbers, HeadInLap, LapSlot DEF Lap, TypeOK
  <1>6. /\ seq'[Slot(t)] = WAdd(t, N)
        /\ \A c \in Slots : c # Slot(t) => seq'[c] = seq[c]
    BY <1>2, <1>5
  <1>7. \A x : Pending(x)' <=> Pending(x)
    BY <1>2 DEF Pending, Taken, Owns
  <1>8. WAdd(head, N) \notin Lap
    BY <1>5, LapArith, Bounds DEF Lap
  \* The ticket of the lap that has the cell.
  <1>9. \E u \in Lap : /\ Slot(u) = Slot(t)
                       /\ \/ cpc = "credit" /\ t = head /\ u = head
                          \/ u = WAdd(t, N) /\ Pending(u)
    <2>1. CASE cpc = "credit" /\ t = head
      BY <1>5, <2>1
    <2>2. CASE WAdd(t, N) \in Lap /\ Pending(WAdd(t, N))
      BY <2>2, SlotLap
    <2> QED BY <1>2, <1>4, <2>1, <2>2 DEF Recycles
  <1>10. PICK u \in Lap : /\ Slot(u) = Slot(t)
                          /\ \/ cpc = "credit" /\ t = head /\ u = head
                             \/ u = WAdd(t, N) /\ Pending(u)
    BY <1>9
  <1>11. ASSUME NEW x \in Lap, x # u
         PROVE  /\ Slot(x) \in Slots /\ seq'[Slot(x)] = seq[Slot(x)]
                /\ WSub(x, N) # t
    <2>1. Slot(x) \in Slots /\ Slot(x) # Slot(t)
      BY <1>5, <1>10, <1>11, LapApart, LapSlot
    <2>2. WSub(x, N) # t
      BY <1>5, <1>8, <1>10, <1>11, LapArith
    <2> QED BY <1>6, <2>1, <2>2
  <1>12. ASSUME NEW x \in Lap, x # u
         PROVE  /\ Blank(x)' <=> Blank(x)
                /\ Settled(x)' <=> Settled(x)
    BY <1>2, <1>11, <1>12 DEF Blank, Settled
  <1>13. CASE cpc = "credit" /\ t = head /\ u = head
    <2>1. ~Pending(head) /\ Emptied(head)
      BY <1>4, <1>13 DEF HeadState
    <2>2. Emptied(head)'
      BY <1>2, <1>6, <1>13, <2>1 DEF Emptied
    <2>3. CellState'
      <3> SUFFICES ASSUME NEW x \in Lap
                   PROVE  /\ Pending(x)' => Blank(x)'
                          /\ ~Pending(x)' /\ ~(cpc = "credit" /\ x = head) => Settled(x)'
        BY <1>2, <1>5 DEF CellState
      <3> QED BY <1>4, <1>7, <1>12, <1>13, <2>1 DEF CellState
    <2>4. HeadState'
      BY <1>2, <1>7, <1>13, <2>1, <2>2 DEF HeadState
    <2>5. Recycles'
      BY <1>2, <1>4, <1>5, <1>7 DEF Recycles
    <2>6. \A q \in Producers : ppc[q] = "write" => pos[q] # u /\ pos[q] \in Lap
      BY <1>1, <1>13, <2>1, RunFront DEF Runs, Run
    <2>7. Runs'
      <3>1. \A q \in Producers : ppc[q] = "write" => seq'[Slot(pos[q])] = pos[q]
        BY <1>1, <1>11, <2>6 DEF Runs, Run
      <3> QED BY <1>1, <1>2, <3>1 DEF Runs, Run, Owns
    <2> QED BY <1>3, <2>3, <2>4, <2>5, <2>7 DEF Cells
  <1>14. CASE u = WAdd(t, N) /\ Pending(u)
    <2>1. Blank(u)'
      <3>1. WSub(u, N) = t /\ data[Slot(u)] = Uninit
        BY <1>4, <1>14, LapArith DEF CellState, Blank
      <3>2. seq'[Slot(u)] = u
        BY <1>6, <1>10, <1>14
      <3> QED BY <1>2, <3>1, <3>2 DEF Blank
    <2>2. CellState'
      <3> SUFFICES ASSUME NEW x \in Lap
                   PROVE  /\ Pending(x)' => Blank(x)'
                          /\ ~Pending(x)' /\ ~(cpc = "credit" /\ x = head) => Settled(x)'
        BY <1>2, <1>5 DEF CellState
      <3> QED BY <1>4, <1>7, <1>12, <1>14, <2>1 DEF CellState
    <2>3. head # t
      BY <1>8, <1>14
    <2>4. cpc \in {"credit", "read"} => head # u
      BY <1>4, <1>14 DEF HeadState
    <2>5. HeadState'
      <3>1. cpc \in {"credit", "read"} => seq'[Slot(head)] = seq[Slot(head)]
        BY <1>5, <1>11, <2>4
      <3>2. cpc = "credit" => (Emptied(head)' <=> Emptied(head))
        BY <1>2, <2>3, <3>1 DEF Emptied
      <3> QED BY <1>2, <1>4, <1>7, <3>1, <3>2 DEF HeadState
    <2>6. Recycles'
      BY <1>2, <1>4, <1>5, <1>7 DEF Recycles
    <2>7. Runs'
      <3>1. \A q \in Producers : ppc[q] = "write" => pos[q] \in Lap /\ seq[Slot(pos[q])] = pos[q]
        BY <1>1, RunFront DEF Runs, Run
      <3>2. \A q \in Producers : ppc[q] = "write" => seq'[Slot(pos[q])] = pos[q]
        BY <1>6, <1>10, <1>11, <1>14, <3>1
      <3> QED BY <1>1, <1>2, <3>2 DEF Runs, Run, Owns
    <2> QED BY <1>3, <2>2, <2>5, <2>6, <2>7 DEF Cells
  <1> QED BY <1>10, <1>13, <1>14

\* The value at the head is moved out.
LEMMA PopKeeps ==
    ASSUME CellInv, PopCell
    PROVE  CreditsAddUp' /\ Cells' /\ Runs'
  <1>1. TypeOK /\ NoOvercommit /\ CreditsAddUp /\ Cells /\ Runs /\ Ended
    BY DEF CellInv, IndInv
  <1>2. /\ cpc = "read" /\ cpc' = "credit" /\ recycling' = recycling \cup {head}
        /\ data' = [data EXCEPT ![Slot(head)] = Uninit]
        /\ UNCHANGED <<seq, tail, tickets, head, owed, grant, pos, left, ppc>>
    BY DEF PopCell, producer
  <1>3. CreditsAddUp'
    BY <1>1, <1>2 DEF CreditsAddUp, InRing
  <1>4. CellState /\ HeadState /\ Recycles
    BY <1>1, <1>2 DEF Cells
  <1>5. /\ head \in Cursor /\ head \in Lap /\ Lap' = Lap /\ Slot(head) \in Slots
        /\ data \in [Slots -> Values \cup {Uninit}] /\ \A x \in Lap : x \in Cursor
    BY <1>1, <1>2, Numbers, HeadInLap, LapSlot DEF Lap, TypeOK
  <1>6. \A x : Pending(x)' <=> Pending(x)
    BY <1>2 DEF Pending, Taken, Owns
  <1>7. ~Pending(head) /\ seq[Slot(head)] = WAdd(head, 1)
    BY <1>2, <1>4 DEF HeadState
  <1>8. Emptied(head)'
    BY <1>2, <1>5, <1>7 DEF Emptied
  <1>9. ASSUME NEW x \in Lap, x # head
        PROVE  /\ Blank(x)' <=> Blank(x)
               /\ Settled(x)' <=> Settled(x)
    <2>1. Slot(x) \in Slots /\ Slot(x) # Slot(head)
      BY <1>5, <1>9, LapApart, LapSlot
    <2>2. WAdd(head, N) \notin Lap
      BY <1>5, LapArith, Bounds DEF Lap
    <2>3. WSub(x, N) # head
      BY <1>5, <2>2, LapArith
    <2>4. data'[Slot(x)] = data[Slot(x)]
      BY <1>2, <1>5, <2>1
    <2> QED BY <1>2, <2>3, <2>4 DEF Blank, Settled
  <1>10. CellState'
    <2> SUFFICES ASSUME NEW x \in Lap
                 PROVE  /\ Pending(x)' => Blank(x)'
                        /\ ~Pending(x)' /\ x # head => Settled(x)'
      BY <1>2, <1>5 DEF CellState
    <2> QED BY <1>2, <1>4, <1>6, <1>7, <1>9 DEF CellState
  <1>11. HeadState'
    BY <1>2, <1>6, <1>7, <1>8 DEF HeadState
  <1>12. Recycles'
    BY <1>2, <1>4, <1>5, <1>6 DEF Recycles
  <1>13. Runs'
    BY <1>1, <1>2 DEF Runs, Run, Owns
  <1> QED BY <1>3, <1>10, <1>11, <1>12, <1>13 DEF Cells

\* The head leaves a cell that is empty; its ticket of the next lap takes over.
LEMMA HeadKeeps ==
    ASSUME CellInv, cpc # "freed", ~Pending(head), Emptied(head),
           head' = WAdd(head, 1), tickets' = tickets + 1, cpc' \notin {"credit", "read", "freed"},
           UNCHANGED <<seq, data, tail, recycling, owed, grant, pos, left, ppc>>
    PROVE  CreditsAddUp' /\ Cells' /\ Runs'
  <1>1. /\ TypeOK /\ NoOvercommit /\ CreditsAddUp /\ Runs
        /\ CellState /\ HeadState /\ Recycles
    BY DEF CellInv, IndInv, Cells
  <1>2. /\ head \in Cursor /\ tail \in Cursor /\ WSub(tail, head) \in Nat
        /\ N \in Nat /\ N >= 2 /\ W \in Nat /\ W >= 2 * N /\ tickets \in Int
        /\ Total(owed) \in Nat /\ Total(grant) \in Nat /\ WSub(tail, head) <= N
        /\ tickets + Total(owed) + Total(grant) + WSub(tail, head) = N
    BY <1>1, Numbers
  <1>3. WSub(tail, head) >= 1
    BY <1>2, LapArith DEF Pending, Taken
  <1>4. WSub(tail, WAdd(head, 1)) = WSub(tail, head) - 1
    BY <1>2, <1>3, AdvanceFront
  <1>5. CreditsAddUp'
    <2>1. Total(owed') = Total(owed) /\ Total(grant') = Total(grant)
      OBVIOUS
    <2> QED BY <1>2, <1>4, <2>1 DEF CreditsAddUp, InRing
  <1> DEFINE h == WAdd(head, N)
  <1>6. PICK u \in Cursor : u = h
    BY <1>2, LapArith
  <1>7. ASSUME NEW t \in Cursor
        PROVE  /\ t # head => WSub(t, WAdd(head, 1)) = WSub(t, head) - 1
               /\ t = head => WSub(t, WAdd(head, 1)) = W - 1
               /\ t # head => WSub(t, head) > 0
               /\ WSub(t, head) \in Nat /\ (WSub(t, head) = N <=> t = u)
    BY <1>2, <1>6 DEF Cursor, WSub, WAdd
  <1>8. \A t : t \in Lap' <=> t = u \/ (t \in Lap /\ t # head)
    <2> SUFFICES ASSUME NEW t \in Cursor
                 PROVE  WSub(t, WAdd(head, 1)) < N <=> t = u \/ (WSub(t, head) < N /\ t # head)
      BY <1>6 DEF Lap
    <2>1. u # head
      BY <1>2, <1>6, LapArith
    <2> QED BY <1>2, <1>7, <2>1
  <1>9. \A t \in Cursor : t # head => (Pending(t)' <=> Pending(t))
    <2> SUFFICES ASSUME NEW t \in Cursor, t # head PROVE Taken(t)' <=> Taken(t)
      BY DEF Pending, Owns
    <2>1. WSub(t, head') < WSub(tail', head') <=> WSub(t, head) - 1 < WSub(tail, head) - 1
      BY <1>4, <1>7
    <2> QED BY <1>2, <1>7, <2>1 DEF Taken
  <1>10. \A t : (Blank(t)' <=> Blank(t)) /\ (Settled(t)' <=> Settled(t))
    BY DEF Blank, Settled
  <1>11. Pending(u)'
    <2>1. ~Taken(u)
      BY <1>2, <1>7 DEF Taken
    <2>2. u # head
      BY <1>2, <1>6, LapArith
    <2> QED BY <1>9, <2>1, <2>2 DEF Pending
  <1>12. Blank(u)'
    <2>1. WSub(u, N) = head /\ Slot(u) = Slot(head)
      BY <1>2, <1>6, LapArith, SlotLap
    <2>2. Blank(u)
      BY <1>6, <2>1 DEF Blank, Emptied
    <2> QED BY <1>10, <2>2
  <1>13. CellState'
    <2> SUFFICES ASSUME NEW t \in Lap'
                 PROVE  (Pending(t)' => Blank(t)') /\ (~Pending(t)' => Settled(t)')
      BY DEF CellState
    <2>1. CASE t = u
      BY <1>11, <1>12, <2>1
    <2>2. CASE t \in Lap /\ t # head
      <3>1. t \in Cursor
        BY <2>2 DEF Lap
      <3> QED BY <1>1, <1>9, <1>10, <2>2, <3>1 DEF CellState
    <2> QED BY <1>8, <2>1, <2>2
  <1>14. HeadState'
    BY DEF HeadState
  <1>15. Recycles'
    <2> SUFFICES ASSUME NEW t \in recycling
                 PROVE  \E x : x = WAdd(t, N) /\ x \in Lap' /\ Pending(x)'
      BY DEF Recycles
    <2>1. CASE t = head
      BY <1>6, <1>8, <1>11, <2>1
    <2>2. CASE WAdd(t, N) \in Lap /\ Pending(WAdd(t, N))
      <3>1. PICK x \in Lap : x = WAdd(t, N) /\ Pending(x)
        BY <2>2
      <3>2. x \in Cursor /\ x # head
        BY <3>1 DEF Lap
      <3> QED BY <1>8, <1>9, <3>1, <3>2
    <2> QED BY <1>1, <2>1, <2>2 DEF Recycles
  <1>16. Runs'
    <2>1. ASSUME NEW q \in Producers PROVE Run(q)'
      <3>1. Run(q) /\ pos[q] \in Cursor /\ left[q] \in Nat
        BY <1>1, Numbers DEF Runs
      <3>2. ASSUME left[q] > 0
            PROVE  WSub(pos[q], WAdd(head, 1)) + left[q] <= WSub(tail, WAdd(head, 1))
        <4>1. pos[q] # head
          BY <1>1, <3>1, <3>2, RunFront
        <4>2. WSub(pos[q], WAdd(head, 1)) = WSub(pos[q], head) - 1
          BY <1>7, <3>1, <4>1
        <4>3. WSub(pos[q], head) \in Nat
          BY <1>7, <3>1
        <4> QED BY <1>2, <1>4, <3>1, <3>2, <4>2, <4>3 DEF Run
      <3> QED BY <3>1, <3>2 DEF Run
    <2> QED BY <1>1, <2>1 DEF Runs, Owns
  <1> QED BY <1>5, <1>13, <1>14, <1>15, <1>16 DEF Cells

\* What the sequence number of the head says of it.
LEMMA HeadIs ==
    ASSUME CellInv, cpc \notin {"credit", "freed"}
    PROVE  /\ HeadPublished => ~Pending(head)
           /\ HeadAbandoned => ~Pending(head) /\ Emptied(head)
  <1>1. TypeOK /\ NoOvercommit /\ CreditsAddUp /\ CellState /\ Recycles
    BY DEF CellInv, IndInv, Cells
  <1>2. head \in Cursor /\ head \in Lap
    BY <1>1, Numbers, HeadInLap
  <1>3. /\ Pending(head) => Blank(head)
        /\ ~Pending(head) => Settled(head)
    BY <1>1, <1>2 DEF CellState
  <1>4. HeadPublished \/ HeadAbandoned => ~Pending(head)
    BY <1>2, <1>3, LapArith DEF Blank, HeadPublished, HeadAbandoned, HeadSeq
  <1>5. head \notin recycling
    <2>1. WAdd(head, N) \notin Lap
      BY <1>2, LapArith, Bounds DEF Lap
    <2> QED BY <1>1, <2>1 DEF Recycles
  <1>6. HeadAbandoned => Emptied(head)
    BY <1>2, <1>3, <1>4, <1>5, LapArith DEF Settled, Emptied, HeadAbandoned, HeadSeq
  <1> QED BY <1>4, <1>6

------------------------------------------------------------------------------
(* Every step.                                                                *)

\* No counter moved.
LEMMA QuietCredits ==
    ASSUME CreditsAddUp, UNCHANGED <<tickets, tail, head, owed, grant>>
    PROVE  CreditsAddUp'
  BY DEF CreditsAddUp, InRing

\* Credits are taken, as many as the counter covers.
LEMMA CreditsTaken ==
    ASSUME CellInv, NEW p \in Producers, NEW k \in 1 .. N, TakeCredits(p, k)
    PROVE  CreditsAddUp' /\ Cells' /\ Runs'
  <1>1. TypeOK /\ CallState /\ NoOvercommit /\ CreditsAddUp /\ Cells /\ Runs
    BY DEF CellInv, IndInv
  <1>2. /\ tickets \in Int /\ N \in Nat /\ Total(owed) \in Nat /\ Total(grant) \in Nat
        /\ WSub(tail, head) \in Nat
        /\ tickets + Total(owed) + Total(grant) + WSub(tail, head) = N
    BY <1>1, Numbers
  <1>3. PICK g \in 0 .. N : g = Clamp(tickets, 0, k) /\ k - g \in 0 .. N
    BY <1>2 DEF Clamp
  <1>4. /\ tickets' = tickets - k
        /\ grant' = [grant EXCEPT ![p] = g] /\ owed' = [owed EXCEPT ![p] = k - g]
        /\ ppc' = [ppc EXCEPT ![p] = IF g < k THEN "refund" ELSE "ticket"]
        /\ ppc[p] = "take"
        /\ UNCHANGED <<seq, data, tail, head, recycling, pos, left, cpc>>
    BY <1>3 DEF TakeCredits, consumer
  <1>5. /\ grant \in [Producers -> 0 .. N] /\ owed \in [Producers -> 0 .. N]
        /\ grant[p] = 0 /\ owed[p] = 0
    BY <1>1, <1>4 DEF TypeOK, Runs, Run, CallState
  <1>6. Total(grant') = Total(grant) - 0 + g
    <2>1. Total([grant EXCEPT ![p] = g]) = Total(grant) - grant[p] + g
      BY <1>5, TotalUpdate
    <2> QED BY <1>4, <1>5, <2>1
  <1>7. Total(owed') = Total(owed) - 0 + (k - g)
    <2>1. PICK d \in 0 .. N : d = k - g
      BY <1>3
    <2>2. Total([owed EXCEPT ![p] = d]) = Total(owed) - owed[p] + d
      BY <1>5, TotalUpdate
    <2> QED BY <1>4, <1>5, <2>1, <2>2
  <1>8. CreditsAddUp'
    <2>1. tickets' + Total(owed') + Total(grant') + WSub(tail, head) = N
      BY <1>2, <1>3, <1>4, <1>6, <1>7
    <2> QED BY <1>4, <2>1 DEF CreditsAddUp, InRing
  <1>9. Runs'
    <2>1. \A q \in Producers : /\ left[q] > 0 <=> ppc'[q] \in {"fill", "write", "abandon"}
                               /\ ppc'[q] \notin {"refund", "ticket"} => grant'[q] = 0
                               /\ ppc'[q] = "write" => seq'[Slot(pos[q])] = pos[q]
      BY <1>1, <1>4, <1>5 DEF Runs, Run, TypeOK
    <2> QED BY <1>1, <1>4, <2>1, QuietRuns
  <1> QED BY <1>1, <1>4, <1>8, <1>9, QuietCells

\* What was taken too much goes back.
LEMMA CreditsRefunded ==
    ASSUME CellInv, NEW p \in Producers, Refund(p)
    PROVE  CreditsAddUp' /\ Cells' /\ Runs'
  <1>1. TypeOK /\ NoOvercommit /\ CreditsAddUp /\ Cells /\ Runs
    BY DEF CellInv, IndInv
  <1>2. /\ tickets \in Int /\ N \in Nat /\ Total(owed) \in Nat /\ Total(grant) \in Nat
        /\ WSub(tail, head) \in Nat /\ owed[p] \in 0 .. N
        /\ tickets + Total(owed) + Total(grant) + WSub(tail, head) = N
    BY <1>1, Numbers
  <1>3. /\ tickets' = tickets + owed[p] /\ owed' = [owed EXCEPT ![p] = 0]
        /\ ppc' = [ppc EXCEPT ![p] = IF grant[p] = 0 THEN "idle" ELSE "ticket"]
        /\ ppc[p] = "refund"
        /\ UNCHANGED <<seq, data, tail, head, recycling, pos, left, cpc, grant>>
    BY DEF Refund, Idle, consumer
  <1>4. Total(owed') = Total(owed) - owed[p] + 0
    <2>1. owed \in [Producers -> 0 .. N] /\ 0 \in 0 .. N
      BY <1>1, <1>2 DEF TypeOK
    <2>2. Total([owed EXCEPT ![p] = 0]) = Total(owed) - owed[p] + 0
      BY <2>1, TotalUpdate
    <2> QED BY <1>3, <2>2
  <1>5. CreditsAddUp'
    <2>1. Total(grant') = Total(grant)
      BY <1>3
    <2>2. tickets' + Total(owed') + Total(grant') + WSub(tail, head) = N
      BY <1>2, <1>3, <1>4, <2>1
    <2> QED BY <1>3, <2>2 DEF CreditsAddUp, InRing
  <1>6. Runs'
    <2>1. \A q \in Producers : /\ left[q] > 0 <=> ppc'[q] \in {"fill", "write", "abandon"}
                               /\ ppc'[q] \notin {"refund", "ticket"} => grant'[q] = 0
                               /\ ppc'[q] = "write" => seq'[Slot(pos[q])] = pos[q]
      BY <1>1, <1>3 DEF Runs, Run, TypeOK
    <2> QED BY <1>1, <1>3, <2>1, QuietRuns
  <1> QED BY <1>1, <1>3, <1>5, <1>6, QuietCells

\* The invariant is kept by every step of the MPSC code: one case per action.
LEMMA NextCell == CellInv /\ [Next]_vars => CellInv'
  <1> SUFFICES ASSUME CellInv, [Next]_vars PROVE CreditsAddUp' /\ Cells' /\ Runs'
    BY NextIndInv, EndedStays DEF CellInv, IndInv
  <1>a. /\ TypeOK /\ CallState /\ NoOvercommit /\ CreditsAddUp /\ Cells /\ Runs
        /\ N \in Nat /\ N >= 2
    BY Bounds DEF CellInv, IndInv
  \* Steps that move no counter, no ticket and no cell.
  <1>p. ASSUME /\ UNCHANGED <<seq, data, tail, head, recycling, pos, left, cpc,
                              tickets, owed, grant>>
               /\ \A q \in Producers :
                     /\ left[q] > 0 <=> ppc'[q] \in {"fill", "write", "abandon"}
                     /\ ppc'[q] \notin {"refund", "ticket"} => grant'[q] = 0
                     /\ ppc'[q] = "write" => seq[Slot(pos[q])] = pos[q]
        PROVE  CreditsAddUp' /\ Cells' /\ Runs'
    BY <1>a, <1>p, QuietCells, QuietRuns, QuietCredits
  <1>c. ASSUME /\ UNCHANGED <<seq, data, tail, head, recycling, pos, left,
                              tickets, owed, grant, ppc>>
               /\ cpc \notin {"freed", "credit"} /\ cpc' \notin {"credit", "read"}
        PROVE  CreditsAddUp' /\ Cells' /\ Runs'
    BY <1>a, <1>c, QuietCells, QuietRuns, QuietCredits DEF Runs, Run
  <1>1. ASSUME NEW p \in Producers,
               \/ \E k \in {"push", "iter"} : StartCall(p, k)
               \/ LoadTickets(p) \/ AwaitSlot(p) \/ EndEarly(p)
        PROVE  CreditsAddUp' /\ Cells' /\ Runs'
    BY <1>a, <1>p, <1>1 DEF StartCall, LoadTickets, AwaitSlot, EndEarly, Idle, ring, consumer,
                            Runs, Run, TypeOK
  <1>2. ASSUME NEW p \in Producers,
               DropProducer(p) \/ CloseLast(p) \/ \E r \in Producers : Clone(p, r)
        PROVE  CreditsAddUp' /\ Cells' /\ Runs'
    BY <1>a, <1>p, <1>2 DEF DropProducer, CloseLast, Clone, Idle, consumer, Runs, Run, TypeOK
  <1>3. CASE Close \/ UNCHANGED vars
    BY <1>a, <1>p, <1>3 DEF Close, vars, ring, producer, consumer, Runs, Run
  <1>4. ASSUME NEW p \in Producers, NEW v \in Values, Publish(p, v)
        PROVE  CreditsAddUp' /\ Cells' /\ Runs'
    <2>1. /\ ppc[p] = "write" /\ NextTicket(p, "fill")
          /\ seq' = [seq EXCEPT ![Slot(pos[p])] = WAdd(pos[p], 1)]
          /\ data' = [data EXCEPT ![Slot(pos[p])] = v]
          /\ UNCHANGED <<tail, tickets, recycling, owed, grant, head, cpc>>
      BY <1>4 DEF Publish, consumer
    <2>2. pos[p] \in Cursor /\ seq[Slot(pos[p])] = pos[p]
      BY <1>a, <2>1, Numbers DEF Runs, Run
    <2>3. WAdd(pos[p], 1) \in Cursor
      BY <2>2, LapArith
    <2>4. PICK s \in Cursor : s = WAdd(pos[p], 1)
      BY <2>3
    <2> QED BY <2>1, <2>2, <2>4, SettleKeeps
  <1>5. ASSUME NEW p \in Producers, Abandon(p)
        PROVE  CreditsAddUp' /\ Cells' /\ Runs'
    <2>1. /\ ppc[p] = "abandon" /\ seq[Slot(pos[p])] = pos[p] /\ NextTicket(p, "abandon")
          /\ seq' = [seq EXCEPT ![Slot(pos[p])] = WAdd(pos[p], N)] /\ data' = data
          /\ UNCHANGED <<tail, tickets, recycling, owed, grant, head, cpc>>
      BY <1>5 DEF Abandon, consumer
    <2>2. WAdd(pos[p], N) \in Cursor
      BY <1>a, Numbers, LapArith
    <2>3. PICK s \in Cursor : s = WAdd(pos[p], N)
      BY <2>2
    <2> QED BY <2>1, <2>3, SettleKeeps
  <1>6. ASSUME NEW p \in Producers, ProducerStep(p)
        PROVE  CreditsAddUp' /\ Cells' /\ Runs'
    BY <1>1, <1>2, <1>4, <1>5, <1>6, CreditsTaken, CreditsRefunded, TakeKeeps DEF ProducerStep
  <1>7. CASE \/ \E o \in {"pop", "peek"} : CallPop(o)
             \/ Recheck
    BY <1>c, <1>7 DEF CallPop, Recheck, CheckIfEmpty, Return, ring, producer
  <1>8. CASE CallDrain \/ DrainNext \/ DropDrain \/ Peek \/ SkipEnds
    BY <1>c, <1>8 DEF CallDrain, DrainNext, DropDrain, Peek, SkipEnds, Return, ring, producer
  <1>9. CASE SeeClosed \/ DropConsumer
    BY <1>c, <1>9 DEF SeeClosed, DropConsumer, ring, producer
  <1>10. CASE LookAtHead
    <2>1. /\ UNCHANGED <<seq, data, tail, head, recycling, pos, left, tickets, owed, grant, ppc>>
          /\ cpc = "look" /\ cpc' # "credit" /\ cpc' # "freed"
          /\ cpc' = "read" => HeadPublished
      BY <1>10 DEF LookAtHead, Return, ring, producer
    <2>2. cpc' = "read" => ~Pending(head) /\ seq[Slot(head)] = WAdd(head, 1)
      BY <2>1, HeadIs DEF HeadPublished, HeadSeq
    <2> QED BY <1>a, <2>1, <2>2, QuietCells, QuietRuns, QuietCredits DEF Runs, Run
  <1>11. CASE ReturnCredit
    <2>1. /\ cpc = "credit" /\ head' = WAdd(head, 1) /\ tickets' = tickets + 1
          /\ cpc' \notin {"credit", "read", "freed"}
          /\ UNCHANGED <<seq, data, tail, recycling, owed, grant, pos, left, ppc>>
      BY <1>11 DEF ReturnCredit, Return, producer
    <2>2. ~Pending(head) /\ Emptied(head)
      BY <1>a, <2>1 DEF Cells, HeadState
    <2> QED BY <2>1, <2>2, HeadKeeps
  <1>12. CASE SkipAbandoned
    <2>1. /\ cpc = "skip" /\ head' = WAdd(head, 1) /\ tickets' = tickets + 1
          /\ cpc' \notin {"credit", "read", "freed"}
          /\ UNCHANGED <<seq, data, tail, recycling, owed, grant, pos, left, ppc>>
      BY <1>12 DEF SkipAbandoned, producer
    <2>2. ~Pending(head) /\ Emptied(head)
      BY <1>12, <2>1, HeadIs DEF SkipAbandoned
    <2> QED BY <2>1, <2>2, HeadKeeps
  <1>13. CASE ConsumerStep
    BY <1>7, <1>8, <1>10, <1>11, <1>12, <1>13, PopKeeps DEF ConsumerStep
  <1>14. CASE DropRing
    <2>1. /\ cpc' = "freed"
          /\ UNCHANGED <<seq, tail, head, pos, left, tickets, owed, grant, ppc>>
      BY <1>14 DEF DropRing, producer
    <2> QED BY <1>a, <2>1, QuietRuns, QuietCredits DEF Cells, Runs, Run
  <1>15. CASE ProgramStep
    BY <1>1, <1>2, <1>3, <1>7, <1>8, <1>9, <1>14, <1>15 DEF ProgramStep
  <1> QED
    BY <1>3, <1>6, <1>13, <1>15, RecycleKeeps DEF Next

\* The invariant holds in every state.
THEOREM MpscCellInv == Spec => []CellInv
  BY InitCell, NextCell, PTL DEF Spec

\* CreditsAddUp: whatever calls race, refund, batch, abandon or skip, no credit
\* is lost and none is made up, so the tail never laps the head.
THEOREM MpscCreditsAddUp == Spec => []CreditsAddUp
  <1>1. CellInv => CreditsAddUp
    BY DEF CellInv
  <1> QED BY <1>1, MpscCellInv, PTL

------------------------------------------------------------------------------
(* A cell belongs to one thread at a time.                                    *)

\* What a producer that writes knows of its ticket.
LEMMA Writer ==
    ASSUME CellInv, NEW p \in Producers, ppc[p] = "write"
    PROVE  /\ cpc # "freed" /\ Owns(p, pos[p]) /\ pos[p] \in Cursor
           /\ pos[p] \in Lap /\ Pending(pos[p]) /\ data[Slot(pos[p])] = Uninit
  <1>1. /\ TypeOK /\ NoOvercommit /\ CreditsAddUp /\ Run(p) /\ left[p] > 0
        /\ cpc # "freed" /\ CellState
    BY DEF CellInv, IndInv, Cells, Runs, Run, Ended
  <1>2. pos[p] \in Lap /\ Owns(p, pos[p]) /\ Pending(pos[p])
    BY <1>1, RunFront
  <1>3. Blank(pos[p])
    BY <1>1, <1>2 DEF CellState
  <1> QED BY <1>1, <1>2, <1>3 DEF Blank, Lap

\* What the consumer knows of the cell it is about to read.
LEMMA ReaderCell ==
    ASSUME CellInv, cpc = "read"
    PROVE  /\ head \in Cursor /\ head \in Lap /\ ~Pending(head)
           /\ data[Slot(head)] # Uninit
  <1>1. TypeOK /\ NoOvercommit /\ CreditsAddUp /\ CellState /\ HeadState
    BY DEF CellInv, IndInv, Cells
  <1>2. head \in Cursor /\ head \in Lap
    BY <1>1, Numbers, HeadInLap
  <1>3. ~Pending(head) /\ seq[Slot(head)] = WAdd(head, 1) /\ Settled(head)
    BY <1>1, <1>2 DEF CellState, HeadState
  <1>4. data[Slot(head)] \in Values
    BY <1>2, <1>3, LapArith DEF Settled
  <1> QED BY <1>2, <1>3, <1>4, MpscAssumption

LEMMA ExclusiveHolds == CellInv => CellExclusive
  <1> SUFFICES ASSUME CellInv PROVE CellExclusive
    OBVIOUS
  <1>1. head \in Cursor
    BY DEF CellInv, IndInv, TypeOK
  <1>2. ASSUME NEW p \in Producers, ppc[p] = "write",
               NEW q \in Producers \ {p}, ppc[q] = "write"
        PROVE  Slot(pos[q]) # Slot(pos[p])
    <2>1. SUFFICES ASSUME Slot(pos[q]) = Slot(pos[p]) PROVE FALSE
      OBVIOUS
    <2>2. pos[q] = pos[p]
      BY <1>1, <1>2, <2>1, Writer, LapApart
    <2>3. Owns(p, pos[p]) /\ Owns(q, pos[p]) /\ pos[p] \in Cursor
      BY <1>2, <2>2, Writer
    <2> QED BY <1>2, <2>3 DEF CellInv, Runs
  <1>3. ASSUME cpc = "read", NEW p \in Producers, ppc[p] = "write"
        PROVE  Slot(pos[p]) # Slot(head)
    <2>1. SUFFICES ASSUME Slot(pos[p]) = Slot(head) PROVE FALSE
      OBVIOUS
    <2>2. pos[p] = head
      BY <1>1, <1>3, <2>1, Writer, ReaderCell, LapApart
    <2> QED BY <1>3, <2>2, Writer, ReaderCell
  <1> QED BY <1>2, <1>3, Writer, ReaderCell DEF CellExclusive

\* CellExclusive: a cell being written is empty and has one writer, the cell
\* being read holds a value and has no writer (write_cell, pop_cell).
THEOREM MpscCellExclusive == Spec => []CellExclusive
  BY ExclusiveHolds, MpscCellInv, PTL

------------------------------------------------------------------------------
(* What Ring::drop finds.                                                     *)

\* Every cell is that of a ticket of the lap, and when no call is running its
\* sequence number tells whether it holds a value.
LEMMA QuietCell ==
    ASSUME CellInv, Quiescent, NEW s \in Slots
    PROVE  \E t \in Lap :
              /\ Slot(t) = s
              /\ \/ seq[s] = t /\ data[s] = Uninit
                 \/ seq[s] = WAdd(t, N) /\ data[s] = Uninit
                 \/ Taken(t) /\ seq[s] = WAdd(t, 1) /\ data[s] # Uninit
  <1>1. /\ TypeOK /\ NoOvercommit /\ CreditsAddUp /\ CellState /\ recycling = {}
        /\ cpc # "credit" /\ \A p \in Producers : left[p] \in Nat /\ ~(left[p] > 0)
    BY Numbers DEF CellInv, IndInv, Cells, Runs, Run, Quiescent
  <1>2. head \in Cursor
    BY <1>1, Numbers
  <1>3. PICK i \in 0 .. N - 1 : Slot(WAdd(head, i)) = s
    BY <1>2, SlotsCovered
  <1>4. PICK t \in Lap : Slot(t) = s
    <2>1. WAdd(head, i) \in Lap
      BY <1>2, Bounds DEF Lap, Cursor, WAdd, WSub
    <2> QED BY <1>3, <2>1
  <1>5. CASE Pending(t)
    BY <1>1, <1>4, <1>5 DEF CellState, Blank
  <1>6. CASE ~Pending(t)
    <2>1. Taken(t) /\ Settled(t)
      BY <1>1, <1>6 DEF CellState, Pending
    <2> QED BY <1>4, <2>1, MpscAssumption DEF Settled
  <1> QED BY <1>5, <1>6

\* The tickets the scan of Ring::drop goes through.
LEMMA ScanIs ==
    ASSUME NEW l \in Cursor
    PROVE  /\ Window(WSub(l, N), l) \subseteq Cursor
           /\ \A t \in Cursor, h \in Cursor :
                 WSub(l, h) <= N /\ WSub(t, h) < WSub(l, h) => t \in Window(WSub(l, N), l)
  <1> DEFINE a == WSub(l, N)
  <1>1. a \in Cursor /\ WAdd(a, N) = l /\ N \in 0 .. N
    BY LapArith, Bounds
  <1>2. Window(a, l) = {WAdd(a, i) : i \in 0 .. N - 1}
    <2> HIDE DEF a
    <2> QED BY <1>1, WindowIs
  <1>3. \A i \in 0 .. N - 1 : WAdd(a, i) \in Cursor
    BY <1>1, Bounds DEF Cursor, WAdd
  <1>4. ASSUME NEW t \in Cursor, NEW h \in Cursor,
               WSub(l, h) <= N, WSub(t, h) < WSub(l, h)
        PROVE  t \in Window(a, l)
    <2> DEFINE i == N - (WSub(l, h) - WSub(t, h))
    <2>1. i \in 0 .. N - 1 /\ t = WAdd(a, i)
      BY <1>4, Bounds DEF Cursor, WAdd, WSub
    <2> QED BY <1>2, <2>1
  <1> QED BY <1>2, <1>3, <1>4

\* A sequence number one past a ticket is not the ticket of the same cell.
LEMMA NextSlot ==
    ASSUME NEW t \in Cursor, NEW i \in Cursor, Slot(t) = Slot(i)
    PROVE  t # WAdd(i, 1) /\ WAdd(t, N) # WAdd(i, 1)
  <1>1. /\ WAdd(i, 0) = i /\ 0 \in 0 .. N - 1 /\ 1 \in 0 .. N - 1
    BY Bounds DEF Cursor, WAdd
  <1>2. Slot(WAdd(i, 1)) # Slot(i)
    BY <1>1, SlotsApart
  <1> QED BY <1>2, SlotLap

LEMMA ResidueHolds == CellInv => ResidueExact
  <1> SUFFICES ASSUME CellInv, Quiescent
               PROVE  Residue = {s \in Slots : data[s] # Uninit}
    BY DEF ResidueExact
  <1>1. /\ head \in Cursor /\ tail \in Cursor /\ WSub(tail, head) <= N
    BY Numbers DEF CellInv, IndInv
  <1>2. ASSUME NEW i \in Window(WSub(tail, N), tail), seq[Slot(i)] = WAdd(i, 1)
        PROVE  Slot(i) \in Slots /\ data[Slot(i)] # Uninit
    <2>1. i \in Cursor /\ Slot(i) \in Slots
      BY <1>1, ScanIs, LapSlot
    <2>2. PICK t \in Lap :
              /\ Slot(t) = Slot(i)
              /\ \/ seq[Slot(i)] = t \/ seq[Slot(i)] = WAdd(t, N)
                 \/ data[Slot(i)] # Uninit
      BY <2>1, QuietCell
    <2>3. t \in Cursor
      BY DEF Lap
    <2> QED BY <1>2, <2>1, <2>2, <2>3, NextSlot
  <1>3. ASSUME NEW s \in Slots, data[s] # Uninit
        PROVE  \E i \in Window(WSub(tail, N), tail) : Slot(i) = s /\ seq[Slot(i)] = WAdd(i, 1)
    <2>1. PICK t \in Lap : Slot(t) = s /\ Taken(t) /\ seq[s] = WAdd(t, 1)
      BY <1>3, QuietCell
    <2>2. t \in Cursor /\ t \in Window(WSub(tail, N), tail)
      BY <1>1, <2>1, ScanIs DEF Lap, Taken
    <2> QED BY <2>1, <2>2
  <1> QED BY <1>2, <1>3 DEF Residue

\* ResidueExact: when no call is running, the cells that Ring::drop would drop
\* are exactly those that hold a value: no leak and no double drop.
THEOREM MpscResidueExact == Spec => []ResidueExact
  BY ResidueHolds, MpscCellInv, PTL

------------------------------------------------------------------------------
(* The end of the channel, when handles are only dropped.                     *)

\* A call runs on a handle; the last drop closes when every other thread is
\* done, and a closed channel with a consumer has no producer left.
Threads ==
    /\ \A p \in Producers : ppc[p] \in {"idle", "closing"} \/ p \in handle
    /\ \A p \in Producers : ppc[p] = "closing" =>
          handle = {} /\ \A q \in Producers \ {p} : ppc[q] = "idle"
    /\ closed => \/ cpc \in {"gone", "freed"}
                 \/ handle = {} /\ \A p \in Producers : ppc[p] = "idle"
    /\ sawClosed => closed

\* From then on the tail stands still: a drain covers the whole ring, and an
\* empty-handed call has found the ring empty.
Answers ==
    /\ cpc \in {"idle", "gone", "freed"} => op = "pop"
    /\ outcome # "none" => cpc = "idle"
    /\ sawClosed /\ op = "drain" => remaining = InRing
    /\ FoundNothing => InRing = 0

LEMMA ThreadsStay ==
    ASSUME TypeOK, LastDropCloses, Threads, ~ExplicitClose, [Next]_vars
    PROVE  Threads'
  <1>a. IsFiniteSet(Producers) /\ handle \subseteq Producers
    BY MpscAssumption DEF TypeOK
  <1>1. ASSUME NEW p \in Producers, NEW k \in {"push", "iter"}, StartCall(p, k)
        PROVE  Threads'
    BY <1>1 DEF StartCall, Threads, TypeOK, ring, consumer
  <1>2. ASSUME NEW p \in Producers, ProducerStep(p), ~CloseLast(p)
        PROVE  Threads'
    <2>1. /\ ppc[p] \notin {"idle", "closing"}
          /\ ppc' = [ppc EXCEPT ![p] = ppc'[p]] /\ ppc'[p] # "closing"
          /\ UNCHANGED <<handle, closed, sawClosed, cpc>>
      BY <1>2 DEF ProducerStep, LoadTickets, TakeCredits, Refund, TakeTickets, AwaitSlot,
                  Publish, Abandon, NextTicket, Idle, TypeOK, ring, consumer
    <2> QED BY <2>1 DEF Threads, TypeOK
  <1>3. ASSUME NEW p \in Producers, CloseLast(p)
        PROVE  Threads'
    BY <1>3 DEF CloseLast, Idle, Threads, TypeOK, consumer
  <1>4. ASSUME NEW p \in Producers, EndEarly(p)
        PROVE  Threads'
    BY <1>4 DEF EndEarly, Threads, TypeOK, ring, consumer
  <1>5. ASSUME NEW p \in Producers, DropProducer(p)
        PROVE  Threads'
    <2>1. CASE LastHandle
      <3>1. Cardinality(handle) = 1 /\ IsFiniteSet(handle)
        BY <1>a, <2>1, FS_Subset DEF LastHandle, LastDropCloses
      <3>2. handle \ {p} = {}
        <4>1. Cardinality(handle \ {p}) = 0 /\ IsFiniteSet(handle \ {p})
          BY <1>5, <3>1, FS_RemoveElement DEF DropProducer
        <4> QED BY <4>1, FS_EmptySet
      <3>3. \A q \in Producers \ {p} : ppc[q] = "idle"
        BY <1>5, <3>2 DEF DropProducer, Threads
      <3>4. ~closed \/ cpc \in {"gone", "freed"}
        BY <1>5 DEF DropProducer, Threads
      <3> QED BY <1>5, <2>1, <3>2, <3>3, <3>4 DEF DropProducer, Threads, TypeOK, consumer
    <2>2. CASE ~LastHandle
      BY <1>5, <2>2 DEF DropProducer, Threads, TypeOK, consumer
    <2> QED BY <2>1, <2>2
  <1>6. ASSUME NEW p \in Producers, NEW q \in Producers, Clone(p, q)
        PROVE  Threads'
    BY <1>6 DEF Clone, Threads, TypeOK, consumer
  <1>7. CASE UNCHANGED <<producer, closed>> /\ cpc \notin {"gone", "freed"}
             /\ (sawClosed' => sawClosed \/ closed)
    BY <1>7 DEF producer, Threads
  <1>8. CASE ConsumerStep
    BY <1>7, <1>8 DEF ConsumerStep, Recheck, CheckIfEmpty, LookAtHead, Peek, PopCell,
                      ReturnCredit, SkipAbandoned, SkipEnds, DrainNext, Return, ring
  <1>9. ASSUME NEW t \in Cursor, RecycleVisible(t)
        PROVE  Threads'
    BY <1>9 DEF RecycleVisible, Threads, producer, consumer
  <1>10. CASE DropConsumer \/ DropRing
    BY <1>10 DEF DropConsumer, DropRing, Threads, producer
  <1>11. CASE CallDrain \/ DropDrain \/ SeeClosed \/ \E o \in {"pop", "peek"} : CallPop(o)
    BY <1>7, <1>11 DEF CallPop, CheckIfEmpty, CallDrain, DropDrain, SeeClosed, Return, ring
  <1>12. ~Close
    BY DEF Close
  <1>13. CASE UNCHANGED vars
    BY <1>13 DEF vars, ring, producer, consumer, Threads
  <1> QED
    BY <1>1, <1>2, <1>3, <1>4, <1>5, <1>6, <1>8, <1>9, <1>10, <1>11, <1>12, <1>13
    DEF Next, ProgramStep, ProducerStep

\* The head of a ring that nobody is filling, when it is neither published nor
\* abandoned, is the tail.
LEMMA NothingPending ==
    ASSUME CellInv, cpc = "look", ~HeadPublished, ~HeadAbandoned,
           \A p \in Producers : ppc[p] = "idle"
    PROVE  InRing = 0
  <1>1. /\ TypeOK /\ NoOvercommit /\ CreditsAddUp /\ CellState
        /\ \A p \in Producers : ~(left[p] > 0)
    BY DEF CellInv, IndInv, Cells, Runs, Run
  <1>2. head \in Cursor /\ head \in Lap /\ WSub(tail, head) \in Nat /\ WSub(head, head) = 0
    BY <1>1, Numbers, HeadInLap, LapArith
  <1>3. Pending(head)
    BY <1>1, <1>2 DEF CellState, Settled, HeadPublished, HeadAbandoned, HeadSeq
  <1>4. ~Taken(head)
    BY <1>1, <1>3 DEF Pending, Owns
  <1> QED BY <1>2, <1>4 DEF Taken, InRing

\* The head that is popped or skipped was in the ring, which shrinks by one.
LEMMA HeadLeaves ==
    ASSUME CellInv, UNCHANGED tail, head' = WAdd(head, 1), ~Pending(head)
    PROVE  InRing \in Nat /\ InRing > 0 /\ InRing' = InRing - 1
  <1>1. /\ head \in Cursor /\ tail \in Cursor /\ WSub(tail, head) \in Nat
        /\ WSub(head, head) = 0 /\ Taken(head)
    BY Numbers, LapArith DEF CellInv, IndInv, Pending
  <1>2. WSub(tail, head) > 0
    BY <1>1 DEF Taken
  <1>3. WSub(tail, WAdd(head, 1)) = WSub(tail, head) - 1
    BY <1>1, <1>2, AdvanceFront
  <1> QED BY <1>1, <1>2, <1>3 DEF InRing

LEMMA AnswersStay ==
    ASSUME CellInv, Threads, Answers, ~ExplicitClose, [Next]_vars
    PROVE  Answers'
  <1>a. TypeOK /\ CallState
    BY DEF CellInv, IndInv
  <1>1. CASE UNCHANGED <<head, tail, cpc, op, outcome, remaining, sawClosed>>
    BY <1>1 DEF Answers, FoundNothing, InRing
  <1>2. ASSUME NEW p \in Producers, TakeTickets(p)
        PROVE  Answers'
    <2>1. ppc[p] = "ticket" /\ UNCHANGED <<cpc, op, outcome, sawClosed>>
      BY <1>2 DEF TakeTickets, consumer
    <2>2. sawClosed => op = "pop" /\ outcome = "none"
      BY <2>1 DEF Threads, Answers
    <2> QED BY <2>1, <2>2 DEF Answers, FoundNothing
  <1>3. ASSUME NEW p \in Producers, ProducerStep(p), ~TakeTickets(p)
        PROVE  Answers'
    BY <1>1, <1>3 DEF ProducerStep, LoadTickets, TakeCredits, Refund, AwaitSlot, Publish,
                      Abandon, CloseLast, consumer, ring
  <1>4. ASSUME NEW o \in {"pop", "peek"}, CheckIfEmpty(o)
        PROVE  Answers'
    <2>1. /\ UNCHANGED <<head, tail, sawClosed>>
          /\ \/ Return("Empty") /\ head = TailSeen
             \/ cpc' = "look" /\ op' = o /\ outcome' = "none"
      BY <1>4 DEF CheckIfEmpty, ring
    <2>2. head = TailSeen => WSub(tail, head) = 0
      BY <1>a, LapArith DEF TailSeen, TypeOK
    <2> QED BY <2>1, <2>2 DEF Return, Answers, FoundNothing, InRing
  <1>5. CASE Recheck
    <2>1. op \in {"pop", "peek"} /\ CheckIfEmpty(op)
      BY <1>a, <1>5 DEF Recheck, CallState, TypeOK
    <2> QED BY <1>4, <2>1
  <1>6. CASE CallDrain
    BY <1>6 DEF CallDrain, Answers, FoundNothing, InRing, ring
  <1>7. CASE DrainNext
    BY <1>a, <1>7 DEF DrainNext, Return, Answers, FoundNothing, InRing, CallState, ring
  <1>8. CASE LookAtHead
    <2>1. CASE cpc' = "idle"
      <3>1. /\ Return("Busy") /\ UNCHANGED <<head, tail, sawClosed>>
            /\ cpc = "look" /\ ~HeadPublished /\ ~HeadAbandoned
        BY <1>8, <2>1 DEF LookAtHead, ring
      <3>2. sawClosed => InRing = 0
        BY <3>1, NothingPending DEF Threads
      <3> QED BY <3>1, <3>2 DEF Return, Answers, FoundNothing, InRing
    <2>2. CASE cpc' # "idle"
      BY <1>8, <2>2 DEF LookAtHead, Return, Answers, FoundNothing, InRing, ring
    <2> QED BY <2>1, <2>2
  <1>9. CASE ReturnCredit
    <2>1. ~Pending(head) /\ cpc = "credit"
      BY <1>9 DEF ReturnCredit, CellInv, Cells, HeadState
    <2>2. InRing' = InRing - 1
      BY <1>9, <2>1, HeadLeaves DEF ReturnCredit
    <2> QED BY <1>9, <2>1, <2>2 DEF ReturnCredit, Return, Answers, FoundNothing
  <1>10. CASE SkipAbandoned
    <2>1. ~Pending(head) /\ cpc = "skip"
      BY <1>10, HeadIs DEF SkipAbandoned
    <2>2. InRing \in Nat /\ InRing > 0 /\ InRing' = InRing - 1
      BY <1>10, <2>1, HeadLeaves DEF SkipAbandoned
    <2> QED BY <1>10, <2>1, <2>2 DEF SkipAbandoned, Answers, FoundNothing
  <1>11. CASE Peek \/ DropDrain \/ SeeClosed \/ DropConsumer
    BY <1>11 DEF Peek, DropDrain, SeeClosed, DropConsumer, Return, Answers, FoundNothing, InRing,
                 ring
  <1>12. CASE PopCell \/ SkipEnds \/ DropRing
    BY <1>12 DEF PopCell, SkipEnds, DropRing, Answers, FoundNothing, InRing, ring
  <1>13. ASSUME NEW t \in Cursor, RecycleVisible(t)
         PROVE  Answers'
    BY <1>1, <1>13 DEF RecycleVisible, consumer
  <1>14. ASSUME NEW p \in Producers,
                \/ \E k \in {"push", "iter"} : StartCall(p, k)
                \/ EndEarly(p)
                \/ DropProducer(p)
                \/ \E q \in Producers : Clone(p, q)
         PROVE  Answers'
    BY <1>1, <1>14 DEF StartCall, EndEarly, DropProducer, Clone, consumer, ring
  <1>15. ~Close
    BY DEF Close
  <1>16. CASE UNCHANGED vars
    BY <1>1, <1>16 DEF vars, consumer, ring
  <1>17. CASE ConsumerStep
    BY <1>5, <1>7, <1>8, <1>9, <1>10, <1>11, <1>12, <1>17 DEF ConsumerStep
  <1>18. CASE ProgramStep
    BY <1>4, <1>6, <1>11, <1>12, <1>14, <1>15, <1>18 DEF ProgramStep, CallPop
  <1> QED BY <1>2, <1>3, <1>13, <1>16, <1>17, <1>18 DEF Next

LEMMA NoneIsFinal == CellInv /\ Threads /\ Answers => FinalNone
  <1> SUFFICES ASSUME CellInv, Threads, Answers, FoundNothing PROVE NothingToCome
    BY DEF FinalNone
  <1>1. cpc = "idle" /\ InRing = 0
    BY DEF Answers, FoundNothing
  <1>2. handle = {} /\ \A p \in Producers : ppc[p] = "idle"
    BY <1>1 DEF Threads, FoundNothing
  <1>3. /\ TypeOK /\ NoOvercommit /\ CreditsAddUp /\ CellState
        /\ head \in Cursor /\ N \in Nat
    BY <1>1, Numbers DEF CellInv, IndInv, Cells
  <1>4. ASSUME NEW s \in Slots PROVE data[s] = Uninit
    <2>1. PICK i \in 0 .. N - 1 : Slot(WAdd(head, i)) = s
      BY <1>3, SlotsCovered
    <2>2. WAdd(head, i) \in Lap /\ ~Taken(WAdd(head, i))
      BY <1>1, <1>3, Bounds DEF Lap, Taken, InRing, Cursor, WAdd, WSub
    <2>3. Blank(WAdd(head, i))
      BY <1>3, <2>2 DEF CellState, Pending
    <2> QED BY <2>1, <2>3 DEF Blank
  <1> QED BY <1>1, <1>2, <1>4 DEF NothingToCome

\* FinalNone: when handles are only dropped, a pop or a drain that comes back
\* empty-handed after is_closed() has found an empty ring, and no push is left.
THEOREM MpscFinalNone == ASSUME ~ExplicitClose PROVE Spec => []FinalNone
  <1>1. Init => Threads /\ Answers
    BY DEF Init, Threads, Answers, FoundNothing
  <1>2. CellInv /\ Threads /\ Answers /\ [Next]_vars => Threads' /\ Answers'
    BY ThreadsStay, AnswersStay DEF CellInv, IndInv
  <1>3. Spec => [](Threads /\ Answers)
    BY <1>1, <1>2, MpscCellInv, PTL DEF Spec
  <1> QED BY <1>3, NoneIsFinal, MpscCellInv, PTL

------------------------------------------------------------------------------
(* The ring as the queue of TicketFifo.                                       *)

\* What F substitutes for the queue, and its length.
Queue == IF cpc = "freed" THEN << >>
         ELSE [i \in 1 .. WSub(tail, FirstTicket) |-> Entry(WAdd(FirstTicket, i - 1))]
Size  == WSub(tail, FirstTicket)

Entries == {F!Open(p) : p \in Producers} \cup {F!Item(v) : v \in Values} \cup {F!Hole}

\* The tickets that are entries of the queue.
Queued(t) == t \in Lap /\ Taken(t) /\ ~(cpc = "credit" /\ t = head)

\* The queue, entry by entry, and what an entry says of its ticket.
QueueShape ==
    /\ FirstTicket \in Cursor /\ Size \in 0 .. N
    /\ Queue \in Seq(Entries) /\ Len(Queue) = Size
    /\ \A j \in 1 .. Size : \A t \in Cursor :
          t = WAdd(FirstTicket, j - 1) => Queue[j] = Entry(t) /\ Queued(t)

EntryState ==
    \A t \in Cursor : Queued(t) =>
       /\ \A p \in Producers : Owns(p, t) => Entry(t) = F!Open(p)
       /\ ~Pending(t) => Settled(t)

\* The tickets of a run are those its producer holds.
LEMMA HoldsIs ==
    ASSUME TypeOK, NEW p \in Producers, NEW t \in Cursor
    PROVE  t \in Holds(p) <=> Owns(p, t)
  <1> DEFINE a == pos[p]
             k == left[p]
  <1>1. a \in Cursor /\ k \in 0 .. N
    BY DEF TypeOK
  <1> HIDE DEF a, k
  <1>2. Window(a, WAdd(a, k)) = {WAdd(a, i) : i \in 0 .. k - 1}
    BY <1>1, WindowIs
  <1>3. ASSUME NEW i \in 0 .. k - 1, t = WAdd(a, i)
        PROVE  k > 0 /\ WSub(t, a) < k
    BY <1>1, <1>3, Bounds DEF Cursor, WAdd, WSub
  <1>4. ASSUME k > 0, WSub(t, a) < k
        PROVE  \E i \in 0 .. k - 1 : t = WAdd(a, i)
    <2>1. WSub(t, a) \in 0 .. k - 1 /\ t = WAdd(a, WSub(t, a))
      BY <1>1, <1>4, Bounds DEF Cursor, WAdd, WSub
    <2> QED BY <2>1
  <1>5. Holds(p) = Window(a, WAdd(a, k)) /\ (Owns(p, t) <=> k > 0 /\ WSub(t, a) < k)
    BY DEF Holds, Owns, a, k
  <1> QED BY <1>2, <1>3, <1>4, <1>5

\* The entries of the tickets in the ring.
LEMMA EntriesAre == CellInv => (cpc # "freed" => EntryState)
  <1> SUFFICES ASSUME CellInv, cpc # "freed", NEW t \in Cursor, Queued(t)
               PROVE  /\ \A p \in Producers : Owns(p, t) => Entry(t) = F!Open(p)
                      /\ ~Pending(t) => Settled(t)
    BY DEF EntryState
  <1>1. TypeOK /\ CellState /\ Runs /\ t \in Lap
    BY DEF CellInv, IndInv, Cells, Queued
  <1>2. ASSUME NEW p \in Producers, Owns(p, t) PROVE Entry(t) = F!Open(p)
    <2>1. Blank(t)
      BY <1>1, <1>2 DEF CellState, Pending
    <2>2. seq[Slot(t)] # WAdd(t, 1) /\ seq[Slot(t)] # WAdd(t, N)
      BY <2>1, LapArith DEF Blank
    <2>3. \A q \in Producers : t \in Holds(q) <=> q = p
      BY <1>1, <1>2, HoldsIs DEF Runs
    <2>4. (CHOOSE q \in Producers : t \in Holds(q)) = p
      BY <2>3
    <2> QED BY <2>2, <2>4 DEF Entry, F!Open
  <1>3. ~Pending(t) => Settled(t)
    BY <1>1 DEF CellState, Queued
  <1> QED BY <1>2, <1>3

\* A settled ticket's entry.
LEMMA SettledEntry ==
    ASSUME NEW t \in Cursor, Settled(t)
    PROVE  \/ /\ seq[Slot(t)] = WAdd(t, 1) /\ data[Slot(t)] \in Values
              /\ Entry(t) = F!Item(data[Slot(t)])
           \/ seq[Slot(t)] = WAdd(t, N) /\ Entry(t) = F!Hole
  BY LapArith DEF Settled, Entry, F!Item, F!Hole

LEMMA QueueIs == CellInv => (cpc # "freed" => QueueShape)
  <1> SUFFICES ASSUME CellInv, cpc # "freed" PROVE QueueShape
    OBVIOUS
  <1>1. /\ TypeOK /\ head \in Cursor /\ tail \in Cursor /\ WSub(tail, head) \in Nat
        /\ WSub(tail, head) <= N /\ EntryState
    BY Numbers, EntriesAre DEF CellInv, IndInv
  <1>2. /\ FirstTicket \in Cursor /\ Size \in 0 .. N
        /\ cpc = "credit" => FirstTicket = WAdd(head, 1) /\ Size = WSub(tail, head) - 1
        /\ cpc # "credit" => FirstTicket = head /\ Size = WSub(tail, head)
    <2>1. CASE cpc = "credit"
      <3>1. ~Pending(head)
        BY <2>1 DEF CellInv, Cells, HeadState
      <3>2. WSub(tail, head) > 0
        BY <1>1, <3>1, LapArith DEF Pending, Taken
      <3>3. WAdd(head, 1) \in Cursor /\ WSub(tail, WAdd(head, 1)) = WSub(tail, head) - 1
        BY <1>1, <3>2, AdvanceFront, LapArith
      <3> QED BY <1>1, <2>1, <3>2, <3>3, Bounds DEF FirstTicket, Size
    <2>2. CASE cpc # "credit"
      BY <1>1, <2>2, Bounds DEF FirstTicket, Size
    <2> QED BY <2>1, <2>2
  <1>3. ASSUME NEW j \in 1 .. Size
        PROVE  \E t \in Cursor : t = WAdd(FirstTicket, j - 1) /\ Queued(t)
    <2>1. CASE cpc = "credit"
      <3>1. /\ WAdd(WAdd(head, 1), j - 1) \in Cursor
            /\ WSub(WAdd(WAdd(head, 1), j - 1), head) = j
        BY <1>1, <1>2, <2>1, Bounds DEF Cursor, WAdd, WSub
      <3>2. PICK t \in Cursor : t = WAdd(WAdd(head, 1), j - 1)
        BY <3>1
      <3>3. WSub(t, head) = j /\ j < WSub(tail, head) /\ j < N /\ j # 0 /\ WSub(head, head) = 0
        <4>1. j \in Nat /\ j >= 1 /\ j <= WSub(tail, head) - 1 /\ N \in Nat
          BY <1>1, <1>2, <2>1, Bounds
        <4> QED BY <1>1, <3>1, <3>2, <4>1, LapArith
      <3> QED BY <1>2, <2>1, <3>2, <3>3 DEF Queued, Lap, Taken
    <2>2. CASE cpc # "credit"
      <3>1. WAdd(head, j - 1) \in Cursor /\ WSub(WAdd(head, j - 1), head) = j - 1
        BY <1>1, <1>2, <2>2, Bounds DEF Cursor, WAdd, WSub
      <3>2. PICK t \in Cursor : t = WAdd(head, j - 1)
        BY <3>1
      <3>3. WSub(t, head) = j - 1 /\ j - 1 < WSub(tail, head) /\ j - 1 < N
        <4>1. j \in Nat /\ j >= 1 /\ j <= WSub(tail, head) /\ N \in Nat
          BY <1>1, <1>2, <2>2, Bounds
        <4> QED BY <1>1, <3>1, <3>2, <4>1
      <3> QED BY <1>2, <2>2, <3>2, <3>3 DEF Queued, Lap, Taken
    <2> QED BY <2>1, <2>2
  <1>4. \A t \in Cursor : Queued(t) => Entry(t) \in Entries
    <2> SUFFICES ASSUME NEW t \in Cursor, Queued(t) PROVE Entry(t) \in Entries
      OBVIOUS
    <2>1. CASE Pending(t)
      <3>1. PICK p \in Producers : Owns(p, t)
        BY <2>1 DEF Pending, Queued
      <3> QED BY <1>1, <3>1 DEF EntryState, Entries
    <2>2. CASE ~Pending(t)
      BY <1>1, <2>2, SettledEntry DEF EntryState, Entries
    <2> QED BY <2>1, <2>2
  <1>5. Queue = [i \in 1 .. Size |-> Entry(WAdd(FirstTicket, i - 1))]
    BY DEF Queue, Size
  <1>6. \A j \in 1 .. Size : Queue[j] = Entry(WAdd(FirstTicket, j - 1)) /\ Queue[j] \in Entries
    BY <1>3, <1>4, <1>5
  <1>7. Queue \in Seq(Entries) /\ Len(Queue) = Size
    <2>1. Size \in Nat /\ Queue \in [1 .. Size -> Entries]
      BY <1>2, <1>5, <1>6
    <2> HIDE DEF Queue, Size
    <2> QED BY <2>1
  <1> QED BY <1>2, <1>3, <1>6, <1>7 DEF QueueShape

\* The shape of the queue before and after a step that does not free the ring.
LEMMA Shapes ==
    ASSUME CellInv, CellInv', cpc # "freed", cpc' # "freed"
    PROVE  QueueShape /\ EntryState /\ QueueShape' /\ EntryState'
  <1>1. (CellInv => (cpc # "freed" => QueueShape))'
    BY QueueIs, PTL
  <1>2. (CellInv => (cpc # "freed" => EntryState))'
    BY EntriesAre, PTL
  <1> QED BY <1>1, <1>2, QueueIs, EntriesAre

\* A ticket whose cell and owner are what they were keeps its entry; one that
\* is owned before and after needs no look at its cell.
LEMMA EntryKept ==
    ASSUME EntryState, EntryState', NEW t \in Cursor, Queued(t), Queued(t)',
           \A p \in Producers : Owns(p, t)' <=> Owns(p, t),
           \/ \E p \in Producers : Owns(p, t)
           \/ seq'[Slot(t)] = seq[Slot(t)] /\ data'[Slot(t)] = data[Slot(t)]
    PROVE  Entry(t)' = Entry(t)
  <1>1. CASE \E p \in Producers : Owns(p, t)
    BY <1>1 DEF EntryState
  <1>2. CASE ~\E p \in Producers : Owns(p, t)
    <2>1. Settled(t)
      BY <1>2 DEF EntryState, Pending, Queued
    <2> QED BY <1>2, <2>1, LapArith DEF Settled, Entry
  <1> QED BY <1>1, <1>2

\* The same tickets with the same entries are the same queue.
LEMMA SameQueue ==
    ASSUME QueueShape, QueueShape', FirstTicket' = FirstTicket, tail' = tail,
           \A t \in Cursor : Queued(t) /\ Queued(t)' => Entry(t)' = Entry(t)
    PROVE  Queue' = Queue
  <1>1. /\ Queue \in Seq(Entries) /\ Queue' \in Seq(Entries)
        /\ Len(Queue) = Size /\ Len(Queue') = Size /\ Size \in 0 .. N
        /\ FirstTicket \in Cursor /\ Size' = Size
    BY DEF QueueShape, Size, Entries
  <1>2. ASSUME NEW j \in 1 .. Size PROVE Queue'[j] = Queue[j]
    <2>1. WAdd(FirstTicket, j - 1) \in Cursor
      <3>1. j - 1 \in 0 .. W
        BY <1>1, Bounds
      <3> QED BY <1>1, <3>1, CursorArith
    <2>2. PICK t \in Cursor : t = WAdd(FirstTicket, j - 1)
      BY <2>1
    <2>3. Queue[j] = Entry(t) /\ Queued(t)
      BY <2>2 DEF QueueShape
    <2>4. Queue'[j] = Entry(t)' /\ Queued(t)'
      BY <1>1, <2>2 DEF QueueShape
    <2> QED BY <2>3, <2>4
  <1> QED BY <1>1, <1>2, SeqEqual

\* The entries of p that are open are those of its run.
LEMMA OpenAtIs ==
    ASSUME CellInv, cpc # "freed", NEW p \in Producers
    PROVE  F!OpenAt(p) = {j \in 1 .. Size : Owns(p, WAdd(FirstTicket, j - 1))}
  <1>1. QueueShape /\ EntryState /\ TypeOK
    BY QueueIs, EntriesAre DEF CellInv, IndInv
  <1>2. F!OpenAt(p) = {j \in DOMAIN Queue : Queue[j] = F!Open(p)}
    BY DEF F!OpenAt, Queue
  <1>3. DOMAIN Queue = 1 .. Size
    <2>1. Queue \in Seq(Entries) /\ Len(Queue) = Size
      BY <1>1 DEF QueueShape
    <2> QED BY <2>1, LenProperties
  <1>4. ASSUME NEW j \in 1 .. Size
        PROVE  Queue[j] = F!Open(p) <=> Owns(p, WAdd(FirstTicket, j - 1))
    <2>1. WAdd(FirstTicket, j - 1) \in Cursor
      <3>1. FirstTicket \in Cursor /\ Size \in 0 .. N
        BY <1>1 DEF QueueShape
      <3> QED BY <3>1, Bounds, CursorArith
    <2>2. PICK t \in Cursor : t = WAdd(FirstTicket, j - 1)
      BY <2>1
    <2>3. Queue[j] = Entry(t) /\ Queued(t)
      BY <1>1, <2>2 DEF QueueShape
    <2>4. CASE Pending(t)
      <3>1. PICK q \in Producers : Owns(q, t)
        BY <2>3, <2>4 DEF Pending, Queued
      <3>2. Entry(t) = F!Open(q) /\ (Owns(p, t) => Entry(t) = F!Open(p))
        BY <1>1, <2>3, <3>1 DEF EntryState
      <3>3. F!Open(q) = F!Open(p) => q = p
        BY DEF F!Open
      <3> QED BY <2>2, <2>3, <3>1, <3>2, <3>3
    <2>5. CASE ~Pending(t)
      <3>1. ~Owns(p, t) /\ Settled(t)
        BY <1>1, <2>3, <2>5 DEF EntryState, Pending
      <3>2. Entry(t) # F!Open(p)
        BY <3>1, SettledEntry DEF F!Open, F!Item, F!Hole
      <3> QED BY <2>2, <2>3, <3>1, <3>2
    <2> QED BY <2>4, <2>5
  <1> QED BY <1>2, <1>3, <1>4

------------------------------------------------------------------------------
(* Each step of the ring is a step of the queue, or none.                     *)

\* A step that leaves the tickets and the cells alone leaves the queue alone.
LEMMA Stutters ==
    ASSUME UNCHANGED <<seq, data, tail, FirstTicket, pos, left, item>>,
           cpc' = "freed" <=> cpc = "freed"
    PROVE  UNCHANGED F!vars
  BY DEF F!vars, Entry, Holds

\* A run of tickets is reserved at the tail.
LEMMA TakeReserves ==
    ASSUME CellInv, CellInv', NEW p \in Producers, TakeTickets(p)
    PROVE  F!Next
  <1> DEFINE g == grant[p]
  <1>1. /\ TypeOK /\ NoOvercommit /\ CreditsAddUp /\ CallState /\ Ended /\ Runs
        /\ Runs' /\ TypeOK'
    BY DEF CellInv, IndInv
  <1>2. /\ ppc[p] = "ticket" /\ UNCHANGED <<seq, data, cpc, head, item>>
        /\ tail' = WAdd(tail, g)
        /\ pos' = [pos EXCEPT ![p] = tail] /\ left' = [left EXCEPT ![p] = g]
        /\ cpc # "freed" /\ cpc' # "freed" /\ FirstTicket' = FirstTicket
        /\ pos'[p] = tail /\ left'[p] = g /\ ~(left[p] > 0)
    BY <1>1 DEF TakeTickets, consumer, Ended, FirstTicket, Runs, Run, TypeOK
  <1>3. QueueShape /\ EntryState /\ QueueShape' /\ EntryState'
    BY <1>2, Shapes
  <1>4. /\ head \in Cursor /\ tail \in Cursor /\ FirstTicket \in Cursor
        /\ g \in Nat /\ g > 0 /\ Size \in 0 .. N /\ Size + g <= N /\ Size' = Size + g
        /\ tail = WAdd(FirstTicket, Size) /\ WSub(tail, head) <= N
    <2>1. /\ head \in Cursor /\ tail \in Cursor /\ FirstTicket \in Cursor
          /\ g \in 0 .. N /\ g > 0 /\ Size \in 0 .. N /\ WSub(tail, head) <= N
      BY <1>1, <1>2, <1>3, Numbers DEF QueueShape, CallState, TakeTickets
    <2>2. Size' = WSub(WAdd(tail, g), FirstTicket)
      BY <1>2 DEF Size
    <2>3. Size' = Size + g
      <3>1. WSub(tail, head) + g < W
        <4>1. WSub(pos'[p], head') + left'[p] <= WSub(tail', head')
          BY <1>1, <1>2, <2>1 DEF Runs, Run
        <4>2. tail' \in Cursor
          BY <1>1 DEF TypeOK
        <4>3. PICK l \in Cursor : l = tail'
          BY <4>2
        <4>4. WSub(l, head) \in Cursor
          <5>1. head \in Cursor /\ 0 \in 0 .. W
            BY <2>1, Bounds
          <5> QED BY <5>1, CursorArith
        <4>5. WSub(tail, head) + g <= WSub(l, head)
          BY <1>2, <4>1, <4>3
        <4>6. WSub(tail, head) \in Cursor
          BY <2>1, Bounds DEF Cursor, WSub
        <4> QED BY <2>1, <4>4, <4>5, <4>6, Bounds DEF Cursor
      <3>2. Size <= WSub(tail, head)
        BY <2>1, Bounds DEF Size, FirstTicket, Cursor, WAdd, WSub
      <3>3. Size + g < W
        BY <2>1, <3>1, <3>2, Bounds DEF Cursor, WSub
      <3> QED BY <2>1, <2>2, <3>3, AdvanceBack DEF Size
    <2>4. Size' <= N
      BY <1>3, <2>1, <2>3, Bounds DEF QueueShape
    <2>5. tail = WAdd(FirstTicket, Size)
      BY <2>1, Bounds DEF Size, Cursor, WAdd, WSub
    <2> QED BY <2>1, <2>3, <2>4, <2>5, Bounds
  <1>5. F!OpenAt(p) = {}
    BY <1>2, OpenAtIs DEF Owns
  <1>6. Queue' = Queue \o [i \in 1 .. g |-> F!Open(p)]
    <2> DEFINE run == [i \in 1 .. g |-> F!Open(p)]
    <2>1. run \in Seq(Entries) /\ Len(run) = g /\ \A i \in 1 .. g : run[i] = F!Open(p)
      BY <1>4 DEF Entries
    <2> HIDE DEF run
    <2>2. /\ Queue \in Seq(Entries) /\ Queue' \in Seq(Entries)
          /\ Len(Queue) = Size /\ Len(Queue') = Size + g
      BY <1>3, <1>4 DEF QueueShape, Entries
    <2>3. /\ Queue \o run \in Seq(Entries) /\ Len(Queue \o run) = Size + g
          /\ \A j \in 1 .. Size + g :
                (Queue \o run)[j] = IF j <= Size THEN Queue[j] ELSE run[j - Size]
      <3>1. Queue \in Seq(Entries) /\ run \in Seq(Entries)
        BY <2>1, <2>2
      <3>2. /\ Queue \o run \in Seq(Entries) /\ Len(Queue \o run) = Len(Queue) + Len(run)
            /\ \A j \in 1 .. Len(Queue) + Len(run) :
                  (Queue \o run)[j] = IF j <= Len(Queue) THEN Queue[j] ELSE run[j - Len(Queue)]
        BY <3>1, ConcatProperties, Zenon
      <3> QED BY <2>1, <2>2, <3>2
    <2>4. ASSUME NEW j \in 1 .. Size + g, j <= Size PROVE Queue'[j] = Queue[j]
      <3>1. j \in 1 .. Size /\ WAdd(FirstTicket, j - 1) \in Cursor
        BY <1>4, <2>4, Bounds, CursorArith
      <3>2. PICK t \in Cursor : t = WAdd(FirstTicket, j - 1)
        BY <3>1
      <3>3. Queue[j] = Entry(t) /\ Queued(t) /\ Queue'[j] = Entry(t)' /\ Queued(t)'
        BY <1>2, <1>3, <1>4, <3>1, <3>2 DEF QueueShape
      <3>4. ~Owns(p, t) /\ ~Owns(p, t)'
        <4>1. WSub(t, tail) >= N
          BY <1>4, <3>3, FromTail DEF Queued, Taken
        <4> QED BY <1>2, <1>4, <4>1, Bounds DEF Owns, Cursor, WSub
      <3>5. \A q \in Producers : Owns(q, t)' <=> Owns(q, t)
        BY <1>1, <1>2, <3>4 DEF Owns, TypeOK
      <3> QED BY <1>2, <1>3, <3>3, <3>5, EntryKept
    <2>5. ASSUME NEW j \in 1 .. Size + g, ~(j <= Size) PROVE Queue'[j] = F!Open(p)
      <3>1. /\ j - 1 \in Nat /\ j - 1 < N /\ j - 1 >= Size /\ j - 1 - Size < g
            /\ WAdd(FirstTicket, j - 1) \in Cursor
        BY <1>4, <2>5, Bounds, CursorArith
      <3>2. PICK t \in Cursor : t = WAdd(FirstTicket, j - 1)
        BY <3>1
      <3>3. Queue'[j] = Entry(t)' /\ Queued(t)'
        BY <1>2, <1>3, <1>4, <3>2 DEF QueueShape
      <3>4. WSub(t, tail) = j - 1 - Size
        BY <1>4, <3>1, <3>2, Bounds DEF Cursor, WAdd, WSub
      <3>5. Owns(p, t)'
        BY <1>2, <1>4, <3>1, <3>4 DEF Owns
      <3> QED BY <1>3, <3>3, <3>5 DEF EntryState
    <2>6. \A j \in 1 .. Size + g : Queue'[j] = (Queue \o run)[j]
      <3> SUFFICES ASSUME NEW j \in 1 .. Size + g PROVE Queue'[j] = (Queue \o run)[j]
        OBVIOUS
      <3>1. CASE j <= Size
        BY <2>3, <2>4, <3>1
      <3>2. CASE ~(j <= Size)
        <4>1. j - Size \in 1 .. g
          BY <1>4, <3>2
        <4> QED BY <2>1, <2>3, <2>5, <3>2, <4>1
      <3> QED BY <3>1, <3>2
    <2>7. Queue' = Queue \o run
      BY <2>2, <2>3, <2>6, SeqEqual
    <2> QED BY <2>7 DEF run
  <1>7. Len(Queue) = Size /\ g \in 1 .. N
    BY <1>3, <1>4, Bounds DEF QueueShape
  <1>8. F!Reserve(p, g)
    BY <1>2, <1>4, <1>5, <1>6, <1>7 DEF F!Reserve, Queue
  <1> QED BY <1>2, <1>7, <1>8 DEF F!Next

\* Where the entry of a ticket is.
LEMMA EntryPlace ==
    ASSUME CellInv, cpc # "freed", NEW t \in Cursor, Queued(t)
    PROVE  \E i \in 1 .. Size : t = WAdd(FirstTicket, i - 1)
  <1>1. /\ head \in Cursor /\ tail \in Cursor /\ FirstTicket \in Cursor /\ Size \in 0 .. N
        /\ WSub(t, head) < WSub(tail, head)
    BY Numbers, QueueIs DEF CellInv, IndInv, QueueShape, Queued, Taken
  <1>2. WSub(t, FirstTicket) < Size
    <2>1. CASE cpc = "credit"
      <3>1. WSub(t, head) > 0
        BY <1>1, <2>1, CursorGap DEF Queued
      <3>2. WSub(tail, head) > 0 /\ WSub(t, head) \in Int /\ WSub(tail, head) \in Int
        BY <1>1, <3>1, Bounds DEF Cursor, WSub
      <3>3. /\ WSub(t, WAdd(head, 1)) = WSub(t, head) - 1
            /\ WSub(tail, WAdd(head, 1)) = WSub(tail, head) - 1
        BY <1>1, <3>1, <3>2, AdvanceFront
      <3> QED BY <1>1, <2>1, <3>2, <3>3 DEF Size, FirstTicket
    <2>2. CASE cpc # "credit"
      BY <1>1, <2>2 DEF Size, FirstTicket
    <2> QED BY <2>1, <2>2
  <1> DEFINE i == WSub(t, FirstTicket) + 1
  <1>3. i \in 1 .. Size /\ t = WAdd(FirstTicket, i - 1)
    BY <1>1, <1>2, Bounds DEF Cursor, WAdd, WSub
  <1> QED BY <1>3

\* Entries of a queue, in order: places apart, and an earlier one is far from
\* a later one.
LEMMA PlacesApart ==
    ASSUME NEW a \in Cursor, NEW i \in 1 .. N, NEW j \in 1 .. N
    PROVE  /\ WAdd(a, i - 1) = WAdd(a, j - 1) => i = j
           /\ j < i => WSub(WAdd(a, j - 1), WAdd(a, i - 1)) > N
  BY Bounds DEF Cursor, WAdd, WSub

\* One ticket less: the others stay where they are.
LEMMA RestOfRun ==
    ASSUME TypeOK, NEW p \in Producers, left[p] > 0,
           pos' = [pos EXCEPT ![p] = IF left[p] = 1 THEN 0 ELSE WAdd(pos[p], 1)],
           left' = [left EXCEPT ![p] = left[p] - 1],
           NEW t \in Cursor, t # pos[p], NEW q \in Producers
    PROVE  Owns(q, t)' <=> Owns(q, t)
  <1>1. CASE q # p
    BY <1>1 DEF Owns, TypeOK
  <1>2. CASE q = p
    <2>1. /\ pos[p] \in Cursor /\ left[p] \in Nat
          /\ pos'[p] = (IF left[p] = 1 THEN 0 ELSE WAdd(pos[p], 1)) /\ left'[p] = left[p] - 1
      BY DEF TypeOK
    <2>2. WSub(t, pos[p]) > 0 /\ WSub(t, pos[p]) \in Nat
      BY <2>1, CursorGap, Bounds DEF Cursor, WSub
    <2>3. WSub(t, WAdd(pos[p], 1)) = WSub(t, pos[p]) - 1
      BY <2>1, <2>2, AdvanceFront
    <2>4. CASE left[p] = 1
      BY <1>2, <2>1, <2>2, <2>4 DEF Owns
    <2>5. CASE left[p] # 1
      BY <1>2, <2>1, <2>2, <2>3, <2>5 DEF Owns
    <2> QED BY <2>4, <2>5
  <1> QED BY <1>1, <1>2

\* What Publish and Abandon do alike: the first ticket of the run of p gets the
\* entry e, and its cell is the only one that changes.
SettlesAs(p, e) ==
    /\ ppc[p] \in {"write", "abandon"} /\ cpc # "freed"
    /\ UNCHANGED <<tail, head, cpc, item>>
    /\ pos' = [pos EXCEPT ![p] = IF left[p] = 1 THEN 0 ELSE WAdd(pos[p], 1)]
    /\ left' = [left EXCEPT ![p] = left[p] - 1]
    /\ \A c \in Slots : c # Slot(pos[p]) => seq'[c] = seq[c] /\ data'[c] = data[c]
    /\ \A t \in Cursor : t = pos[p] => Entry(t)' = e

\* The first ticket of a run is settled.
LEMMA StepSettles ==
    ASSUME CellInv, CellInv', NEW p \in Producers, NEW e, SettlesAs(p, e)
    PROVE  F!Settle(p, e)
  <1>h. /\ ppc[p] \in {"write", "abandon"} /\ cpc # "freed"
        /\ UNCHANGED <<tail, head, cpc, item>>
        /\ pos' = [pos EXCEPT ![p] = IF left[p] = 1 THEN 0 ELSE WAdd(pos[p], 1)]
        /\ left' = [left EXCEPT ![p] = left[p] - 1]
        /\ \A c \in Slots : c # Slot(pos[p]) => seq'[c] = seq[c] /\ data'[c] = data[c]
        /\ \A t \in Cursor : t = pos[p] => Entry(t)' = e
    BY DEF SettlesAs
  <1> USE <1>h
  <1>1. /\ TypeOK /\ NoOvercommit /\ CreditsAddUp /\ Runs /\ Cells
        /\ Run(p) /\ left[p] > 0 /\ FirstTicket' = FirstTicket /\ cpc' # "freed"
        /\ left[p] \in 0 .. N /\ pos[p] \in Cursor /\ head \in Cursor
    BY DEF CellInv, IndInv, Runs, Run, FirstTicket, TypeOK
  <1>2. QueueShape /\ EntryState /\ QueueShape' /\ EntryState' /\ Size' = Size
    BY <1>1, Shapes DEF Size
  <1>3. /\ FirstTicket \in Cursor /\ Size \in 0 .. N
        /\ Queue \in Seq(Entries) /\ Queue' \in Seq(Entries)
        /\ Len(Queue) = Size /\ Len(Queue') = Size
    BY <1>2 DEF QueueShape, Entries
  <1>4. PICK t0 \in Cursor : t0 = pos[p]
    BY <1>1
  <1>5. Owns(p, t0) /\ Queued(t0)
    <2>1. t0 \in Lap /\ Taken(t0) /\ Owns(p, t0) /\ Pending(t0)
      BY <1>1, <1>4, RunFront
    <2> QED BY <1>1, <2>1 DEF Queued, Cells, HeadState
  <1>6. PICK i \in 1 .. Size : t0 = WAdd(FirstTicket, i - 1)
    BY <1>1, <1>5, EntryPlace
  <1>7. i \in F!OpenAt(p)
    BY <1>1, <1>5, <1>6, OpenAtIs
  <1>8. \A j \in F!OpenAt(p) : i <= j
    <2> SUFFICES ASSUME NEW j \in F!OpenAt(p), j < i PROVE FALSE
      BY <1>1, <1>3, <1>6, OpenAtIs
    <2>1. j \in 1 .. Size /\ Owns(p, WAdd(FirstTicket, j - 1))
      BY <1>1, OpenAtIs
    <2>2. WSub(WAdd(FirstTicket, j - 1), t0) > N
      <3>1. i \in 1 .. N /\ j \in 1 .. N
        BY <1>3, <1>6, <2>1, Bounds
      <3> QED BY <1>3, <1>6, <3>1, PlacesApart
    <2>3. WSub(WAdd(FirstTicket, j - 1), t0) < left[p]
      BY <1>4, <2>1 DEF Owns
    <2>4. WSub(WAdd(FirstTicket, j - 1), t0) \in Int
      <3>1. WAdd(FirstTicket, j - 1) \in Int /\ t0 \in Int
        BY <1>3, <2>1, Bounds DEF Cursor, WAdd
      <3> QED BY <3>1, Bounds DEF WSub
    <2> QED BY <1>1, <2>2, <2>3, <2>4, Bounds
  <1>9. Queue' = [Queue EXCEPT ![i] = e]
    <2>1. Queue'[i] = e /\ e \in Entries
      <3>1. Queue'[i] = Entry(t0)'
        BY <1>1, <1>2, <1>6 DEF QueueShape
      <3>2. Queue'[i] \in Entries
        BY <1>3, <1>6, ElementOfSeq
      <3> QED BY <1>4, <3>1, <3>2
    <2>2. ASSUME NEW j \in 1 .. Size, j # i PROVE Queue'[j] = Queue[j]
      <3>1. i \in 1 .. N /\ j \in 1 .. N /\ j - 1 \in 0 .. W
        BY <1>3, <1>6, Bounds
      <3>2. WAdd(FirstTicket, j - 1) \in Cursor
        BY <1>3, <3>1, CursorArith
      <3>3. PICK t \in Cursor : t = WAdd(FirstTicket, j - 1)
        BY <3>2
      <3>4. t # t0
        BY <1>3, <1>6, <2>2, <3>1, <3>3, PlacesApart
      <3>5. Queue[j] = Entry(t) /\ Queued(t) /\ Queue'[j] = Entry(t)' /\ Queued(t)'
        BY <1>1, <1>2, <3>3 DEF QueueShape
      <3>6. Slot(t) \in Slots /\ Slot(t) # Slot(t0)
        BY <1>1, <1>5, <3>4, <3>5, LapApart, LapSlot DEF Queued
      <3>7. \A q \in Producers : Owns(q, t)' <=> Owns(q, t)
        BY <1>1, <1>4, <3>4, RestOfRun
      <3> QED BY <1>2, <1>4, <3>5, <3>6, <3>7, EntryKept
    <2>3. /\ [Queue EXCEPT ![i] = e] \in Seq(Entries)
          /\ Len([Queue EXCEPT ![i] = e]) = Len(Queue)
          /\ \A j \in 1 .. Len(Queue) : [Queue EXCEPT ![i] = e][j] = IF j = i THEN e ELSE Queue[j]
      BY <1>3, <1>6, <2>1, ExceptSeq
    <2> QED BY <1>3, <2>1, <2>2, <2>3, SeqEqual
  <1> QED BY <1>1, <1>7, <1>8, <1>9 DEF F!Settle, Queue

\* The first entry, when the head is taken and settled.
LEMMA HeadEntry ==
    ASSUME CellInv, cpc \notin {"credit", "freed"}, ~Pending(head)
    PROVE  /\ head \in Cursor /\ FirstTicket = head /\ Size \in 1 .. N
           /\ Queue # << >> /\ Head(Queue) = Entry(head)
  <1>1. /\ QueueShape /\ head \in Cursor /\ tail \in Cursor /\ WSub(head, head) = 0
        /\ WSub(tail, head) \in Nat
    BY QueueIs, Numbers, LapArith DEF CellInv, IndInv
  <1>2. FirstTicket = head /\ Size \in 1 .. N
    BY <1>1 DEF FirstTicket, Size, QueueShape, Pending, Taken
  <1>3. WAdd(head, 1 - 1) = head
    BY <1>1, Bounds DEF Cursor, WAdd
  <1>4. Queue \in Seq(Entries) /\ Len(Queue) = Size /\ Queue[1] = Entry(head)
    BY <1>1, <1>2, <1>3 DEF QueueShape
  <1>5. Queue # << >> /\ Head(Queue) = Queue[1]
    BY <1>2, <1>4
  <1> QED BY <1>1, <1>2, <1>4, <1>5

\* The queue of a head that has moved on by one.
LEMMA QueueTail ==
    ASSUME CellInv, CellInv', cpc \notin {"credit", "freed"}, cpc' # "freed", ~Pending(head),
           UNCHANGED <<tail, seq, pos, left>>, FirstTicket' = WAdd(head, 1),
           \A c \in Slots : c # Slot(head) => data'[c] = data[c]
    PROVE  Queue' = Tail(Queue)
  <1>1. /\ QueueShape /\ EntryState /\ QueueShape' /\ EntryState'
        /\ head \in Cursor /\ tail \in Cursor /\ head \in Lap
        /\ FirstTicket = head /\ Size \in 1 .. N /\ Queue # << >>
    BY Shapes, HeadEntry, HeadInLap DEF CellInv, IndInv, TypeOK
  <1>2. Size' = Size - 1
    <2>1. WSub(tail, WAdd(head, 1)) = WSub(tail, head) - 1
      BY <1>1, AdvanceFront DEF Size
    <2> QED BY <1>1, <2>1 DEF Size
  <1>3. /\ Queue \in Seq(Entries) /\ Queue' \in Seq(Entries)
        /\ Len(Queue) = Size /\ Len(Queue') = Size - 1
    BY <1>1, <1>2 DEF QueueShape, Entries
  <1>4. /\ Tail(Queue) \in Seq(Entries) /\ Len(Tail(Queue)) = Size - 1
        /\ \A j \in 1 .. Size - 1 : Tail(Queue)[j] = Queue[j + 1]
    BY <1>1, <1>3, HeadTailProperties
  <1>5. ASSUME NEW j \in 1 .. Size - 1 PROVE Queue'[j] = Queue[j + 1]
    <2>1. /\ j - 1 \in Nat /\ j \in 0 .. W /\ 1 + (j - 1) = j /\ 1 + (j - 1) <= N
          /\ j + 1 \in 1 .. N /\ 1 \in 1 .. N /\ j + 1 \in 1 .. Size /\ (j + 1) - 1 = j
      BY <1>1, Bounds
    <2>2. WAdd(head, j) \in Cursor /\ WAdd(WAdd(head, 1), j - 1) = WAdd(head, j)
      <3>1. WAdd(head, j) \in Cursor
        BY <1>1, <2>1, CursorArith
      <3>2. WAdd(WAdd(head, 1), j - 1) = WAdd(head, 1 + (j - 1))
        BY <1>1, <2>1, AddTwice
      <3> QED BY <2>1, <3>1, <3>2
    <2>3. PICK t \in Cursor : t = WAdd(head, j)
      BY <2>2
    <2>4. Queue[j + 1] = Entry(t) /\ Queued(t)
      BY <1>1, <2>1, <2>3 DEF QueueShape
    <2>5. Queue'[j] = Entry(t)' /\ Queued(t)'
      BY <1>1, <1>2, <2>2, <2>3 DEF QueueShape
    <2>6. t # head
      <3>1. WAdd(head, 1 - 1) = head
        BY <1>1, Bounds DEF Cursor, WAdd
      <3> QED BY <1>1, <2>1, <2>3, <3>1, PlacesApart
    <2>7. Slot(t) \in Slots /\ Slot(t) # Slot(head)
      BY <1>1, <2>4, <2>6, LapApart, LapSlot DEF Queued
    <2>8. \A q \in Producers : Owns(q, t)' <=> Owns(q, t)
      BY DEF Owns
    <2> QED BY <1>1, <2>4, <2>5, <2>7, <2>8, EntryKept
  <1> QED BY <1>3, <1>4, <1>5, SeqEqual

\* A value is moved out, or looked at in place.
LEMMA PopPops == ASSUME CellInv, CellInv', PopCell PROVE F!Next
  <1>1. /\ cpc = "read" /\ cpc' = "credit" /\ item' = data[Slot(head)]
        /\ data' = [data EXCEPT ![Slot(head)] = Uninit]
        /\ UNCHANGED <<tail, seq, pos, left, head>> /\ FirstTicket' = WAdd(head, 1)
    BY DEF PopCell, producer, FirstTicket
  <1>2. ~Pending(head) /\ seq[Slot(head)] = WAdd(head, 1)
    BY <1>1 DEF CellInv, Cells, HeadState
  <1>3. Entry(head) = F!Item(data[Slot(head)])
    <2>1. head \in Cursor
      BY DEF CellInv, IndInv, TypeOK
    <2> QED BY <1>2, <2>1, LapArith DEF Entry, F!Item
  <1>4. Queue # << >> /\ Head(Queue) = F!Item(data[Slot(head)])
    BY <1>1, <1>2, <1>3, HeadEntry
  <1>5. Queue' = Tail(Queue)
    <2>1. \A c \in Slots : c # Slot(head) => data'[c] = data[c]
      BY <1>1 DEF CellInv, IndInv, TypeOK
    <2> QED BY <1>1, <1>2, <2>1, QueueTail
  <1>6. F!Item(data[Slot(head)]).state = "item" /\ F!Item(data[Slot(head)]).value = data[Slot(head)]
    BY DEF F!Item
  <1>7. F!Pop
    BY <1>1, <1>4, <1>5, <1>6 DEF F!Pop, F!Deliver, Queue
  <1> QED BY <1>1, <1>7 DEF F!Next

LEMMA PeekPeeks == ASSUME CellInv, Peek PROVE F!Next
  <1>1. /\ cpc = "read" /\ cpc' = "idle" /\ item' = data[Slot(head)]
        /\ UNCHANGED <<tail, seq, data, pos, left, head>> /\ UNCHANGED FirstTicket
    BY DEF Peek, Return, ring, producer, FirstTicket
  <1>2. ~Pending(head) /\ seq[Slot(head)] = WAdd(head, 1)
    BY <1>1 DEF CellInv, Cells, HeadState
  <1>3. Entry(head) = F!Item(data[Slot(head)])
    <2>1. head \in Cursor
      BY DEF CellInv, IndInv, TypeOK
    <2> QED BY <1>2, <2>1, LapArith DEF Entry, F!Item
  <1>4. Queue # << >> /\ Head(Queue) = F!Item(data[Slot(head)])
    BY <1>1, <1>2, <1>3, HeadEntry
  <1>5. Queue' = Queue
    BY <1>1 DEF Queue, Entry, Holds
  <1>6. F!Item(data[Slot(head)]).state = "item" /\ F!Item(data[Slot(head)]).value = data[Slot(head)]
    BY DEF F!Item
  <1>7. F!Peek
    BY <1>1, <1>4, <1>5, <1>6 DEF F!Peek, F!Deliver, Queue
  <1> QED BY <1>1, <1>7 DEF F!Next

\* A hole is skipped.
LEMMA SkipSkips == ASSUME CellInv, CellInv', SkipAbandoned PROVE F!Next
  <1>1. /\ cpc = "skip" /\ cpc' = "skip" /\ head' = WAdd(head, 1)
        /\ UNCHANGED <<tail, seq, data, pos, left, item>> /\ FirstTicket' = WAdd(head, 1)
        /\ HeadAbandoned
    BY DEF SkipAbandoned, producer, FirstTicket
  <1>2. ~Pending(head) /\ seq[Slot(head)] = WAdd(head, N) /\ head \in Cursor
    BY <1>1, HeadIs DEF HeadAbandoned, HeadSeq, CellInv, IndInv, TypeOK
  <1>3. Entry(head) = F!Hole
    BY <1>2, LapArith DEF Entry, F!Hole
  <1>4. Queue # << >> /\ Head(Queue) = F!Hole
    BY <1>1, <1>2, <1>3, HeadEntry
  <1>5. Queue' = Tail(Queue)
    BY <1>1, <1>2, QueueTail
  <1>6. F!Skip
    BY <1>1, <1>4, <1>5 DEF F!Skip, Queue
  <1> QED BY <1>1, <1>6 DEF F!Next

\* The last handle is dropped.
LEMMA DropDiscards == ASSUME CellInv, DropRing PROVE F!Next
  <1>1. cpc = "gone" /\ cpc' = "freed" /\ item' = item /\ \A p \in Producers : ppc[p] = "idle"
    BY DEF DropRing
  <1>2. \A p \in Producers : ~(left[p] > 0)
    BY <1>1 DEF CellInv, Runs, Run
  <1>3. \A p \in Producers : F!OpenAt(p) = {}
    BY <1>1, <1>2, OpenAtIs DEF Owns
  <1>4. Queue' = << >>
    BY <1>1 DEF Queue
  <1>5. F!Discard
    BY <1>1, <1>3, <1>4 DEF F!Discard, Queue
  <1> QED BY <1>1, <1>5 DEF F!Next

\* A recycle store that becomes visible is in a cell that is not in the queue,
\* or that is owned and still empty.
LEMMA RecycleStutters ==
    ASSUME CellInv, CellInv', NEW t \in Cursor, RecycleVisible(t)
    PROVE  UNCHANGED F!vars
  <1>1. /\ TypeOK /\ t \in recycling /\ seq' = [seq EXCEPT ![Slot(t)] = WAdd(t, N)]
        /\ UNCHANGED <<data, tail, head, cpc, pos, left, item, FirstTicket>>
        /\ cpc # "freed" /\ cpc' # "freed" /\ head \in Cursor
    BY DEF RecycleVisible, producer, consumer, CellInv, IndInv, Ended, FirstTicket, TypeOK
  <1>2. QueueShape /\ EntryState /\ QueueShape' /\ EntryState'
    BY <1>1, Shapes
  <1>3. ASSUME NEW u \in Cursor, Queued(u), Queued(u)' PROVE Entry(u)' = Entry(u)
    <2>1. \A q \in Producers : Owns(q, u)' <=> Owns(q, u)
      BY <1>1 DEF Owns
    <2>2. CASE Slot(u) = Slot(t)
      <3>1. CASE cpc = "credit" /\ t = head
        BY <1>1, <1>3, <2>2, <3>1, HeadInLap, LapApart DEF Queued
      <3>2. CASE WAdd(t, N) \in Lap /\ Pending(WAdd(t, N))
        <4>1. u = WAdd(t, N)
          BY <1>1, <1>3, <2>2, <3>2, SlotLap, LapApart DEF Queued
        <4>2. \E q \in Producers : Owns(q, u)
          BY <1>3, <3>2, <4>1 DEF Pending, Queued
        <4> QED BY <1>2, <1>3, <2>1, <4>2, EntryKept
      <3> QED BY <1>1, <3>1, <3>2 DEF CellInv, Cells, Recycles
    <2>3. CASE Slot(u) # Slot(t)
      <3>1. seq'[Slot(u)] = seq[Slot(u)] /\ data'[Slot(u)] = data[Slot(u)]
        BY <1>1, <2>3, LapSlot DEF TypeOK
      <3> QED BY <1>2, <1>3, <2>1, <3>1, EntryKept
    <2> QED BY <2>2, <2>3
  <1>4. Queue' = Queue
    BY <1>1, <1>2, <1>3, SameQueue
  <1> QED BY <1>1, <1>4 DEF F!vars, Queue

\* A value is published, or its ticket abandoned.
LEMMA PublishSettles ==
    ASSUME CellInv, CellInv', NEW p \in Producers, NEW v \in Values, Publish(p, v)
    PROVE  F!Next
  <1>1. /\ TypeOK /\ pos[p] \in Cursor /\ Slot(pos[p]) \in Slots /\ cpc # "freed"
    BY LapSlot DEF CellInv, IndInv, TypeOK, Ended, Publish
  <1>2. /\ ppc[p] = "write" /\ UNCHANGED <<tail, head, cpc, item>>
        /\ pos' = [pos EXCEPT ![p] = IF left[p] = 1 THEN 0 ELSE WAdd(pos[p], 1)]
        /\ left' = [left EXCEPT ![p] = left[p] - 1]
        /\ \A c \in Slots : c # Slot(pos[p]) => seq'[c] = seq[c] /\ data'[c] = data[c]
        /\ seq'[Slot(pos[p])] = WAdd(pos[p], 1) /\ data'[Slot(pos[p])] = v
    BY <1>1 DEF Publish, NextTicket, consumer, TypeOK
  <1>3. \A t \in Cursor : t = pos[p] => Entry(t)' = F!Item(v)
    BY <1>2, LapArith DEF Entry, F!Item
  <1>4. F!Settle(p, F!Item(v))
    <2>1. SettlesAs(p, F!Item(v))
      BY <1>1, <1>2, <1>3 DEF SettlesAs
    <2> QED BY <2>1, StepSettles
  <1> QED BY <1>1, <1>4 DEF F!Next

LEMMA AbandonSettles ==
    ASSUME CellInv, CellInv', NEW p \in Producers, Abandon(p)
    PROVE  F!Next
  <1>1. /\ TypeOK /\ pos[p] \in Cursor /\ Slot(pos[p]) \in Slots /\ cpc # "freed"
    BY LapSlot DEF CellInv, IndInv, TypeOK, Ended, Abandon
  <1>2. /\ ppc[p] = "abandon" /\ UNCHANGED <<tail, head, cpc, item>>
        /\ pos' = [pos EXCEPT ![p] = IF left[p] = 1 THEN 0 ELSE WAdd(pos[p], 1)]
        /\ left' = [left EXCEPT ![p] = left[p] - 1]
        /\ \A c \in Slots : c # Slot(pos[p]) => seq'[c] = seq[c] /\ data'[c] = data[c]
        /\ seq'[Slot(pos[p])] = WAdd(pos[p], N)
    BY <1>1 DEF Abandon, NextTicket, consumer, TypeOK
  <1>3. \A t \in Cursor : t = pos[p] => Entry(t)' = F!Hole
    BY <1>2, LapArith DEF Entry, F!Hole
  <1>4. F!Settle(p, F!Hole)
    <2>1. SettlesAs(p, F!Hole)
      BY <1>1, <1>2, <1>3 DEF SettlesAs
    <2> QED BY <2>1, StepSettles
  <1> QED BY <1>1, <1>4 DEF F!Next

LEMMA StepRefines == CellInv /\ CellInv' /\ [Next]_vars => [F!Next]_F!vars
  <1> SUFFICES ASSUME CellInv, CellInv', [Next]_vars PROVE F!Next \/ UNCHANGED F!vars
    OBVIOUS
  <1>a. CallState
    BY DEF CellInv, IndInv
  <1>1. ASSUME NEW p \in Producers, ProducerStep(p)
        PROVE  F!Next \/ UNCHANGED F!vars
    <2>1. CASE TakeTickets(p)
      BY <2>1, TakeReserves
    <2>2. CASE \E v \in Values : Publish(p, v)
      BY <2>2, PublishSettles
    <2>3. CASE Abandon(p)
      BY <2>3, AbandonSettles
    <2>4. CASE \/ LoadTickets(p) \/ Refund(p) \/ AwaitSlot(p) \/ CloseLast(p)
               \/ \E k \in 1 .. N : TakeCredits(p, k)
      <3>1. UNCHANGED <<seq, data, tail, head, cpc, pos, left, item>>
        BY <2>4 DEF LoadTickets, Refund, AwaitSlot, CloseLast, TakeCredits, ring, consumer
      <3> QED BY <3>1, Stutters DEF FirstTicket
    <2> QED BY <1>1, <2>1, <2>2, <2>3, <2>4 DEF ProducerStep
  <1>2. CASE ConsumerStep
    <2>1. CASE PopCell
      BY <2>1, PopPops
    <2>2. CASE Peek
      BY <2>2, PeekPeeks
    <2>3. CASE SkipAbandoned
      BY <2>3, SkipSkips
    <2>4. CASE ReturnCredit
      <3>1. /\ UNCHANGED <<seq, data, tail, FirstTicket, pos, left, item>>
            /\ cpc # "freed" /\ cpc' # "freed"
        BY <2>4 DEF ReturnCredit, Return, FirstTicket, producer
      <3> QED BY <3>1, Stutters
    <2>5. CASE Recheck \/ LookAtHead \/ SkipEnds \/ DrainNext
      <3>1. /\ UNCHANGED <<seq, data, tail, head, pos, left, item>>
            /\ cpc \notin {"credit", "freed"} /\ cpc' \notin {"credit", "freed"}
        BY <2>5 DEF Recheck, CheckIfEmpty, LookAtHead, SkipEnds, DrainNext, Return, ring, producer
      <3> QED BY <3>1, Stutters DEF FirstTicket
    <2> QED BY <1>2, <2>1, <2>2, <2>3, <2>4, <2>5 DEF ConsumerStep
  <1>3. ASSUME NEW t \in Cursor, RecycleVisible(t)
        PROVE  F!Next \/ UNCHANGED F!vars
    BY <1>3, RecycleStutters
  <1>4. CASE ProgramStep
    <2>1. CASE DropRing
      BY <2>1, DropDiscards
    <2>2. CASE \/ \E p \in Producers :
                     \/ \E k \in {"push", "iter"} : StartCall(p, k)
                     \/ EndEarly(p)
                     \/ DropProducer(p)
                     \/ \E q \in Producers : Clone(p, q)
               \/ Close
      <3>1. UNCHANGED <<seq, data, tail, head, cpc, pos, left, item>>
        BY <2>2 DEF StartCall, EndEarly, DropProducer, Clone, Close, ring, producer, consumer
      <3> QED BY <3>1, Stutters DEF FirstTicket
    <2>3. CASE \/ \E o \in {"pop", "peek"} : CallPop(o)
               \/ CallDrain \/ DropDrain \/ SeeClosed \/ DropConsumer
      <3>1. /\ UNCHANGED <<seq, data, tail, head, pos, left, item>>
            /\ cpc \notin {"credit", "freed"} /\ cpc' \notin {"credit", "freed"}
        BY <2>3 DEF CallPop, CheckIfEmpty, CallDrain, DropDrain, SeeClosed, DropConsumer, Return,
                    ring, producer
      <3> QED BY <3>1, Stutters DEF FirstTicket
    <2> QED BY <1>4, <2>1, <2>2, <2>3 DEF ProgramStep
  <1>5. CASE UNCHANGED vars
    <2>1. UNCHANGED <<seq, data, tail, head, cpc, pos, left, item>>
      BY <1>5 DEF vars, ring, producer, consumer
    <2> QED BY <2>1, Stutters DEF FirstTicket
  <1> QED BY <1>1, <1>2, <1>3, <1>4, <1>5 DEF Next

LEMMA InitRefines == Init => F!Init
  <1> SUFFICES ASSUME Init PROVE F!Init
    OBVIOUS
  <1>1. cpc = "idle" /\ item = Uninit /\ tail = 0 /\ FirstTicket = 0
    BY DEF Init, FirstTicket
  <1>2. WSub(tail, FirstTicket) = 0
    BY <1>1, Bounds DEF WSub
  <1>3. Queue = [i \in 1 .. 0 |-> Entry(WAdd(FirstTicket, i - 1))]
    BY <1>1, <1>2 DEF Queue
  <1>4. Queue = << >>
    BY <1>3
  <1> QED BY <1>1, <1>4 DEF F!Init, Queue

\* Fifo: the ring, with its credits, tickets, cells and late recycle stores, is
\* the bounded queue of TicketFifo: runs are contiguous, values come out once
\* and in the order of the tickets, and a hole is skipped.
THEOREM MpscImplementsTicketFifo == Spec => Fifo
  <1>1. Spec => F!Init /\ [][F!Next]_F!vars
    BY InitRefines, StepRefines, MpscCellInv, PTL DEF Spec
  <1> QED BY <1>1 DEF Fifo, F!Spec

==============================================================================
