----------------------------- MODULE CursorProofs -----------------------------
(* The arithmetic of free-running cursors and of their slots, for every       *)
(* capacity and width: what the proofs about both channels rest on.           *)
EXTENDS Cursors, Integers, TLAPS

\* The bounds on the constants, without the divisibility.
LEMMA Bounds == N \in Nat /\ N >= 2 /\ W \in Nat /\ W >= 2 * N
  BY CursorAssumption

\* Cursor arithmetic: WAdd stays in range, WSub is a distance.
LEMMA CursorArith ==
    ASSUME NEW a \in Cursor, NEW b \in Cursor, NEW k \in 0 .. W
    PROVE  /\ WAdd(a, k) \in Cursor /\ WSub(a, b) \in Cursor
           /\ WSub(a, a) = 0
  BY Bounds DEF Cursor, WAdd, WSub

\* Distinct cursors are a positive distance apart.
LEMMA CursorGap ==
    ASSUME NEW a \in Cursor, NEW b \in Cursor, a # b
    PROVE  WSub(b, a) > 0
  BY Bounds DEF Cursor, WSub

\* Advancing the front of a window shortens it ...
LEMMA AdvanceFront ==
    ASSUME NEW a \in Cursor, NEW b \in Cursor, NEW k \in Nat, k <= WSub(b, a)
    PROVE  WSub(b, WAdd(a, k)) = WSub(b, a) - k
  BY Bounds DEF Cursor, WAdd, WSub

\* ... and advancing its back lengthens it.
LEMMA AdvanceBack ==
    ASSUME NEW a \in Cursor, NEW b \in Cursor, NEW k \in Nat, WSub(b, a) + k < W
    PROVE  WSub(WAdd(b, k), a) = WSub(b, a) + k
  BY Bounds DEF Cursor, WAdd, WSub

\* A slot index is in bounds (invariant 1 of the source).
LEMMA SlotType == \A a \in Nat : Slot(a) \in Slots
  BY CursorAssumption, Bounds DEF Slot, Slots

\* A multiple of N that is closer to 0 than N is 0.
LEMMA SmallMultiple ==
    ASSUME NEW z \in Int, NEW n \in Nat, n > 0, -n < n * z, n * z < n
    PROVE  z = 0
  <1>1. CASE z >= 1
    <2>1. n * z >= n
      BY <1>1
    <2> QED BY <2>1
  <1>2. CASE z <= -1
    <2>1. n * z <= -n
      BY <1>2
    <2> QED BY <2>1
  <1> QED BY <1>1, <1>2

\* Quotient and remainder.
LEMMA DivMod ==
    ASSUME NEW x \in Nat, NEW n \in Nat, n > 0
    PROVE  \E q \in Nat : x = n * q + (x % n)
  <1> DEFINE q == x \div n
  <1>1. q \in Nat /\ x = n * q + (x % n)
    OBVIOUS
  <1> HIDE DEF q
  <1> QED BY <1>1

\* The capacity divides the range of the cursors.
LEMMA WidthIsMultiple == \E m \in Nat : W = N * m
  <1>n. N \in Nat /\ N > 0 /\ W \in Nat
    BY Bounds
  <1>1. PICK m \in Nat : W = N * m + (W % N)
    BY <1>n, DivMod, Zenon
  <1>2. N * m \in Nat /\ W % N = 0
    BY Bounds, CursorAssumption
  <1> QED BY <1>1, <1>2

\* Cursors less than N apart have slots of their own, also across the wrap.
LEMMA SlotsApart ==
    ASSUME NEW a \in Cursor, NEW i \in 0 .. N - 1, NEW j \in 0 .. N - 1,
           Slot(WAdd(a, i)) = Slot(WAdd(a, j))
    PROVE  i = j
  <1> DEFINE t == WAdd(a, i)
             u == WAdd(a, j)
  <1>n. N \in Nat /\ N > 0
    BY Bounds
  <1>1. PICK m \in Nat : W = N * m
    BY WidthIsMultiple
  <1>2. /\ t \in Nat /\ (t = a + i \/ t = a + i - N * m)
        /\ u \in Nat /\ (u = a + j \/ u = a + j - N * m)
    BY <1>1, Bounds DEF WAdd, Cursor
  <1>3. PICK p \in Nat : t = N * p + (t % N)
    <2> HIDE DEF t
    <2> QED BY <1>2, <1>n, DivMod, Zenon
  <1>4. PICK q \in Nat : u = N * q + (u % N)
    <2> HIDE DEF u
    <2> QED BY <1>2, <1>n, DivMod, Zenon
  <1>5. t - u = N * (p - q)
    <2>1. t % N = u % N /\ t % N \in Int
      BY <1>2, Bounds DEF Slot
    <2>2. t - u = N * p - N * q
      BY <1>2, <1>3, <1>4, <2>1, Bounds
    <2>3. N * (p - q) = N * p - N * q
      BY Bounds
    <2> QED BY <2>2, <2>3
  <1>6. PICK c \in Int : i - j = N * (p - q) + N * (c * m)
    <2>1. N * m \in Nat /\ a \in Nat /\ i \in Nat /\ j \in Nat
      BY <1>1, Bounds DEF Cursor
    <2>2. PICK c \in {-1, 0, 1} : i - j = t - u + c * (N * m)
      <3> DEFINE w == N * m
      <3>1. w \in Nat /\ (t = a + i \/ t = a + i - w) /\ (u = a + j \/ u = a + j - w)
        BY <1>2, <2>1
      <3> HIDE DEF w, t, u
      <3>2. i - j = t - u + 0 * w \/ i - j = t - u + 1 * w \/ i - j = t - u + (-1) * w
        BY <2>1, <3>1
      <3> QED BY <3>2 DEF w
    <2>3. c * (N * m) = N * (c * m) /\ c \in Int
      BY <2>2, Bounds
    <2> QED BY <1>5, <2>2, <2>3
  <1>7. N * (p - q) + N * (c * m) = N * (p - q + c * m) /\ p - q + c * m \in Int
    BY <1>1, <1>6, Bounds
  <1>8. p - q + c * m = 0
    <2> DEFINE z == p - q + c * m
    <2>1. z \in Int /\ i - j = N * z
      BY <1>6, <1>7
    <2>2. -N < N * z /\ N * z < N
      BY <2>1, Bounds
    <2> HIDE DEF z
    <2>3. z = 0
      BY <2>1, <2>2, SmallMultiple, Bounds
    <2> QED BY <2>3 DEF z
  <1>9. i - j = 0
    BY <1>6, <1>7, <1>8, Bounds
  <1> QED BY <1>9

\* Two advances are one.
LEMMA AddTwice ==
    ASSUME NEW a \in Cursor, NEW k \in Nat, NEW i \in Nat, k + i <= N
    PROVE  WAdd(WAdd(a, k), i) = WAdd(a, k + i)
  BY Bounds DEF Cursor, WAdd

\* A window that was given by its length.
LEMMA WindowIs ==
    ASSUME NEW a \in Cursor, NEW k \in 0 .. N
    PROVE  Window(a, WAdd(a, k)) = {WAdd(a, i) : i \in 0 .. k - 1}
  <1>1. WSub(WAdd(a, k), a) = k
    BY Bounds DEF Cursor, WAdd, WSub
  <1>2. {j \in 0 .. W - 1 : j < k} = 0 .. k - 1
    BY Bounds
  <1> QED BY <1>1, <1>2 DEF Window

\* The back of a window, counted from its front.
LEMMA FromFront ==
    ASSUME NEW a \in Cursor, NEW b \in Cursor, NEW k \in Nat, WSub(b, a) + k <= N
    PROVE  WAdd(b, k) = WAdd(a, WSub(b, a) + k)
  BY Bounds DEF Cursor, WAdd, WSub

\* The remainder is the only one.
LEMMA ModIs ==
    ASSUME NEW x \in Nat, NEW q \in Int, NEW r \in Slots, x = N * q + r
    PROVE  Slot(x) = r
  <1>n. N \in Nat /\ N > 0 /\ r \in 0 .. N - 1
    BY Bounds DEF Slots
  <1>1. PICK p \in Nat : x = N * p + (x % N)
    BY <1>n, DivMod, Zenon
  <1>2. x % N \in 0 .. N - 1
    BY <1>n
  <1> DEFINE z == q - p
  <1>3. z \in Int /\ N * z = (x % N) - r
    <2>1. N * (q - p) = N * q - N * p
      BY <1>n
    <2> QED BY <1>n, <1>1, <1>2, <2>1
  <1>4. -N < N * z /\ N * z < N
    BY <1>n, <1>2, <1>3
  <1> HIDE DEF z
  <1>5. z = 0
    BY <1>n, <1>3, <1>4, SmallMultiple
  <1> QED BY <1>n, <1>2, <1>3, <1>5 DEF Slot

\* A cursor and the one a few steps further: their slots, in numbers.
LEMMA SlotOfSum ==
    ASSUME NEW a \in Cursor, NEW i \in 0 .. N, NEW r \in Slots,
           Slot(a) + i = r \/ Slot(a) + i = r + N
    PROVE  Slot(WAdd(a, i)) = r
  <1>n. N \in Nat /\ N > 0 /\ W \in Nat /\ a \in Nat /\ a < W /\ r \in 0 .. N - 1 /\ N <= W
    BY Bounds DEF Slots, Cursor
  <1>1. PICK q \in Nat : a = N * q + (a % N)
    BY <1>n, DivMod, Zenon
  <1>2. PICK m \in Nat : W = N * m
    BY WidthIsMultiple
  <1>3. PICK c \in Int : a + i = N * c + r
    <2>1. a % N \in Nat
      BY <1>n
    <2>2. CASE Slot(a) + i = r
      BY <1>n, <1>1, <2>1, <2>2 DEF Slot
    <2>3. CASE Slot(a) + i = r + N
      <3>1. N * (q + 1) = N * q + N
        BY <1>n
      <3>2. a + i = N * (q + 1) + r
        BY <1>n, <1>1, <2>1, <2>3, <3>1 DEF Slot
      <3> QED BY <3>2
    <2> QED BY <2>2, <2>3
  <1>4. CASE a + i < W
    <2>1. WAdd(a, i) = a + i /\ a + i \in Nat
      BY <1>4, <1>n DEF WAdd
    <2> QED BY <2>1, <1>3, ModIs
  <1>5. CASE a + i >= W
    <2>1. WAdd(a, i) = a + i - W /\ a + i - W \in Nat
      BY <1>5, <1>n DEF WAdd
    <2>2. N * (c - m) = N * c - N * m /\ c - m \in Int
      BY <1>n
    <2>3. a + i - W = N * (c - m) + r
      BY <1>2, <1>3, <1>n, <2>2
    <2> QED BY <2>1, <2>2, <2>3, ModIs
  <1> QED BY <1>4, <1>5, <1>n

\* The ticket of the next lap has the same slot.
LEMMA SlotLap ==
    ASSUME NEW a \in Cursor
    PROVE  Slot(WAdd(a, N)) = Slot(a)
  <1>1. Slot(a) \in Slots /\ N \in 0 .. N /\ N \in Nat
    BY SlotType, Bounds DEF Cursor
  <1>2. Slot(a) + N = Slot(a) + N
    OBVIOUS
  <1> QED BY <1>1, <1>2, SlotOfSum

\* Every slot has a ticket within N of any cursor.
LEMMA SlotsCovered ==
    ASSUME NEW a \in Cursor, NEW s \in Slots
    PROVE  \E i \in 0 .. N - 1 : Slot(WAdd(a, i)) = s
  <1>1. N \in Nat /\ N > 0 /\ s \in 0 .. N - 1 /\ Slot(a) \in 0 .. N - 1
    BY SlotType, Bounds DEF Cursor, Slots
  <1> DEFINE i == IF s >= Slot(a) THEN s - Slot(a) ELSE s + N - Slot(a)
  <1>2. /\ i \in 0 .. N - 1 /\ i \in 0 .. N
        /\ Slot(a) + i = s \/ Slot(a) + i = s + N
    BY <1>1
  <1> HIDE DEF i
  <1> QED BY <1>2, SlotOfSum

\* A lap on, and a lap back.
LEMMA LapArith ==
    ASSUME NEW a \in Cursor
    PROVE  /\ WAdd(a, N) \in Cursor /\ WSub(a, N) \in Cursor /\ WAdd(a, 1) \in Cursor
           /\ WSub(WAdd(a, N), N) = a /\ WAdd(WSub(a, N), N) = a
           /\ a # WAdd(a, 1) /\ a # WAdd(a, N) /\ WAdd(a, 1) # WAdd(a, N)
           /\ a # WAdd(WSub(a, N), 1) /\ WAdd(a, 1) # WAdd(WSub(a, N), 1)
           /\ WAdd(a, N) # WAdd(WSub(a, N), 1)
           /\ WSub(a, a) = 0 /\ WSub(WAdd(a, N), a) = N
  BY Bounds DEF Cursor, WAdd, WSub

==============================================================================
