------------------------------ MODULE RingProofs ------------------------------
(* Proofs about Ring for every set of bytes and every bound on the sizes.  *)
EXTENDS Ring, Sequences, SequenceTheorems, NumberInduction, TLAPS

------------------------------------------------------------------------------
(* The types of a well-formed ring's fields, as the provers need them. *)
LEMMA Fields ==
  ASSUME NEW r, RingOK(r)
  PROVE  /\ r.capacity \in Nat /\ r.size \in Nat /\ r.begin \in Nat
         /\ r.size <= r.capacity /\ r.begin <= r.capacity
         /\ r.p \in [0 .. (r.capacity - 1) -> Cell]
         /\ r = [p |-> r.p, size |-> r.size, capacity |-> r.capacity, begin |-> r.begin]
  BY DEF RingOK

(* Value(p1, n1, 0, n2) are the parts for the bytes from offset o on: they  *)
(* lie inside the memory, and byte i of them is the queued byte o + i.     *)
Fits(r, o, n, p1, n1, n2) ==
  /\ PartsAt(r, o, n) = Value(p1, n1, 0, n2)
  /\ n1 + n2 = n
  /\ p1 + n1 <= r.capacity
  /\ n2 <= r.capacity
  /\ \A i \in 0 .. (n - 1) :
       (IF i < n1 THEN p1 + i ELSE i - n1) = Slot(r, o + i)

(* Every location of queued bytes has such parts, whether it lies before,  *)
(* behind or across the end of the memory (ring_get).                      *)
LEMMA GetParts ==
  ASSUME NEW r, RingOK(r), NEW o \in Nat, NEW n \in Nat, o + n <= r.size
  PROVE  \E p1, n1, n2 \in Nat : Fits(r, o, n, p1, n1, n2)
  <1> DEFINE after == r.capacity - r.begin - o
  <1>1. /\ r.capacity \in Nat /\ r.size \in Nat /\ r.begin \in Nat
        /\ r.size <= r.capacity /\ r.begin <= r.capacity
        /\ after \in Int
    BY Fields
  <1>2. PartsAt(r, o, n) =
          IF n = 0 THEN Value(0, 0, 0, 0)
          ELSE IF after = 0 THEN Value(0, n, 0, 0)
          ELSE IF after < 0 THEN Value(0 - after, n, 0, 0)
          ELSE IF n <= after THEN Value(r.begin + o, n, 0, 0)
          ELSE Value(r.begin + o, after, 0, n - after)
    BY DEF PartsAt, ContinuousAfterBegin
  <1>3. CASE n = 0
    <2>1. Fits(r, o, n, 0, 0, 0)
      BY <1>1, <1>2, <1>3 DEF Fits
    <2> QED BY <2>1
  <1>4. CASE n # 0 /\ after <= 0
    <2>1. PartsAt(r, o, n) = Value(0 - after, n, 0, 0)
      BY <1>1, <1>2, <1>4
    <2>2. \A i \in 0 .. (n - 1) : i < n /\ (0 - after) + i = Slot(r, o + i)
      BY <1>1, <1>4 DEF Slot
    <2>3. (0 - after) \in Nat /\ (0 - after) + n <= r.capacity
      BY <1>1, <1>4
    <2>4. Fits(r, o, n, 0 - after, n, 0)
      BY <1>1, <2>1, <2>2, <2>3 DEF Fits
    <2> HIDE DEF after
    <2> QED BY <2>3, <2>4
  <1>5. CASE n # 0 /\ after > 0 /\ n <= after
    <2>1. PartsAt(r, o, n) = Value(r.begin + o, n, 0, 0)
      BY <1>1, <1>2, <1>5
    <2>2. \A i \in 0 .. (n - 1) : i < n /\ (r.begin + o) + i = Slot(r, o + i)
      BY <1>1, <1>5 DEF Slot
    <2>3. (r.begin + o) \in Nat /\ (r.begin + o) + n <= r.capacity
      BY <1>1, <1>5
    <2>4. Fits(r, o, n, r.begin + o, n, 0)
      BY <1>1, <2>1, <2>2, <2>3 DEF Fits
    <2> HIDE DEF after
    <2> QED BY <2>3, <2>4
  <1>6. CASE n # 0 /\ after > 0 /\ n > after
    <2>1. PartsAt(r, o, n) = Value(r.begin + o, after, 0, n - after)
      BY <1>1, <1>2, <1>6
    <2>2. \A i \in 0 .. (n - 1) :
            (IF i < after THEN (r.begin + o) + i ELSE i - after) = Slot(r, o + i)
      BY <1>1, <1>6 DEF Slot
    <2>3. /\ (r.begin + o) \in Nat /\ after \in Nat /\ n - after \in Nat
          /\ (r.begin + o) + after <= r.capacity
          /\ after + (n - after) = n /\ n - after <= r.capacity
      BY <1>1, <1>6
    <2>4. Fits(r, o, n, r.begin + o, after, n - after)
      BY <2>1, <2>2, <2>3 DEF Fits
    <2> HIDE DEF after
    <2> QED BY <2>3, <2>4
  <1> QED BY <1>1, <1>3, <1>4, <1>5, <1>6

(* Two offsets of queued bytes never share a place in memory. *)
LEMMA SlotInjective ==
  ASSUME NEW r, RingOK(r), NEW i \in 0 .. (r.size - 1), NEW j \in 0 .. (r.size - 1),
         Slot(r, i) = Slot(r, j)
  PROVE  i = j
  BY Fields DEF Slot

(* A queued byte lies inside the memory. *)
LEMMA SlotType ==
  ASSUME NEW r, RingOK(r), NEW i \in 0 .. (r.size - 1)
  PROVE  Slot(r, i) \in 0 .. (r.capacity - 1)
  BY Fields DEF Slot

------------------------------------------------------------------------------
(* Writing k bytes through the value of a location changes the queued      *)
(* bytes First .. First + k - 1 and no other.                              *)
LEMMA WrittenBytes ==
  ASSUME NEW r, RingOK(r), NEW o \in Nat, NEW n \in Nat, o + n <= r.size,
         NEW k \in 0 .. n, NEW data, \A j \in 0 .. (k - 1) : data[j] \in Cell,
         NEW w, w = Written(r, PartsAt(r, o, n), k, data)
  PROVE  /\ RingOK(w)
         /\ w.size = r.size /\ w.capacity = r.capacity /\ w.begin = r.begin
         /\ \A i \in 0 .. (r.size - 1) :
              w.p[Slot(r, i)] =
                IF o <= i /\ i < o + k THEN data[i - o] ELSE r.p[Slot(r, i)]
  <1>1. /\ r.capacity \in Nat /\ r.size \in Nat /\ r.begin \in Nat
        /\ r.size <= r.capacity /\ r.begin <= r.capacity
        /\ r.p \in [0 .. (r.capacity - 1) -> Cell]
        /\ r = [p |-> r.p, size |-> r.size, capacity |-> r.capacity, begin |-> r.begin]
    BY Fields
  <1>0. PICK p1, n1, n2 \in Nat : Fits(r, o, n, p1, n1, n2)
    BY GetParts
  <1>2. /\ PartsAt(r, o, n) = Value(p1, n1, 0, n2)
        /\ n1 + n2 = n
        /\ p1 + n1 <= r.capacity
        /\ n2 <= r.capacity
        /\ \A i \in 0 .. (n - 1) :
             (IF i < n1 THEN p1 + i ELSE i - n1) = Slot(r, o + i)
    BY <1>0 DEF Fits
  <1> DEFINE q == [a \in 0 .. (r.capacity - 1) |->
                     IF p1 <= a /\ a < p1 + n1 /\ a - p1 < k THEN data[a - p1]
                     ELSE IF 0 <= a /\ a < n2 /\ n1 + a < k THEN data[n1 + a]
                     ELSE r.p[a]]
  <1>3. w = [r EXCEPT !.p = q]
    <2> DEFINE v == Value(p1, n1, 0, n2)
    <2>1. v[1].p = p1 /\ v[1].size = n1 /\ v[2].p = 0 /\ v[2].size = n2
      BY DEF Value
    <2>2. w = Written(r, v, k, data)
      BY <1>2
    <2> HIDE DEF v
    <2>3. Written(r, v, k, data) =
            [r EXCEPT !.p =
              [a \in 0 .. (r.capacity - 1) |->
                IF p1 <= a /\ a < p1 + n1 /\ a - p1 < k THEN data[a - p1]
                ELSE IF 0 <= a /\ a < 0 + n2 /\ n1 + (a - 0) < k THEN data[n1 + (a - 0)]
                ELSE r.p[a]]]
      BY <2>1 DEF Written
    <2>4. \A a \in 0 .. (r.capacity - 1) : 0 + n2 = n2 /\ a - 0 = a
      BY <1>2
    <2> QED BY <2>2, <2>3, <2>4
  <1>4. q \in [0 .. (r.capacity - 1) -> Cell]
    <2> SUFFICES ASSUME NEW a \in 0 .. (r.capacity - 1)
                 PROVE  q[a] \in Cell
      OBVIOUS
    <2>1. p1 <= a /\ a - p1 < k => a - p1 \in 0 .. (k - 1)
      BY <1>1, <1>2
    <2>2. n1 + a < k => n1 + a \in 0 .. (k - 1)
      BY <1>1, <1>2
    <2>3. r.p[a] \in Cell
      BY <1>1
    <2> QED BY <2>1, <2>2, <2>3
  <1> HIDE DEF q
  <1>5. w = [p |-> q, size |-> r.size, capacity |-> r.capacity, begin |-> r.begin]
    BY <1>1, <1>3
  <1>6. RingOK(w)
    BY <1>1, <1>4, <1>5 DEF RingOK
  <1>7. ASSUME NEW i \in 0 .. (r.size - 1)
        PROVE  q[Slot(r, i)] = IF o <= i /\ i < o + k THEN data[i - o] ELSE r.p[Slot(r, i)]
    <2> DEFINE a == Slot(r, i)
    <2>1. a \in 0 .. (r.capacity - 1)
      BY SlotType
    <2>2. ASSUME p1 <= a, a < p1 + n1
          PROVE  i = o + (a - p1)
      <3>1. PICK j \in Nat : j = a - p1 /\ j < n1 /\ a = p1 + j
        BY <1>2, <2>1, <2>2
      <3>2. j \in 0 .. (n - 1) /\ o + j \in 0 .. (r.size - 1)
        <4>1. j < n
          BY <1>2, <3>1
        <4>2. o \in Nat /\ o + n <= r.size /\ r.size \in Nat
          BY <1>1
        <4> QED BY <4>1, <4>2
      <3>3. Slot(r, o + j) = a
        BY <1>2, <3>1, <3>2
      <3>4. i = o + j
        BY <3>2, <3>3, SlotInjective
      <3> QED BY <3>1, <3>4
    <2>3. ASSUME a < n2
          PROVE  i = o + (n1 + a)
      <3>1. PICK j \in Nat : j = n1 + a /\ ~(j < n1) /\ j - n1 = a
        BY <1>2, <2>1, <2>3
      <3>2. j \in 0 .. (n - 1) /\ o + j \in 0 .. (r.size - 1)
        <4>1. j < n
          BY <1>2, <2>1, <2>3, <3>1
        <4>2. o \in Nat /\ o + n <= r.size /\ r.size \in Nat
          BY <1>1
        <4> QED BY <4>1, <4>2
      <3>3. Slot(r, o + j) = a
        BY <1>2, <3>1, <3>2
      <3>4. i = o + j
        BY <3>2, <3>3, SlotInjective
      <3> QED BY <3>1, <3>4
    <2>4. ASSUME o <= i, i < o + n
          PROVE  a = IF i - o < n1 THEN p1 + (i - o) ELSE (i - o) - n1
      <3>1. i - o \in 0 .. (n - 1) /\ o + (i - o) = i
        BY <1>1, <2>4
      <3> QED BY <1>2, <3>1
    <2> HIDE DEF a
    <2>5. /\ a \in Int /\ i \in Int /\ o \in Int /\ k \in Int /\ n \in Int
          /\ 0 <= a /\ a < r.capacity /\ k <= n /\ 0 <= k /\ n1 + n2 = n
          /\ p1 <= a /\ a < p1 + n1 => i = o + (a - p1)
          /\ a < n2 => i = o + (n1 + a)
          /\ o <= i /\ i < o + n =>
               a = IF i - o < n1 THEN p1 + (i - o) ELSE (i - o) - n1
      BY <1>1, <1>2, <2>1, <2>2, <2>3, <2>4
    <2>6. q[a] = IF p1 <= a /\ a < p1 + n1 /\ a - p1 < k THEN data[a - p1]
                 ELSE IF 0 <= a /\ a < n2 /\ n1 + a < k THEN data[n1 + a]
                 ELSE r.p[a]
      BY <2>1 DEF q
    <2> HIDE DEF a
    <2>7. CASE o <= i /\ i < o + k /\ i - o < n1
      <3>1. a - p1 = i - o /\ p1 <= a /\ a < p1 + n1 /\ a - p1 < k
        BY <2>5, <2>7
      <3> QED BY <2>6, <2>7, <3>1 DEF a
    <2>8. CASE o <= i /\ i < o + k /\ ~(i - o < n1)
      <3>1. ~(p1 <= a /\ a < p1 + n1) /\ a < n2 /\ n1 + a = i - o /\ n1 + a < k
        BY <2>5, <2>8
      <3> QED BY <2>5, <2>6, <2>8, <3>1 DEF a
    <2>9. CASE ~(o <= i /\ i < o + k)
      <3>1. /\ ~(p1 <= a /\ a < p1 + n1 /\ a - p1 < k)
            /\ ~(a < n2 /\ n1 + a < k)
        BY <2>5, <2>9
      <3> QED BY <2>6, <2>9, <3>1 DEF a
    <2> QED BY <2>7, <2>8, <2>9 DEF a
  <1> QED BY <1>5, <1>6, <1>7

------------------------------------------------------------------------------
(* What each operation on the ring does to the queued bytes.               *)

Appended(r, n, data) ==
  [i \in 0 .. (r.size + n - 1) |->
     IF i < r.size THEN Contents(r)[i] ELSE data[i - r.size]]

Tailed(r, n) == [i \in 0 .. (r.size - n - 1) |-> Contents(r)[i + n]]

Fronted(r, n) == [i \in 0 .. (r.size - n - 1) |-> Contents(r)[i]]

Patched(r, o, n, data) ==
  [i \in 0 .. (r.size - 1) |->
     IF o <= i /\ i < o + n THEN data[i - o] ELSE Contents(r)[i]]

(* Growing the memory keeps every queued byte at its offset. *)
LEMMA ReservedBytes ==
  ASSUME NEW r, RingOK(r), NEW c \in Nat, NEW n \in NewCapacities(r, c),
         NEW w, w = Reserved(r, n)
  PROVE  /\ RingOK(w) /\ w.size = r.size /\ w.capacity = n /\ c <= n
         /\ Contents(w) = Contents(r)
  <1>1. /\ r.capacity \in Nat /\ r.size \in Nat /\ r.begin \in Nat
        /\ r.size <= r.capacity /\ r.begin <= r.capacity
        /\ r.p \in [0 .. (r.capacity - 1) -> Cell]
    BY Fields
  <1>2. n \in Nat /\ r.capacity <= n /\ c <= n
    BY <1>1 DEF NewCapacities
  <1>3. CASE n = r.capacity
    BY <1>2, <1>3 DEF Reserved
  <1>4. CASE n # r.capacity
    <2> DEFINE wrapped == r.size > ContinuousAfterBegin(r)
               expand  == n - r.capacity
               q == [a \in 0 .. (n - 1) |->
                       IF wrapped /\ a >= r.begin + expand THEN r.p[a - expand]
                       ELSE IF a < r.capacity THEN r.p[a] ELSE Garbage]
               b == IF wrapped THEN r.begin + expand ELSE r.begin
    <2>1. w = [p |-> q, size |-> r.size, capacity |-> n, begin |-> b]
      BY <1>4 DEF Reserved, Expanded
    <2>2. expand \in Nat /\ b \in 0 .. n /\ (wrapped <=> r.size > r.capacity - r.begin)
      BY <1>1, <1>2 DEF ContinuousAfterBegin
    <2>3. q \in [0 .. (n - 1) -> Cell]
      <3> SUFFICES ASSUME NEW a \in 0 .. (n - 1)
                   PROVE  (IF wrapped /\ a >= r.begin + expand THEN r.p[a - expand]
                           ELSE IF a < r.capacity THEN r.p[a] ELSE Garbage) \in Cell
        OBVIOUS
      <3>1. a >= r.begin + expand => a - expand \in 0 .. (r.capacity - 1)
        BY SMTT(30), <1>1, <1>2, <2>2
      <3>2. a < r.capacity => a \in 0 .. (r.capacity - 1)
        BY <1>1
      <3> HIDE DEF wrapped, expand
      <3> QED BY <1>1, <3>1, <3>2 DEF Cell
    <2>4. RingOK(w)
      BY <1>1, <1>2, <2>1, <2>2, <2>3 DEF RingOK
    <2>5. ASSUME NEW i \in 0 .. (r.size - 1)
          PROVE  w.p[Slot(w, i)] = r.p[Slot(r, i)]
      <3>1. w.p = q /\ w.begin = b /\ w.capacity = n
        BY <2>1
      <3>2. Slot(w, i) \in 0 .. (n - 1)
        BY <1>1, <1>2, <2>1, <2>4, SlotType
      <3>3. Slot(w, i) = IF b + i < n THEN b + i ELSE b + i - n
        BY <3>1 DEF Slot
      <3>4. Slot(r, i) = IF r.begin + i < r.capacity THEN r.begin + i
                                                     ELSE r.begin + i - r.capacity
        BY DEF Slot
      <3>5. CASE wrapped /\ r.begin + i < r.capacity
        <4>1. Slot(w, i) = r.begin + expand + i /\ Slot(r, i) = r.begin + i
          <5>1. b = r.begin + expand /\ expand = n - r.capacity
            BY <3>5
          <5>2. Slot(r, i) = r.begin + i
            BY <3>4, <3>5
          <5> HIDE DEF b, wrapped, expand
          <5>3. b + i < n /\ b + i = r.begin + expand + i
            BY <1>1, <1>2, <3>5, <5>1
          <5> QED BY <3>3, <5>2, <5>3
        <4>2. Slot(w, i) >= r.begin + expand /\ Slot(w, i) - expand = Slot(r, i)
          BY <1>1, <2>2, <4>1
        <4> HIDE DEF wrapped, expand
        <4> QED BY <3>1, <3>2, <3>5, <4>2
      <3>6. CASE wrapped /\ ~(r.begin + i < r.capacity)
        <4>1. Slot(w, i) = Slot(r, i) /\ Slot(r, i) = r.begin + i - r.capacity
          <5>1. Slot(r, i) = r.begin + i - r.capacity
            BY <3>4, <3>6
          <5>2. b = r.begin + (n - r.capacity)
            BY <3>6
          <5> HIDE DEF b
          <5> QED BY <1>1, <1>2, <3>3, <3>6, <5>1, <5>2
        <4>2. r.begin + i - r.capacity < r.begin /\ r.begin <= r.begin + expand
          BY <1>1, <2>2
        <4>3. ~(Slot(w, i) >= r.begin + expand) /\ Slot(w, i) < r.capacity
          <5> HIDE DEF wrapped, expand
          <5> QED BY <1>1, <2>2, <3>2, <4>1, <4>2
        <4> HIDE DEF wrapped, expand
        <4> QED BY <3>1, <3>2, <3>6, <4>1, <4>3
      <3>7. CASE ~wrapped
        <4>1. Slot(w, i) = Slot(r, i) /\ Slot(w, i) < r.capacity
          <5>1. b = r.begin /\ r.size <= r.capacity - r.begin
            BY <1>1, <2>2, <3>7
          <5> HIDE DEF b, wrapped, expand
          <5>2. r.begin + i < r.capacity /\ r.begin + i < n
            BY <1>1, <1>2, <5>1
          <5> QED BY <3>3, <3>4, <5>1, <5>2
        <4> HIDE DEF wrapped, expand
        <4> QED BY <3>1, <3>2, <3>7, <4>1
      <3> QED BY <3>5, <3>6, <3>7
    <2>6. w.size = r.size /\ w.capacity = n
      BY <2>1
    <2>7. Contents(w) = Contents(r)
      BY <2>5, <2>6 DEF Contents
    <2> QED BY <1>2, <2>4, <2>6, <2>7
  <1> QED BY <1>3, <1>4

(* ring_push reveals n cells behind the queued bytes. *)
LEMMA PushedBytes ==
  ASSUME NEW r, RingOK(r), NEW n \in Nat, r.size + n <= r.capacity,
         NEW w, w = Pushed(r, n)
  PROVE  /\ RingOK(w)
         /\ w.size = r.size + n /\ w.capacity = r.capacity
         /\ w.begin = r.begin /\ w.p = r.p
         /\ \A i \in Nat : Slot(w, i) = Slot(r, i)
  <1>1. /\ w = [p |-> r.p, size |-> r.size + n, capacity |-> r.capacity, begin |-> r.begin]
        /\ r.capacity \in Nat /\ r.size \in Nat /\ r.begin \in 0 .. r.capacity
        /\ r.p \in [0 .. (r.capacity - 1) -> Cell]
    BY Fields DEF Pushed
  <1> QED BY <1>1 DEF RingOK, Slot

(* Pushing n bytes, writing the first k and keeping those appends them. *)
LEMMA AppendedBytes ==
  ASSUME NEW r, RingOK(r), NEW n \in Nat, r.size + n <= r.capacity,
         NEW k \in 0 .. n, NEW data, \A j \in 0 .. (k - 1) : data[j] \in Cell,
         NEW w, w = Unpushed(Written(Pushed(r, n), push_get(r, n), k, data), n - k)
  PROVE  /\ RingOK(w) /\ w.size = r.size + k /\ w.capacity = r.capacity
         /\ Contents(w) = Appended(r, k, data)
  <1> DEFINE s == Pushed(r, n)
             u == Written(s, push_get(r, n), k, data)
  <1>1. /\ r.capacity \in Nat /\ r.size \in Nat /\ r.begin \in Nat
        /\ r.size <= r.capacity /\ r.begin <= r.capacity
    BY Fields
  <1>2. /\ RingOK(s) /\ s.size = r.size + n /\ s.capacity = r.capacity
        /\ s.begin = r.begin /\ s.p = r.p
        /\ \A i \in Nat : Slot(s, i) = Slot(r, i)
    BY PushedBytes
  <1> HIDE DEF s
  <1>3. u = Written(s, PartsAt(s, r.size, n), k, data)
    BY <1>1, <1>2 DEF push_get, s, ring_get, First
  <1> HIDE DEF u
  <1>4. /\ RingOK(u)
        /\ u.size = s.size /\ u.capacity = s.capacity /\ u.begin = s.begin
        /\ \A i \in 0 .. (s.size - 1) :
             u.p[Slot(s, i)] = IF r.size <= i /\ i < r.size + k
                                 THEN data[i - r.size] ELSE s.p[Slot(s, i)]
    BY <1>1, <1>2, <1>3, WrittenBytes
  <1>6. w = [p |-> u.p, size |-> r.size + k, capacity |-> r.capacity, begin |-> r.begin]
    <2>1. w = Unpushed(u, n - k)
      BY DEF u, s
    <2>2. (r.size + n) - (n - k) = r.size + k
      BY <1>1
    <2>3. u = [p |-> u.p, size |-> u.size, capacity |-> u.capacity, begin |-> u.begin]
      BY <1>4, Fields
    <2>4. w = [p |-> u.p, size |-> u.size - (n - k), capacity |-> u.capacity,
               begin |-> u.begin]
      BY <2>1, <2>3 DEF Unpushed
    <2> QED BY <1>2, <1>4, <2>2, <2>4
  <1>7. RingOK(w)
    BY <1>1, <1>2, <1>4, <1>6, Fields DEF RingOK
  <1>8. ASSUME NEW i \in 0 .. (r.size + k - 1)
        PROVE  w.p[Slot(w, i)] = IF i < r.size THEN Contents(r)[i] ELSE data[i - r.size]
    <2>1. i \in Nat /\ i \in 0 .. (s.size - 1) /\ i < r.size + k
      BY <1>1, <1>2
    <2>2. Slot(w, i) = Slot(s, i) /\ Slot(s, i) = Slot(r, i)
      BY <1>2, <1>6, <2>1 DEF Slot
    <2>3. u.p[Slot(s, i)] = IF r.size <= i /\ i < r.size + k
                                 THEN data[i - r.size] ELSE s.p[Slot(s, i)]
      BY <1>4, <2>1
    <2>4. CASE i < r.size
      BY <1>1, <1>2, <1>6, <2>1, <2>2, <2>3, <2>4 DEF Contents
    <2>5. CASE ~(i < r.size)
      BY <1>1, <1>6, <2>1, <2>2, <2>3, <2>5
    <2> QED BY <2>4, <2>5
  <1>9. w.size = r.size + k /\ w.capacity = r.capacity
    BY <1>6
  <1>10. Contents(w) = [i \in 0 .. (r.size + k - 1) |-> w.p[Slot(w, i)]]
    BY <1>1, <1>9 DEF Contents
  <1>11. Contents(w) = Appended(r, k, data)
    BY <1>8, <1>10 DEF Appended
  <1> QED BY <1>7, <1>9, <1>11

(* Popping the n oldest bytes moves every other one to offset - n. *)
LEMMA PoppedBytes ==
  ASSUME NEW r, RingOK(r), NEW n \in Nat, n <= r.size,
         NEW w, w = Popped(r, n)
  PROVE  /\ RingOK(w) /\ w.size = r.size - n /\ w.capacity = r.capacity
         /\ Contents(w) = Tailed(r, n)
  <1> DEFINE b == IF r.size - n = 0 THEN 0
                  ELSE IF n <= r.capacity - r.begin THEN r.begin + n
                  ELSE n - (r.capacity - r.begin)
  <1>1. /\ r.capacity \in Nat /\ r.size \in Nat /\ r.begin \in Nat
        /\ r.size <= r.capacity /\ r.begin <= r.capacity
        /\ r.p \in [0 .. (r.capacity - 1) -> Cell]
        /\ r = [p |-> r.p, size |-> r.size, capacity |-> r.capacity, begin |-> r.begin]
    BY Fields
  <1>2. w = [p |-> r.p, size |-> r.size - n, capacity |-> r.capacity, begin |-> b]
    BY <1>1 DEF Popped, ContinuousAfterBegin
  <1>3. b \in 0 .. r.capacity
    BY <1>1
  <1>4. RingOK(w)
    BY <1>1, <1>2, <1>3 DEF RingOK
  <1>5. ASSUME NEW i \in 0 .. (r.size - n - 1)
        PROVE  w.p[Slot(w, i)] = Contents(r)[i + n]
    <2>1. i + n \in 0 .. (r.size - 1)
      BY <1>1
    <2>2. Slot(w, i) = Slot(r, i + n)
      BY <1>1, <1>2 DEF Slot
    <2>3. w.p = r.p
      BY <1>2
    <2> QED BY <2>1, <2>2, <2>3 DEF Contents
  <1>6. w.size = r.size - n /\ w.capacity = r.capacity
    BY <1>2
  <1>7. Contents(w) = [i \in 0 .. (w.size - 1) |-> w.p[Slot(w, i)]]
    BY DEF Contents
  <1>8. Contents(w) = Tailed(r, n)
    BY <1>1, <1>5, <1>6, <1>7 DEF Tailed
  <1> QED BY <1>4, <1>6, <1>8

(* ring_unpush forgets the n youngest bytes. *)
LEMMA UnpushedBytes ==
  ASSUME NEW r, RingOK(r), NEW n \in Nat, n <= r.size,
         NEW w, w = Unpushed(r, n)
  PROVE  /\ RingOK(w) /\ w.size = r.size - n /\ w.capacity = r.capacity
         /\ Contents(w) = Fronted(r, n)
  <1>1. /\ r.capacity \in Nat /\ r.size \in Nat /\ r.begin \in 0 .. r.capacity
        /\ r.size <= r.capacity
        /\ r.p \in [0 .. (r.capacity - 1) -> Cell]
        /\ r = [p |-> r.p, size |-> r.size, capacity |-> r.capacity, begin |-> r.begin]
    BY Fields
  <1>2. w = [p |-> r.p, size |-> r.size - n, capacity |-> r.capacity, begin |-> r.begin]
    BY <1>1 DEF Unpushed
  <1>3. RingOK(w)
    BY <1>1, <1>2 DEF RingOK
  <1>4. ASSUME NEW i \in 0 .. (r.size - n - 1)
        PROVE  w.p[Slot(w, i)] = Contents(r)[i]
    BY <1>1, <1>2 DEF Slot, Contents
  <1>5. w.size = r.size - n /\ w.capacity = r.capacity
    BY <1>2
  <1>6. Contents(w) = [i \in 0 .. (w.size - 1) |-> w.p[Slot(w, i)]]
    BY DEF Contents
  <1>7. Contents(w) = Fronted(r, n)
    BY <1>1, <1>4, <1>5, <1>6 DEF Fronted
  <1> QED BY <1>3, <1>5, <1>7

(* ring_push_write appends all of its n bytes. *)
LEMMA PushWrittenBytes ==
  ASSUME NEW r, RingOK(r), NEW n \in Nat, r.size + n <= r.capacity,
         NEW data, \A j \in 0 .. (n - 1) : data[j] \in Cell,
         NEW w, w = value_write(Pushed(r, n), push_get(r, n), data)
  PROVE  /\ RingOK(w) /\ w.size = r.size + n /\ w.capacity = r.capacity
         /\ Contents(w) = Appended(r, n, data)
  <1> DEFINE s == Pushed(r, n)
  <1>1. r.capacity \in Nat /\ r.size \in Nat
    BY Fields
  <1>2. RingOK(s) /\ s.size = r.size + n
    BY PushedBytes
  <1>3. push_get(r, n) = PartsAt(s, r.size, n)
    BY <1>1, <1>2 DEF push_get, ring_get, First
  <1>4. value_size(push_get(r, n)) = n
    <2>1. PICK p1, n1, n2 \in Nat : Fits(s, r.size, n, p1, n1, n2)
      BY <1>1, <1>2, GetParts
    <2>2. push_get(r, n) = Value(p1, n1, 0, n2) /\ n1 + n2 = n
      BY <1>3, <2>1 DEF Fits
    <2> QED BY <2>2 DEF value_size, Value
  <1>5. w = Written(s, push_get(r, n), n, data)
    BY <1>4 DEF value_write
  <1>6. RingOK(w)
    BY <1>1, <1>2, <1>3, <1>5, WrittenBytes
  <1>7. w = Unpushed(w, n - n)
    <2>1. w.size \in Nat /\ w.size - (n - n) = w.size
      BY <1>6, Fields
    <2> QED BY <1>6, <2>1, Fields DEF Unpushed
  <1>8. w = Unpushed(Written(Pushed(r, n), push_get(r, n), n, data), n - n)
    BY <1>5, <1>7
  <1>9. PICK k \in 0 .. n : k = n
    OBVIOUS
  <1>10. w = Unpushed(Written(Pushed(r, n), push_get(r, n), k, data), n - k)
    BY <1>8, <1>9
  <1>11. \A j \in 0 .. (k - 1) : data[j] \in Cell
    BY <1>9
  <1>12. /\ RingOK(w) /\ w.size = r.size + k /\ w.capacity = r.capacity
         /\ Contents(w) = Appended(r, k, data)
    BY <1>10, <1>11, AppendedBytes
  <1> QED BY <1>9, <1>12

(* Writing through ring_get changes the bytes of the location only. *)
LEMMA PatchedBytes ==
  ASSUME NEW r, RingOK(r), NEW o \in Nat, NEW n \in Nat, o + n <= r.size,
         NEW data, \A j \in 0 .. (n - 1) : data[j] \in Cell,
         NEW w, w = value_write(r, PartsAt(r, o, n), data)
  PROVE  /\ RingOK(w) /\ w.size = r.size /\ w.capacity = r.capacity
         /\ Contents(w) = Patched(r, o, n, data)
  <1>1. r.capacity \in Nat /\ r.size \in Nat /\ r.begin \in Nat
    BY Fields
  <1>2. value_size(PartsAt(r, o, n)) = n
    <2>1. PICK p1, n1, n2 \in Nat : Fits(r, o, n, p1, n1, n2)
      BY GetParts
    <2>2. PartsAt(r, o, n) = Value(p1, n1, 0, n2) /\ n1 + n2 = n
      BY <2>1 DEF Fits
    <2> QED BY <2>2 DEF value_size, Value
  <1>3. w = Written(r, PartsAt(r, o, n), n, data)
    BY <1>2 DEF value_write
  <1>4. /\ RingOK(w)
        /\ w.size = r.size /\ w.capacity = r.capacity /\ w.begin = r.begin
        /\ \A i \in 0 .. (r.size - 1) :
             w.p[Slot(r, i)] = IF o <= i /\ i < o + n THEN data[i - o]
                                                      ELSE r.p[Slot(r, i)]
    BY <1>3, WrittenBytes
  <1>5. \A i \in 0 .. (r.size - 1) : Slot(w, i) = Slot(r, i)
    BY <1>4 DEF Slot
  <1>6. Contents(w) = Patched(r, o, n, data)
    BY <1>4, <1>5 DEF Contents, Patched
  <1> QED BY <1>4, <1>6

------------------------------------------------------------------------------
(* Every call keeps the ring well formed and does to the queue of bytes    *)
(* what ByteQueue allows.                                                  *)
LEMMA StepQueue ==
  ASSUME TypeOK, Next
  PROVE  TypeOK' /\ Queue!Next
  <1> USE DEF Queue!Sizes, Sizes, Queue!Cell, Queue!Nothing
  <1>1. /\ RingOK(ring) /\ g_memory = ring.capacity
        /\ ring.capacity \in Nat /\ ring.size \in Nat /\ ring.begin \in Nat
        /\ ring.size <= ring.capacity
        /\ MaxSize \in Nat /\ MaxCapacity \in Nat
    BY Fields, RingAssumption DEF TypeOK
  <1>2. ASSUME NEW e \in {"memory", "capacity", "underflow", "range"}, Fail(e),
               e = "underflow" => \E n \in Sizes : n > ring.size,
               e = "range" => \E offset, n \in Sizes : offset + n > ring.size
        PROVE  TypeOK' /\ Queue!Next
    <2>1. TypeOK'
      BY <1>2 DEF TypeOK, Fail
    <2>2. Queue!Keep(e) /\ e \in Queue!Errors
      BY <1>2 DEF Fail, Queue!Keep, Queue!Errors, Nothing
    <2> QED BY <2>1, <2>2 DEF Queue!Next
  <1>3. ASSUME NEW r, RingOK(r), Succeed(r)
        PROVE  /\ TypeOK' /\ ring' = r /\ out' = Nothing /\ error' = "none"
    <2>1. r.capacity \in Nat
      BY <1>3, Fields
    <2> QED BY <1>1, <1>3, <2>1 DEF Succeed, TypeOK
  <1>4. ASSUME NEW r, RingOK(r), Succeed(r), NEW n \in Sizes,
               NEW data \in [0 .. (n - 1) -> Cell],
               r.size = ring.size + n,
               Contents(r) = Appended(ring, n, data)
        PROVE  TypeOK' /\ Queue!Next
    <2>1. TypeOK' /\ ring' = r /\ out' = Nothing /\ error' = "none"
      BY <1>3, <1>4
    <2>2. Contents(ring)' = Contents(r)
      BY <2>1 DEF Contents, Slot
    <2>3. Queue!Append(n, data)
      BY <1>4, <2>1, <2>2 DEF Queue!Append, Appended, Nothing
    <2>4. \E m \in Queue!Sizes : \E d \in [0 .. (m - 1) -> Queue!Cell] : Queue!Append(m, d)
      BY <2>3, Zenon DEF Cell
    <2> QED BY <2>1, <2>4 DEF Queue!Next
  <1>5. CASE ring_finalize
    <2>1. RingOK(EmptyRing) /\ Contents(EmptyRing) = Nothing /\ EmptyRing.size = 0
      BY DEF RingOK, EmptyRing, Nothing, Contents
    <2>2. TypeOK' /\ ring' = EmptyRing /\ out' = Nothing /\ error' = "none"
      BY <1>3, <1>5, <2>1 DEF ring_finalize
    <2>3. Queue!Discard("none")
      BY <2>1, <2>2 DEF Queue!Discard, Contents, Slot, Nothing
    <2> QED BY <2>2, <2>3 DEF Queue!Next
  <1>6. CASE server_receive_stream_failed
    <2>1. RingOK(EmptyRing) /\ Contents(EmptyRing) = Nothing
          /\ EmptyRing.size = 0 /\ EmptyRing.capacity = 0
      BY DEF RingOK, EmptyRing, Nothing, Contents
    <2>2. TypeOK' /\ ring' = EmptyRing /\ out' = Nothing /\ error' = "io"
      BY <1>1, <1>6, <2>1 DEF server_receive_stream_failed, TypeOK
    <2>3. Queue!Discard("io")
      BY <2>1, <2>2 DEF Queue!Discard, Contents, Slot, Nothing
    <2> QED BY <2>2, <2>3 DEF Queue!Next
  <1>7. ASSUME NEW c \in 0 .. MaxCapacity, ring_reserve(c)
        PROVE  TypeOK' /\ Queue!Next
    <2>1. PICK n \in NewCapacities(ring, c) : Succeed(Reserved(ring, n)) \/ NoMemory(n)
      BY <1>7 DEF ring_reserve
    <2>2. CASE Succeed(Reserved(ring, n))
      <3> DEFINE r == Reserved(ring, n)
      <3>1. RingOK(r) /\ r.size = ring.size /\ Contents(r) = Contents(ring)
        BY <1>1, ReservedBytes
      <3> HIDE DEF r
      <3>2. TypeOK' /\ ring' = r /\ out' = Nothing /\ error' = "none"
        BY <1>3, <2>2, <3>1 DEF r
      <3>3. Contents(ring)' = Contents(ring)
        BY <3>1, <3>2 DEF Contents, Slot
      <3>4. Queue!Keep("none") /\ "none" \in Queue!Errors
        BY <3>1, <3>2, <3>3 DEF Queue!Keep, Nothing, Queue!Errors
      <3> QED BY <3>2, <3>4 DEF Queue!Next
    <2>3. CASE NoMemory(n)
      BY <1>2, <2>3 DEF NoMemory
    <2> QED BY <2>1, <2>2, <2>3
  <1>8. ASSUME NEW n \in Sizes, ring_push(n)
        PROVE  TypeOK' /\ Queue!Next
    <2>1. CASE ring.size + n <= ring.capacity /\ Succeed(Pushed(ring, n))
      <3> DEFINE r == Pushed(ring, n)
                 data == [j \in 0 .. (n - 1) |-> ring.p[Slot(ring, ring.size + j)]]
      <3>1. /\ RingOK(r) /\ r.size = ring.size + n /\ r.p = ring.p
            /\ \A i \in Nat : Slot(r, i) = Slot(ring, i)
        BY <1>1, <2>1, PushedBytes
      <3>2. data \in [0 .. (n - 1) -> Cell]
        <4> SUFFICES ASSUME NEW j \in 0 .. (n - 1)
                     PROVE  ring.p[Slot(ring, ring.size + j)] \in Cell
          OBVIOUS
        <4>1. ring.size + j \in 0 .. (r.size - 1) /\ ring.size + j \in Nat
          BY <1>1, <3>1
        <4>2. Slot(r, ring.size + j) \in 0 .. (r.capacity - 1)
          BY <3>1, <4>1, SlotType
        <4>3. r.p \in [0 .. (r.capacity - 1) -> Cell]
          BY <3>1, Fields
        <4> HIDE DEF r
        <4> QED BY <3>1, <4>1, <4>2, <4>3
      <3>3. Contents(r) = Appended(ring, n, data)
        <4> HIDE DEF r
        <4>1. Contents(r) = [i \in 0 .. (ring.size + n - 1) |-> ring.p[Slot(ring, i)]]
          BY <1>1, <3>1 DEF Contents
        <4>2. ASSUME NEW i \in 0 .. (ring.size + n - 1)
              PROVE  ring.p[Slot(ring, i)] =
                       IF i < ring.size THEN Contents(ring)[i] ELSE data[i - ring.size]
          <5>1. CASE i < ring.size
            BY <1>1, <5>1 DEF Contents
          <5>2. CASE ~(i < ring.size)
            <6>1. i - ring.size \in 0 .. (n - 1) /\ ring.size + (i - ring.size) = i
              BY <1>1, <5>2
            <6> QED BY <5>2, <6>1
          <5> QED BY <5>1, <5>2
        <4> HIDE DEF data
        <4> QED BY <4>1, <4>2 DEF Appended
      <3> HIDE DEF r, data
      <3> QED BY <1>4, <2>1, <3>1, <3>2, <3>3 DEF r
    <2>2. CASE Fail("capacity")
      BY <1>2, <2>2
    <2> QED BY <1>8, <2>1, <2>2 DEF ring_push
  <1>9. ASSUME NEW n \in Sizes, NEW data \in Data(n), ring_push_write(n, data)
        PROVE  TypeOK' /\ Queue!Next
    <2>0. data \in [0 .. (n - 1) -> Cell] /\ \A j \in 0 .. (n - 1) : data[j] \in Cell
      BY <1>9 DEF Data, Cell
    <2>1. CASE /\ ring.size + n <= ring.capacity
               /\ Succeed(value_write(Pushed(ring, n), push_get(ring, n), data))
      <3> DEFINE r == value_write(Pushed(ring, n), push_get(ring, n), data)
      <3>1. RingOK(r) /\ r.size = ring.size + n /\ Contents(r) = Appended(ring, n, data)
        BY <1>1, <2>0, <2>1, PushWrittenBytes
      <3> HIDE DEF r
      <3> QED BY <1>4, <2>0, <2>1, <3>1 DEF r
    <2>2. CASE Fail("capacity")
      BY <1>2, <2>2
    <2> QED BY <1>9, <2>1, <2>2 DEF ring_push_write
  <1>10. ASSUME NEW n \in Sizes, NEW data \in [0 .. (n - 1) -> Cell],
                NEW o \in Nat, o + n <= ring.size,
                Succeed(value_write(ring, PartsAt(ring, o, n), data))
         PROVE  TypeOK' /\ Queue!Next
    <2> DEFINE r == value_write(ring, PartsAt(ring, o, n), data)
    <2>0. n \in Nat /\ \A j \in 0 .. (n - 1) : data[j] \in Cell
      BY <1>10, RingAssumption DEF Sizes
    <2>1. RingOK(r) /\ r.size = ring.size /\ Contents(r) = Patched(ring, o, n, data)
      BY <1>1, <1>10, <2>0, PatchedBytes
    <2> HIDE DEF r
    <2>2. TypeOK' /\ ring' = r /\ out' = Nothing /\ error' = "none"
      BY <1>3, <1>10, <2>1 DEF r
    <2>3. Contents(ring)' = Contents(r)
      BY <2>2 DEF Contents, Slot
    <2>4. Queue!Overwrite(o, n, data)
      BY <1>10, <2>1, <2>2, <2>3 DEF Queue!Overwrite, Patched, Nothing
    <2>5. o \in 0 .. ring.size
      BY <1>1, <1>10
    <2>6. \E m \in Queue!Sizes, i \in 0 .. ring.size :
            \E d \in [0 .. (m - 1) -> Queue!Cell] : Queue!Overwrite(i, m, d)
      BY <2>4, <2>5, Zenon DEF Cell
    <2> QED BY <2>2, <2>6 DEF Queue!Next
  <1>10a. ASSUME NEW n \in Sizes, NEW data \in Data(n), NEW offset \in Sizes,
                 NEW latest \in BOOLEAN, ring_get_write(offset, n, latest, data)
          PROVE  TypeOK' /\ Queue!Next
    <2> DEFINE o == First(ring, offset, n, latest)
    <2>1. CASE /\ offset + n <= ring.size
               /\ Succeed(value_write(ring, PartsAt(ring, o, n), data))
      <3>1. o \in Nat /\ o + n <= ring.size
        BY <1>1, <2>1 DEF First
      <3>2. data \in [0 .. (n - 1) -> Cell]
        BY <1>10a DEF Data, Cell
      <3> HIDE DEF o
      <3> QED BY <1>10, <2>1, <3>1, <3>2
    <2>2. CASE offset + n > ring.size /\ Fail("range")
      BY <1>2, <2>2
    <2> QED BY <1>10a, <2>1, <2>2 DEF ring_get_write, ring_get
  <1>11. ASSUME NEW n \in Sizes, n <= ring.size, ring' = Popped(ring, n),
                out' = [i \in 0 .. (n - 1) |-> Contents(ring)[i]],
                error' = "none", UNCHANGED g_memory
         PROVE  TypeOK' /\ Queue!Next
    <2> DEFINE r == Popped(ring, n)
    <2>1. /\ RingOK(r) /\ r.size = ring.size - n /\ r.capacity = ring.capacity
          /\ Contents(r) = Tailed(ring, n)
      BY <1>1, <1>11, PoppedBytes
    <2> HIDE DEF r
    <2>2. ring' = r
      BY <1>11 DEF r
    <2>3. TypeOK'
      BY <1>1, <1>11, <2>1, <2>2 DEF TypeOK
    <2>4. Contents(ring)' = Contents(r)
      BY <2>2 DEF Contents, Slot
    <2>5. Queue!Remove(n)
      BY <1>11, <2>1, <2>2, <2>4 DEF Queue!Remove, Tailed
    <2> QED BY <2>3, <2>5 DEF Queue!Next
  <1>12. ASSUME NEW n \in Sizes, ring_pop_read(n)
         PROVE  TypeOK' /\ Queue!Next
    <2>1. CASE /\ n <= ring.size /\ ring' = Popped(ring, n)
               /\ out' = value_read(ring, ring_get(ring, 0, n, FALSE))
               /\ error' = "none" /\ UNCHANGED g_memory
      <3>1. PICK p1, n1, n2 \in Nat : Fits(ring, 0, n, p1, n1, n2)
        BY <1>1, <2>1, GetParts
      <3>2. ring_get(ring, 0, n, FALSE) = Value(p1, n1, 0, n2)
        BY <3>1 DEF Fits, ring_get, First
      <3>3. value_read(ring, Value(p1, n1, 0, n2)) =
              [i \in 0 .. (n1 + n2 - 1) |->
                 ring.p[IF i < n1 THEN p1 + i ELSE 0 + (i - n1)]]
        BY DEF value_read, value_size, Address, Value
      <3>4. \A i \in 0 .. (n - 1) :
              /\ (IF i < n1 THEN p1 + i ELSE 0 + (i - n1)) = Slot(ring, i)
              /\ i \in 0 .. (ring.size - 1)
        BY <1>1, <2>1, <3>1 DEF Fits
      <3>5. out' = [i \in 0 .. (n - 1) |-> Contents(ring)[i]]
        <4>1. n1 + n2 - 1 = n - 1
          BY <3>1 DEF Fits
        <4>2. \A i \in 0 .. (n - 1) : Contents(ring)[i] = ring.p[Slot(ring, i)]
          BY <3>4 DEF Contents
        <4> QED BY <2>1, <3>2, <3>3, <3>4, <4>1, <4>2
      <3> QED BY <1>11, <2>1, <3>5
    <2>2. CASE n > ring.size /\ Fail("underflow")
      BY <1>2, <2>2
    <2> QED BY <1>12, <2>1, <2>2 DEF ring_pop_read
  <1>13. ASSUME NEW k \in Sizes, server_send_long_output_buffer(k)
         PROVE  TypeOK' /\ Queue!Next
    <2>1. ring.size <= ring.capacity /\ k <= ring.size
      BY <1>1, <1>13 DEF server_send_long_output_buffer
    <2>2. \A i \in 0 .. (k - 1) :
            value_read(ring, ring_get_all(ring))[i] = Contents(ring)[i]
      <3> SUFFICES ASSUME NEW i \in 0 .. (k - 1)
                   PROVE  value_read(ring, ring_get_all(ring))[i] = Contents(ring)[i]
        OBVIOUS
      <3> DEFINE after == ring.capacity - ring.begin
                 n1 == IF ring.size <= after THEN ring.size ELSE after
      <3>1. /\ i \in 0 .. (ring.size - 1) /\ ring.capacity # 0 /\ n1 \in Nat
            /\ ring.size - n1 \in Nat /\ after \in Nat
        BY <1>1, <2>1, Fields
      <3>2. ring_get_all(ring) = Value(ring.begin, n1, 0, ring.size - n1)
        BY <1>1, <3>1 DEF ring_get_all, ContinuousAfterBegin
      <3>3. (IF i < n1 THEN ring.begin + i ELSE 0 + (i - n1)) = Slot(ring, i)
        BY <1>1, <3>1 DEF Slot
      <3> HIDE DEF n1
      <3>4. value_read(ring, Value(ring.begin, n1, 0, ring.size - n1)) =
              [j \in 0 .. (n1 + (ring.size - n1) - 1) |->
                 ring.p[IF j < n1 THEN ring.begin + j ELSE 0 + (j - n1)]]
        BY SMTT(30), <1>1, <3>1 DEF value_read, value_size, Address, Value
      <3>5. n1 + (ring.size - n1) - 1 = ring.size - 1
        BY <1>1, <3>1
      <3> QED BY <3>1, <3>2, <3>3, <3>4, <3>5 DEF Contents
    <2>3. out' = [i \in 0 .. (k - 1) |-> Contents(ring)[i]]
      BY <1>13, <2>2 DEF server_send_long_output_buffer
    <2> QED BY <1>11, <1>13, <2>1, <2>3 DEF server_send_long_output_buffer
  <1>14. ASSUME NEW n \in Sizes, ring_unpush(n)
         PROVE  TypeOK' /\ Queue!Next
    <2>1. CASE n <= ring.size /\ Succeed(Unpushed(ring, n))
      <3> DEFINE r == Unpushed(ring, n)
      <3>1. RingOK(r) /\ r.size = ring.size - n /\ Contents(r) = Fronted(ring, n)
        BY <1>1, <2>1, UnpushedBytes
      <3> HIDE DEF r
      <3>2. TypeOK' /\ ring' = r /\ out' = Nothing /\ error' = "none"
        BY <1>3, <2>1, <3>1 DEF r
      <3>3. Contents(ring)' = Contents(r)
        BY <3>2 DEF Contents, Slot
      <3>4. Queue!TakeBack(n)
        BY <2>1, <3>1, <3>2, <3>3 DEF Queue!TakeBack, Fronted, Nothing
      <3> QED BY <3>2, <3>4 DEF Queue!Next
    <2>2. CASE n > ring.size /\ Fail("underflow")
      BY <1>2, <2>2
    <2> QED BY <1>14, <2>1, <2>2 DEF ring_unpush
  <1>15. ASSUME NEW n \in Sizes, NEW data \in Data(n), NEW k \in 0 .. n,
                server_receive_stream(n, k, data)
         PROVE  TypeOK' /\ Queue!Next
    <2>1. PICK m \in NewCapacities(ring, ring.size + n) :
            \/ Succeed(Unpushed(Written(Pushed(Reserved(ring, m), n),
                                        push_get(Reserved(ring, m), n), k, data), n - k))
            \/ NoMemory(m)
      BY <1>15 DEF server_receive_stream
    <2> DEFINE q == Reserved(ring, m)
               w == Unpushed(Written(Pushed(q, n), push_get(q, n), k, data), n - k)
    <2>2. CASE Succeed(w)
      <3> DEFINE head == [j \in 0 .. (k - 1) |-> data[j]]
      <3>1. /\ RingOK(q) /\ q.size = ring.size /\ q.capacity = m
            /\ ring.size + n <= m /\ Contents(q) = Contents(ring)
        <4>1. ring.size + n \in Nat
          BY <1>1
        <4> QED BY <1>1, <4>1, ReservedBytes
      <3> HIDE DEF q
      <3>2. \A j \in 0 .. (k - 1) : data[j] \in Cell
        BY <1>15 DEF Data, Cell
      <3>3. RingOK(w) /\ w.size = q.size + k /\ Contents(w) = Appended(q, k, data)
        <4>1. n \in Nat /\ q.size + n <= q.capacity
          BY <1>1, <3>1
        <4> QED BY <3>1, <3>2, <4>1, AppendedBytes
      <3> HIDE DEF w
      <3>4. head \in [0 .. (k - 1) -> Cell]
        BY <3>2
      <3>5. Appended(q, k, data) = Appended(ring, k, head)
        BY <1>1, <3>1 DEF Appended
      <3>6. k \in Sizes
        BY <1>1
      <3> HIDE DEF head
      <3> QED BY <1>4, <2>2, <3>1, <3>3, <3>4, <3>5, <3>6
    <2>3. CASE NoMemory(m)
      BY <1>2, <2>3 DEF NoMemory
    <2> QED BY <2>1, <2>2, <2>3
  <1>16. ASSUME NEW n \in Sizes, NEW data \in Data(n), NEW k \in 0 .. n,
                server_reserve_push_value(n, k, data)
         PROVE  TypeOK' /\ Queue!Next
    <2> DEFINE rest == [i \in 0 .. (n - k - 1) |-> data[k + i]]
               R1(q) == value_write(Pushed(q, k), push_get(q, k), data)
               R2(r1) == value_write(Pushed(r1, n - k), push_get(r1, n - k), rest)
    <2>1. PICK m \in NewCapacities(ring, ring.size + n) :
            Succeed(R2(R1(Reserved(ring, m)))) \/ NoMemory(m)
      BY <1>16 DEF server_reserve_push_value
    <2> DEFINE q == Reserved(ring, m)
               r1 == R1(q)
               r2 == R2(r1)
    <2>2. CASE Succeed(r2)
      <3>1. /\ RingOK(q) /\ q.size = ring.size /\ q.capacity = m
            /\ ring.size + n <= m /\ Contents(q) = Contents(ring)
        <4>1. ring.size + n \in Nat
          BY <1>1
        <4> QED BY <1>1, <4>1, ReservedBytes
      <3>2. /\ n \in Nat /\ k \in Nat /\ n - k \in Nat /\ m \in Nat /\ k <= n
            /\ \A j \in 0 .. (n - 1) : data[j] \in Cell
            /\ \A j \in 0 .. (k - 1) : data[j] \in Cell
            /\ \A j \in 0 .. (n - k - 1) : rest[j] \in Cell
        BY SMTT(30), <1>1, <1>16, <3>1, Fields DEF Data, Cell
      <3> HIDE DEF q, rest
      <3>3. /\ RingOK(r1) /\ r1.size = q.size + k /\ r1.capacity = q.capacity
            /\ Contents(r1) = Appended(q, k, data)
        <4>1. q.size + k <= q.capacity
          BY <1>1, <3>1, <3>2
        <4> QED BY <3>1, <3>2, <4>1, PushWrittenBytes
      <3> HIDE DEF r1, R1
      <3>4. /\ RingOK(r2) /\ r2.size = r1.size + (n - k)
            /\ Contents(r2) = Appended(r1, n - k, rest)
        <4>1. r1.size + (n - k) <= r1.capacity
          BY <1>1, <3>1, <3>2, <3>3
        <4> QED BY <3>2, <3>3, <4>1, PushWrittenBytes
      <3> HIDE DEF r2, R2
      <3>5. r1.size = ring.size + k /\ r2.size = ring.size + n
        BY <1>1, <3>1, <3>2, <3>3, <3>4
      <3>6. Contents(r2) = Appended(ring, n, data)
        <4>1. Contents(r2) = [i \in 0 .. (ring.size + n - 1) |->
                IF i < ring.size + k THEN Contents(r1)[i] ELSE rest[i - (ring.size + k)]]
          <5>1. r1.size + (n - k) - 1 = ring.size + n - 1
            BY <1>1, <3>2, <3>5
          <5>2. Contents(r2) = [i \in 0 .. (r1.size + (n - k) - 1) |->
                  IF i < r1.size THEN Contents(r1)[i] ELSE rest[i - r1.size]]
            BY <3>4 DEF Appended
          <5> QED BY <3>5, <5>1, <5>2
        <4>2. ASSUME NEW i \in 0 .. (ring.size + n - 1)
              PROVE  (IF i < ring.size + k THEN Contents(r1)[i]
                                           ELSE rest[i - (ring.size + k)])
                     = (IF i < ring.size THEN Contents(ring)[i] ELSE data[i - ring.size])
          <5>1. CASE i < ring.size + k
            <6>1. i \in 0 .. (q.size + k - 1)
              BY <1>1, <3>1, <3>2, <5>1
            <6>2. Contents(r1)[i] = IF i < q.size THEN Contents(q)[i] ELSE data[i - q.size]
              BY <3>3, <6>1 DEF Appended
            <6> QED BY <3>1, <5>1, <6>2
          <5>2. CASE ~(i < ring.size + k)
            <6>1. /\ i - (ring.size + k) \in 0 .. (n - k - 1)
                  /\ k + (i - (ring.size + k)) = i - ring.size
                  /\ ~(i < ring.size)
              BY <1>1, <3>2, <5>2
            <6>2. rest[i - (ring.size + k)] = data[k + (i - (ring.size + k))]
              BY <6>1 DEF rest
            <6> QED BY <5>2, <6>1, <6>2
          <5> QED BY <5>1, <5>2
        <4> QED BY <4>1, <4>2 DEF Appended
      <3>7. data \in [0 .. (n - 1) -> Cell]
        BY <1>16 DEF Data, Cell
      <3> QED BY <1>4, <2>2, <3>4, <3>5, <3>6, <3>7
    <2>3. CASE NoMemory(m)
      BY <1>2, <2>3 DEF NoMemory
    <2> QED BY <2>1, <2>2, <2>3
  <1> QED
    BY <1>5, <1>6, <1>7, <1>8, <1>9, <1>10a, <1>12, <1>13, <1>14, <1>15, <1>16 DEF Next

------------------------------------------------------------------------------
(***************************************************************************)
(* The ring stays well formed whatever is called on it: its size and begin *)
(* never leave its memory and g_memory counts that memory (ring.c,         *)
(* memory.c).                                                              *)
(***************************************************************************)
THEOREM RingTypeOK == Spec => []TypeOK
  <1>1. Init => TypeOK
    BY DEF Init, TypeOK, RingOK, EmptyRing, Nothing
  <1>2. TypeOK /\ [Next]_vars => TypeOK'
    <2>1. TypeOK /\ UNCHANGED vars => TypeOK'
      BY DEF TypeOK, vars
    <2> QED BY <2>1, StepQueue
  <1> QED BY <1>1, <1>2, PTL DEF Spec

(***************************************************************************)
(* struct Ring implements a queue of bytes: for every capacity, every      *)
(* sequence of calls and every place where the bytes wrap, ring.c and its  *)
(* callers read, write, patch and drop exactly the bytes a queue would.    *)
(***************************************************************************)
THEOREM RingIsQueue == Spec => IsQueue
  <1>1. Init => Queue!Init
    BY DEF Init, Queue!Init, EmptyRing, Contents, Nothing, Queue!Nothing
  <1>2. TypeOK /\ [Next]_vars => [Queue!Next]_(Queue!vars)
    <2>1. UNCHANGED vars => UNCHANGED Queue!vars
      BY DEF vars, Queue!vars, Contents, Slot
    <2> QED BY <2>1, StepQueue
  <1> QED BY <1>1, <1>2, RingTypeOK, PTL DEF Spec, IsQueue, Queue!Spec

(***************************************************************************)
(* The parts that ring_get hands out never leave the memory and address    *)
(* the bytes of the location, counted from either end (ring_get, ring.c).  *)
(***************************************************************************)
THEOREM RingGetAddresses == Spec => []GetAddressesLocation
  <1>1. TypeOK => GetAddressesLocation
    <2> SUFFICES ASSUME TypeOK, NEW offset \in 0 .. ring.size, NEW n \in 0 .. ring.size,
                        NEW latest \in BOOLEAN, offset + n <= ring.size,
                        NEW v, v = ring_get(ring, offset, n, latest)
                 PROVE  /\ value_size(v) = n
                        /\ \A j \in 1 .. 2 : v[j].p + v[j].size <= ring.capacity
                        /\ \A i \in 0 .. (n - 1) :
                             Address(v, i) =
                               Slot(ring, (IF latest THEN ring.size - offset - n ELSE offset) + i)
      BY DEF GetAddressesLocation
    <2> DEFINE o == First(ring, offset, n, latest)
    <2>1. RingOK(ring) /\ ring.size \in Nat
      BY Fields DEF TypeOK
    <2>2. n \in Nat /\ o \in Nat /\ o + n <= ring.size
      BY <2>1 DEF First
    <2>3. v = PartsAt(ring, o, n)
      BY DEF ring_get
    <2>o. o = IF latest THEN ring.size - offset - n ELSE offset
      BY <2>1 DEF First
    <2> HIDE DEF o
    <2>4. PICK p1, n1, n2 \in Nat : Fits(ring, o, n, p1, n1, n2)
      BY <2>1, <2>2, GetParts
    <2>5. v = Value(p1, n1, 0, n2)
      BY <2>3, <2>4 DEF Fits
    <2>6. v[1].p = p1 /\ v[1].size = n1 /\ v[2].p = 0 /\ v[2].size = n2
      BY <2>5 DEF Value
    <2>7. value_size(v) = n
      BY <2>4, <2>6 DEF Fits, value_size
    <2>8. \A j \in 1 .. 2 : v[j].p + v[j].size <= ring.capacity
      <3>1. 1 .. 2 = {1, 2}
        OBVIOUS
      <3> QED BY <2>4, <2>6, <3>1 DEF Fits
    <2>9. \A i \in 0 .. (n - 1) : Address(v, i) = Slot(ring, o + i)
      BY <2>2, <2>4, <2>6 DEF Fits, Address
    <2> QED BY <2>7, <2>8, <2>9, <2>o
  <1> QED BY <1>1, RingTypeOK, PTL
=============================================================================
