-------------------------- MODULE RingBufferProofs --------------------------
(* What the pointer arithmetic of RingBuffer computes, and that RingBuffer    *)
(* implements the bounded byte queue, for every capacity.                     *)
EXTENDS RingBuffer, SequenceTheorems, TLAPS

(* What is used and what is free always add up to the capacity, and the two   *)
(* pieces offered for writing are the free space (ring_buffer.cpp:43-98).     *)
LEMMA Sizes ==
  ASSUME NEW f \in Offsets, NEW r \in Offsets
  PROVE  /\ GetUseSize(f, r) \in Nat /\ GetUseSize(f, r) \in 0 .. MaxSize
         /\ GetFreeSize(f, r) \in Nat /\ GetFreeSize(f, r) \in 0 .. MaxSize
         /\ GetUseSize(f, r) + GetFreeSize(f, r) = MaxSize
         /\ DirectEnqueueSize(f, r) + AfterEnqueueSize(f, r) = GetFreeSize(f, r)
         /\ DirectDequeueSize(f, r) <= GetUseSize(f, r)
         /\ GetUseSize(f, r) > 0 => DirectDequeueSize(f, r) > 0
  BY MaxSizeAssumption
     DEF Offsets, GetUseSize, GetFreeSize, RealSize, DirectEnqueueSize,
         AfterEnqueueSize, DirectDequeueSize

(* MoveRear and MoveFront accept exactly the distances that fit, unless the   *)
(* buffer is full, respectively empty (ring_buffer.cpp:206-259).              *)
LEMMA MoveTests ==
  ASSUME NEW f \in Offsets, NEW r \in Offsets, NEW n \in Nat \ {0}
  PROVE  /\ GetFreeSize(f, r) > 0 => (MoveRearOK(f, r, n) <=> n <= GetFreeSize(f, r))
         /\ GetUseSize(f, r) > 0 => (MoveFrontOK(f, r, n) <=> n <= GetUseSize(f, r))
  BY MaxSizeAssumption
     DEF Offsets, GetUseSize, GetFreeSize, RealSize, MoveRearOK, MoveFrontOK

(* A copy loop whose exit test first holds at k stops at k.                   *)
LEMMA LoopStops ==
  ASSUME NEW size \in Nat, NEW stops \in SUBSET (1 .. size), NEW k \in Nat \ {0},
         \A i \in stops : k <= i,
         k <= size => k \in stops
  PROVE  LoopCount(size, stops) = IF size <= k THEN size ELSE k
  <1>1. CASE stops = {}
    BY <1>1 DEF LoopCount
  <1>2. CASE stops # {}
    <2>1. k <= size /\ k \in stops
      <3>1. PICK i \in stops : TRUE
        BY <1>2
      <3> QED
        BY <3>1
    <2>2. \A m \in stops : IsMin(stops, m) <=> m = k
      BY <2>1 DEF IsMin
    <2>3. (CHOOSE m \in stops : IsMin(stops, m)) = k
      BY <2>1, <2>2
    <2>4. LoopCount(size, stops) = k
      BY <1>2, <2>3 DEF LoopCount
    <2> QED
      BY <2>1, <2>4
  <1> QED
    BY <1>1, <1>2

(* Enqueue copies all bytes or as many as are free (ring_buffer.cpp:126-144). *)
LEMMA EnqueueCopies ==
  ASSUME NEW f \in Offsets, NEW r \in Offsets, NEW size \in Nat
  PROVE  EnqueueCount(f, r, size) =
           IF size <= GetFreeSize(f, r) THEN size ELSE GetFreeSize(f, r)
  <1> DEFINE free  == GetFreeSize(f, r)
             stops == {i \in 1 .. size : Wrap(Wrap(r + i) + 1) = f}
  <1>1. free \in 0 .. MaxSize /\ (Wrap(r + 1) = f <=> free = 0)
    BY Sizes, MaxSizeAssumption DEF Wrap, RealSize, GetFreeSize, Offsets
  <1>2. CASE free = 0
    BY <1>1, <1>2 DEF EnqueueCount
  <1>3. CASE free # 0
    <2> SUFFICES LoopCount(size, stops) = IF size <= free THEN size ELSE free
      BY <1>1, <1>3 DEF EnqueueCount
    <2>1. \A i \in stops : free <= i
      BY MaxSizeAssumption DEF Wrap, RealSize, GetFreeSize, Offsets
    <2>2. free <= size => free \in stops
      BY <1>1, <1>3, MaxSizeAssumption DEF Wrap, RealSize, GetFreeSize, Offsets
    <2>3. free \in Nat \ {0} /\ stops \in SUBSET (1 .. size)
      BY <1>1, <1>3
    <2> HIDE DEF free, stops
    <2> QED
      BY <2>1, <2>2, <2>3, LoopStops
  <1> QED
    BY <1>2, <1>3

(* Dequeue and Peek copy all bytes asked for or as many as are stored         *)
(* (ring_buffer.cpp:155-173).                                                 *)
LEMMA DequeueCopies ==
  ASSUME NEW f \in Offsets, NEW r \in Offsets, NEW size \in Nat
  PROVE  DequeueCount(f, r, size) =
           IF size <= GetUseSize(f, r) THEN size ELSE GetUseSize(f, r)
  <1> DEFINE use   == GetUseSize(f, r)
             stops == {i \in 1 .. size : Wrap(f + i) = r}
  <1>1. use \in 0 .. MaxSize /\ (f = r <=> use = 0)
    BY Sizes, MaxSizeAssumption DEF RealSize, GetUseSize, Offsets
  <1>2. CASE use = 0
    BY <1>1, <1>2 DEF DequeueCount
  <1>3. CASE use # 0
    <2> SUFFICES LoopCount(size, stops) = IF size <= use THEN size ELSE use
      BY <1>1, <1>3 DEF DequeueCount
    <2>1. \A i \in stops : use <= i
      BY <1>1, <1>3, MaxSizeAssumption DEF Wrap, RealSize, GetUseSize, Offsets
    <2>2. use <= size => use \in stops
      BY <1>1, <1>3, MaxSizeAssumption DEF Wrap, RealSize, GetUseSize, Offsets
    <2>3. use \in Nat \ {0} /\ stops \in SUBSET (1 .. size)
      BY <1>1, <1>3
    <2> HIDE DEF use, stops
    <2> QED
      BY <2>1, <2>2, <2>3, LoopStops
  <1> QED
    BY <1>2, <1>3

(* Moving a pointer by what fits changes what is used by as much.             *)
LEMMA Moved ==
  ASSUME NEW f \in Offsets, NEW r \in Offsets
  PROVE  /\ \A n \in 0 .. GetFreeSize(f, r) :
              /\ Wrap(r + n) \in Offsets
              /\ GetUseSize(f, Wrap(r + n)) = GetUseSize(f, r) + n
         /\ \A n \in 0 .. GetUseSize(f, r) :
              /\ Wrap(f + n) \in Offsets
              /\ GetUseSize(Wrap(f + n), r) = GetUseSize(f, r) - n
  BY MaxSizeAssumption DEF Offsets, GetUseSize, GetFreeSize, RealSize, Wrap
-----------------------------------------------------------------------------
(* The bytes stored from offset f to offset r of array b, oldest first.       *)
Contents(f, r, b) == [i \in 1 .. GetUseSize(f, r) |-> b[Wrap(f + i - 1)]]

LEMMA ContentsType ==
  ASSUME NEW f \in Offsets, NEW r \in Offsets, NEW b \in [Offsets -> Bytes]
  PROVE  /\ Contents(f, r, b) \in Seq(Bytes)
         /\ Len(Contents(f, r, b)) = GetUseSize(f, r)
  <1>1. GetUseSize(f, r) \in 0 .. MaxSize
    BY Sizes
  <1>2. \A i \in 1 .. GetUseSize(f, r) : Wrap(f + i - 1) \in Offsets
    BY <1>1, MaxSizeAssumption DEF Wrap, RealSize, Offsets
  <1> QED
    BY <1>1, <1>2 DEF Contents

(* Array b with the first n bytes of d copied in from offset r on.            *)
Filled(r, b, d, n) ==
  [o \in Offsets |-> IF Ahead(r, o) < n THEN d[Ahead(r, o) + 1] ELSE b[o]]

(* Copying n bytes that fit to the rear appends them.                         *)
LEMMA Appends ==
  ASSUME NEW f \in Offsets, NEW r \in Offsets, NEW b \in [Offsets -> Bytes],
         NEW d \in Seq(Bytes), NEW n \in 0 .. Len(d), n <= GetFreeSize(f, r)
  PROVE  /\ Wrap(r + n) \in Offsets
         /\ Filled(r, b, d, n) \in [Offsets -> Bytes]
         /\ Contents(f, Wrap(r + n), Filled(r, b, d, n)) = Contents(f, r, b) \o SubSeq(d, 1, n)
  <1> DEFINE use == GetUseSize(f, r)
             end == Wrap(r + n)
             s   == Contents(f, r, b)
             e   == SubSeq(d, 1, n)
             c   == Filled(r, b, d, n)
  <1>1. use \in 0 .. MaxSize /\ use + n <= MaxSize
    BY Sizes
  <1>2. end \in Offsets /\ GetUseSize(f, end) = use + n
    BY <1>1, MaxSizeAssumption DEF Wrap, RealSize, GetUseSize, GetFreeSize, Offsets
  <1>3. \A o \in Offsets : Ahead(r, o) \in Nat
    BY MaxSizeAssumption DEF Ahead, RealSize, Offsets
  <1>4. \A o \in Offsets : Ahead(r, o) < n => d[Ahead(r, o) + 1] \in Bytes
    BY <1>3
  <1>5. c \in [Offsets -> Bytes]
    BY <1>4 DEF Filled
  <1>6. e \in Seq(Bytes) /\ Len(e) = n /\ \A i \in 1 .. n : e[i] = d[i]
    OBVIOUS
  <1>7. s \in Seq(Bytes) /\ Len(s) = use
    BY ContentsType
  <1>8. \A i \in 1 .. use + n : Wrap(f + i - 1) \in Offsets
    BY <1>1, MaxSizeAssumption DEF Wrap, RealSize, Offsets
  <1>9. ASSUME NEW i \in 1 .. use
        PROVE  c[Wrap(f + i - 1)] = s[i]
    <2>1. Ahead(r, Wrap(f + i - 1)) >= n
      BY <1>1, MaxSizeAssumption
         DEF Wrap, RealSize, GetUseSize, GetFreeSize, Offsets, Ahead
    <2>2. s[i] = b[Wrap(f + i - 1)]
      BY DEF Contents
    <2> QED
      BY <2>1, <2>2, <1>1, <1>3, <1>8 DEF Filled
  <1>10. ASSUME NEW i \in use + 1 .. use + n
         PROVE  c[Wrap(f + i - 1)] = e[i - use]
    <2>1. Ahead(r, Wrap(f + i - 1)) = i - use - 1
      BY <1>1, MaxSizeAssumption
         DEF Wrap, RealSize, GetUseSize, GetFreeSize, Offsets, Ahead
    <2> QED
      BY <2>1, <1>1, <1>6, <1>8 DEF Filled
  <1> HIDE DEF use, end, s, e, c
  <1>11. /\ s \o e \in Seq(Bytes) /\ Len(s \o e) = use + n
         /\ \A i \in 1 .. use + n : (s \o e)[i] = IF i <= use THEN s[i] ELSE e[i - use]
    BY <1>6, <1>7, ConcatProperties
  <1>12. /\ Contents(f, end, c) \in Seq(Bytes) /\ Len(Contents(f, end, c)) = use + n
         /\ \A i \in 1 .. use + n : Contents(f, end, c)[i] = c[Wrap(f + i - 1)]
    BY <1>2, <1>5, ContentsType DEF Contents
  <1>13. \A i \in 1 .. use + n : c[Wrap(f + i - 1)] = IF i <= use THEN s[i] ELSE e[i - use]
    <2> TAKE i \in 1 .. use + n
    <2>1. n \in Nat /\ use \in Nat
      BY <1>1
    <2>2. i \in 1 .. use \/ (i \in use + 1 .. use + n /\ ~(i <= use))
      BY <2>1
    <2>3. CASE i \in 1 .. use
      BY <2>1, <2>3, <1>9
    <2>4. CASE i \in use + 1 .. use + n /\ ~(i <= use)
      BY <2>4, <1>10
    <2> QED
      BY <2>2, <2>3, <2>4
  <1>14. Contents(f, end, c) = s \o e
    BY <1>11, <1>12, <1>13, SeqEqual
  <1> QED
    BY <1>2, <1>5, <1>14 DEF end, s, e, c

(* Advancing the front by n stored bytes drops the n oldest ones, which are   *)
(* those a copying call hands out.                                            *)
LEMMA Removes ==
  ASSUME NEW f \in Offsets, NEW r \in Offsets, NEW b \in [Offsets -> Bytes],
         NEW n \in 0 .. GetUseSize(f, r)
  PROVE  /\ Wrap(f + n) \in Offsets
         /\ [i \in 1 .. n |-> b[Wrap(f + i - 1)]] = SubSeq(Contents(f, r, b), 1, n)
         /\ Contents(Wrap(f + n), r, b)
              = SubSeq(Contents(f, r, b), n + 1, Len(Contents(f, r, b)))
  <1> DEFINE use == GetUseSize(f, r)
             new == Wrap(f + n)
             s   == Contents(f, r, b)
  <1>1. use \in 0 .. MaxSize
    BY Sizes
  <1>2. new \in Offsets /\ GetUseSize(new, r) = use - n
    BY <1>1, MaxSizeAssumption DEF Wrap, RealSize, GetUseSize, Offsets
  <1>3. s \in Seq(Bytes) /\ Len(s) = use
    BY ContentsType
  <1>4. \A i \in 1 .. use : s[i] = b[Wrap(f + i - 1)]
    BY DEF Contents
  <1>5. SubSeq(s, 1, n) = [i \in 1 .. n |-> s[i]]
    BY <1>1, <1>3
  <1>6. SubSeq(s, n + 1, use) = [i \in 1 .. use - n |-> s[n + i]]
    BY <1>1, <1>3
  <1>7. \A i \in 1 .. use - n : Wrap(new + i - 1) = Wrap(f + (n + i) - 1)
    BY <1>1, MaxSizeAssumption DEF Wrap, RealSize, GetUseSize, Offsets
  <1>8. Contents(new, r, b) = [i \in 1 .. use - n |-> b[Wrap(new + i - 1)]]
    BY <1>2 DEF Contents
  <1> HIDE DEF use, new, s
  <1>9. \A i \in 1 .. use - n : b[Wrap(new + i - 1)] = s[n + i]
    <2> TAKE i \in 1 .. use - n
    <2>1. n + i \in 1 .. use
      BY <1>1 DEF use
    <2> QED
      BY <2>1, <1>4, <1>7
  <1>10. Contents(new, r, b) = SubSeq(s, n + 1, Len(s))
    BY <1>3, <1>6, <1>8, <1>9
  <1>11. [i \in 1 .. n |-> b[Wrap(f + i - 1)]] = SubSeq(s, 1, n)
    BY <1>1, <1>4, <1>5 DEF use
  <1> QED
    BY <1>2, <1>10, <1>11 DEF new, s
-----------------------------------------------------------------------------
LEMMA ChunkType == \A d \in Chunks : d \in Seq(Bytes)
  BY MaxChunkAssumption DEF Chunks

(* What the copying calls do in a state of the buffer.                        *)
LEMMA Writing ==
  ASSUME TypeOK, NEW d \in Seq(Bytes), NEW n \in 0 .. Len(d),
         n <= GetFreeSize(front, rear)
  PROVE  /\ Wrap(rear + n) \in Offsets
         /\ Written(d, n) \in [Offsets -> Bytes]
         /\ Contents(front, Wrap(rear + n), Written(d, n))
              = Contents(front, rear, buf) \o SubSeq(d, 1, n)
  <1>1. Written(d, n) = Filled(rear, buf, d, n)
    BY DEF Written, Filled
  <1>2. front \in Offsets /\ rear \in Offsets /\ buf \in [Offsets -> Bytes]
    BY DEF TypeOK
  <1> QED
    BY <1>1, <1>2, Appends

LEMMA Reading ==
  ASSUME TypeOK, NEW n \in 0 .. GetUseSize(front, rear)
  PROVE  /\ Wrap(front + n) \in Offsets
         /\ Stored(n) \in Seq(Bytes)
         /\ Stored(n) = SubSeq(Contents(front, rear, buf), 1, n)
         /\ Contents(Wrap(front + n), rear, buf)
              = SubSeq(Contents(front, rear, buf), n + 1,
                       Len(Contents(front, rear, buf)))
  <1> DEFINE s == Contents(front, rear, buf)
  <1>1. front \in Offsets /\ rear \in Offsets /\ buf \in [Offsets -> Bytes]
    BY DEF TypeOK
  <1>2. GetUseSize(front, rear) \in Nat
    BY <1>1, Sizes
  <1>3. s \in Seq(Bytes) /\ Len(s) = GetUseSize(front, rear)
    BY <1>1, ContentsType
  <1>4. /\ Wrap(front + n) \in Offsets
        /\ Stored(n) = SubSeq(s, 1, n)
        /\ Contents(Wrap(front + n), rear, buf) = SubSeq(s, n + 1, Len(s))
    BY <1>1, Removes DEF Stored
  <1> HIDE DEF s
  <1>5. SubSeq(s, 1, n) \in Seq(Bytes)
    BY <1>2, <1>3
  <1> QED
    BY <1>4, <1>5 DEF s

(* Every call leaves both pointers inside the array and the array full of     *)
(* bytes, for every capacity (ring_buffer.cpp:122-264).                       *)
THEOREM Typing == Spec => []TypeOK
  <1>1. Init => TypeOK
    BY MaxSizeAssumption, BytesAssumption DEF Init, TypeOK, Offsets
  <1>2. TypeOK /\ [Next]_vars => TypeOK'
    <2> SUFFICES ASSUME TypeOK, [Next]_vars PROVE TypeOK'
      OBVIOUS
    <2> USE DEF TypeOK
    <2>0. GetUseSize(front, rear) \in Nat /\ GetFreeSize(front, rear) \in Nat
      BY Sizes
    <2>1. ASSUME NEW d \in Chunks, Enqueue(d) PROVE TypeOK'
      <3> DEFINE n == EnqueueCount(front, rear, Len(d))
      <3>1. d \in Seq(Bytes) /\ n \in 0 .. Len(d) /\ n <= GetFreeSize(front, rear)
        BY <2>0, ChunkType, EnqueueCopies
      <3> HIDE DEF n
      <3>2. Wrap(rear + n) \in Offsets /\ Written(d, n) \in [Offsets -> Bytes]
        BY <3>1, Writing
      <3> QED
        BY <2>1, <3>2 DEF Enqueue, n
    <2>2. ASSUME NEW d \in Chunks, Receive(d) PROVE TypeOK'
      <3> DEFINE n == Len(d)
      <3>1. d \in Seq(Bytes) /\ n \in 0 .. Len(d) /\ n <= GetFreeSize(front, rear)
        BY <2>0, <2>2, ChunkType, Sizes DEF Receive
      <3> HIDE DEF n
      <3>2. Wrap(rear + n) \in Offsets /\ Written(d, n) \in [Offsets -> Bytes]
        BY <3>1, Writing
      <3> QED
        BY <2>2, <3>2 DEF Receive, n
    <2>3. ASSUME NEW size \in 0 .. MaxChunk PROVE Dequeue(size) => TypeOK'
      <3> DEFINE n == DequeueCount(front, rear, size)
      <3>1. n \in 0 .. GetUseSize(front, rear)
        BY <2>0, DequeueCopies, MaxChunkAssumption
      <3> HIDE DEF n
      <3>2. Wrap(front + n) \in Offsets /\ Stored(n) \in Seq(Bytes)
        BY <3>1, Reading
      <3> QED
        BY <3>2 DEF Dequeue, n
    <2>4. ASSUME NEW size \in 0 .. MaxChunk PROVE Peek(size) => TypeOK'
      <3> DEFINE n == DequeueCount(front, rear, size)
      <3>1. n \in 0 .. GetUseSize(front, rear)
        BY <2>0, DequeueCopies, MaxChunkAssumption
      <3> HIDE DEF n
      <3>2. Stored(n) \in Seq(Bytes)
        BY <3>1, Reading
      <3> QED
        BY <3>2 DEF Peek, n
    <2>5. ASSUME NEW size \in 0 .. MaxChunk PROVE MoveFront(size) => TypeOK'
      <3>1. size <= Use => Wrap(front + size) \in Offsets
        BY <2>0, Reading, MaxChunkAssumption DEF Use
      <3> QED
        BY <3>1 DEF MoveFront
    <2>6. CASE ClearBuffer
      BY <2>6, MaxSizeAssumption DEF ClearBuffer, Offsets
    <2>7. CASE UNCHANGED vars
      BY <2>7 DEF vars
    <2> QED
      BY <2>1, <2>2, <2>3, <2>4, <2>5, <2>6, <2>7 DEF Next
  <1> QED
    BY <1>1, <1>2, PTL DEF Spec

(* At every reachable pair of offsets the size calls agree with one another   *)
(* (ring_buffer.cpp:43-120).                                                  *)
THEOREM SizesAlwaysAgree == Spec => []SizesAgree
  <1>1. TypeOK => SizesAgree
    BY Sizes DEF TypeOK, SizesAgree, Use, Free
  <1> QED
    BY <1>1, Typing, PTL

(* At every reachable pair of offsets MoveRear and MoveFront accept exactly   *)
(* the distances that fit, a full or empty buffer excepted                    *)
(* (ring_buffer.cpp:206-259).                                                 *)
THEOREM MovesAlwaysExact == Spec => []MovesExact
  <1>1. TypeOK => MovesExact
    BY MoveTests, MaxSizeAssumption DEF TypeOK, MovesExact, Use, Free, RealSize
  <1> QED
    BY <1>1, Typing, PTL

(* For every capacity, byte set and call size the ring buffer implements the  *)
(* bounded byte queue: no call loses, invents or reorders a byte              *)
(* (ring_buffer.cpp:122-264).                                                 *)
THEOREM Refinement == Spec => IsFifo
  <1>1. Init => Fifo!Init
    BY MaxSizeAssumption DEF Init, Fifo!Init, Stored, Use, GetUseSize
  <1>2. TypeOK /\ [Next]_vars => [Fifo!Next]_(Fifo!vars)
    <2> SUFFICES ASSUME TypeOK, [Next]_vars PROVE [Fifo!Next]_(Fifo!vars)
      OBVIOUS
    <2> DEFINE q == Stored(Use)
    <2>0. front \in Offsets /\ rear \in Offsets /\ buf \in [Offsets -> Bytes]
      BY DEF TypeOK
    <2>1. q = Contents(front, rear, buf) /\ q' = Contents(front', rear', buf')
      BY DEF Stored, Use, Contents
    <2>1a. /\ q \in Seq(Bytes) /\ Len(q) = GetUseSize(front, rear)
          /\ GetUseSize(front, rear) \in Nat /\ GetFreeSize(front, rear) \in Nat
          /\ MaxSize - Len(q) = GetFreeSize(front, rear)
      <3> HIDE DEF q
      <3>1. q \in Seq(Bytes) /\ Len(q) = GetUseSize(front, rear)
        BY <2>0, <2>1, ContentsType
      <3> QED
        BY <2>0, <3>1, Sizes, MaxSizeAssumption
    <2> HIDE DEF q
    <2>2. ASSUME NEW d \in Seq(Bytes), NEW n \in 0 .. Len(d),
                 n = Fifo!Least(Len(d), MaxSize - Len(q)),
                 buf' = Written(d, n), rear' = Wrap(rear + n), UNCHANGED <<front, out>>
          PROVE  Fifo!Put(d)
      <3>1. n <= GetFreeSize(front, rear)
        BY <2>1a, <2>2 DEF Fifo!Least
      <3>2. q' = q \o SubSeq(d, 1, n)
        BY <2>1, <2>2, <3>1, Writing
      <3> QED
        BY <2>2, <3>2 DEF Fifo!Put, q
    <2>3. ASSUME NEW d \in Chunks, Enqueue(d) PROVE Fifo!Put(d)
      <3> DEFINE n == EnqueueCount(front, rear, Len(d))
      <3>1. /\ d \in Seq(Bytes) /\ n \in 0 .. Len(d)
            /\ n = Fifo!Least(Len(d), MaxSize - Len(q))
        BY <2>0, <2>1a, ChunkType, EnqueueCopies DEF Fifo!Least
      <3> QED
        BY <2>2, <2>3, <3>1 DEF Enqueue
    <2>4. ASSUME NEW d \in Chunks, Receive(d) PROVE Fifo!Put(d)
      <3>1. /\ d \in Seq(Bytes) /\ Len(d) \in 0 .. Len(d)
            /\ Len(d) = Fifo!Least(Len(d), MaxSize - Len(q))
        BY <2>0, <2>1a, <2>4, ChunkType, Sizes DEF Fifo!Least, Receive
      <3> QED
        BY <2>2, <2>4, <3>1 DEF Receive
    <2>5. ASSUME NEW n \in 0 .. GetUseSize(front, rear)
          PROVE  /\ Stored(n) = SubSeq(q, 1, n)
                 /\ front' = Wrap(front + n) /\ UNCHANGED <<rear, buf>>
                      => q' = SubSeq(q, n + 1, Len(q))
      BY <2>1, Reading
    <2>6. ASSUME NEW size \in 0 .. MaxChunk
          PROVE  /\ Fifo!Least(size, Len(q)) = DequeueCount(front, rear, size)
                 /\ DequeueCount(front, rear, size) \in 0 .. GetUseSize(front, rear)
      BY <2>0, <2>1a, DequeueCopies, MaxChunkAssumption DEF Fifo!Least
    <2>7. ASSUME NEW size \in 0 .. MaxChunk, Dequeue(size) PROVE Fifo!Take(size)
      BY <2>5, <2>6, <2>7 DEF Dequeue, Fifo!Take, Fifo!Prefix, Fifo!Rest, q
    <2>8. ASSUME NEW size \in 0 .. MaxChunk, Peek(size) PROVE Fifo!Look(size)
      BY <2>1, <2>5, <2>6, <2>8 DEF Peek, Fifo!Look, Fifo!Prefix, q
    <2>9. ASSUME NEW size \in 0 .. MaxChunk, MoveFront(size) PROVE Fifo!Skip(size)
      <3>1. size \in 0 .. GetUseSize(front, rear)
        BY <2>9, <2>1a, MaxChunkAssumption DEF MoveFront, Use
      <3>2. q' = SubSeq(q, size + 1, Len(q)) /\ size <= Len(q)
        BY <2>5, <2>9, <2>1a, <3>1 DEF MoveFront
      <3> QED
        BY <2>9, <3>2 DEF MoveFront, Fifo!Skip, Fifo!Rest, q
    <2>10. CASE ClearBuffer
      BY <2>1, <2>10, MaxSizeAssumption
         DEF ClearBuffer, Contents, GetUseSize, Fifo!Next, Fifo!Clear, q
    <2>11. CASE UNCHANGED vars
      BY <2>1, <2>11 DEF vars, Fifo!vars, q
    <2>12. ASSUME NEW d \in Chunks, Fifo!Put(d) PROVE Fifo!Next
      BY <2>12 DEF Fifo!Next, Chunks, Fifo!Chunks
    <2>13. ASSUME NEW size \in 0 .. MaxChunk,
                  Fifo!Take(size) \/ Fifo!Look(size) \/ Fifo!Skip(size)
           PROVE  Fifo!Next
      BY <2>13 DEF Fifo!Next
    <2> QED
      BY <2>3, <2>4, <2>7, <2>8, <2>9, <2>10, <2>11, <2>12, <2>13 DEF Next
  <1> QED
    BY <1>1, <1>2, Typing, PTL DEF Spec, IsFifo, Fifo!Spec
=============================================================================
