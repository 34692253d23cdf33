-------------------------- MODULE SessionSendProofs --------------------------
(* Proofs about SessionSend for any threads, packets and batch size.          *)
EXTENDS SessionSend, SequenceTheorems, FiniteSetTheorems, TLAPS

(* The threads between taking IOSend and giving the session's WSASend away.   *)
Posting == {t \in Threads : pc[t] \in {"dequeue", "undo", "take", "remember",
                                       "rememberCount", "nothing", "post", "reset"}}

(* OneSend, as it is kept: IOSend belongs to a thread or to the kernel.       *)
OneOwner == /\ \A t, u \in Posting : t = u
            /\ inflight # <<>> => Posting = {}
            /\ inflight # <<>> \/ Posting # {} => ioSend

(* What a thread's place in the code says of its arguments and its batch.     *)
Locals == \A t \in Threads :
            /\ pc[t] = "enqueue" => t \in Senders
            /\ pc[t] = "nothing" => batch[t] = <<>>
            /\ pc[t] = "remember" => batch[t] # <<>>

(* FifoOnce, with the thread that has the batch named.                        *)
InOrder == ~broken =>
             /\ Drainers = {} => log = wire \o queue
             /\ \A t \in Drainers : log = wire \o batch[t] \o queue

(* A packet is sent by one caller, once.                                      *)
SentOnce == \A t \in Senders :
              /\ packet[t] \cap Range(log) = {}
              /\ \A u \in Senders : t # u => packet[t] \cap packet[u] = {}

Once(s) == \A i, j \in 1 .. Len(s) : s[i] = s[j] => i = j
Last(s) == s[Len(s)]

(* FreedOnce, with the places a packet goes through: it is queued, taken,     *)
(* remembered, freed, and never in two of them.                               *)
OnePlace ==
  /\ Once(queue) /\ Once(release)
  /\ Range(queue) \cap (Range(release) \cup freed) = {}
  /\ Range(release) \cap freed = {}
  /\ Range(queue) \cup Range(release) \cup freed \subseteq Range(log)
  /\ \A t \in Threads : pc[t] = "remember" =>
       Last(batch[t]) \in Range(log) \ (Range(queue) \cup Range(release) \cup freed)

(* What was sent and what is about to be is on ReleasePacket until it is      *)
(* freed, save for the packet that is just being put there.                   *)
Remembered ==
  /\ Range(wire) \subseteq Range(release) \cup freed
  /\ \A t \in Drainers : \A i \in 1 .. Len(batch[t]) :
       \/ batch[t][i] \in Range(release) \cup freed
       \/ i = Len(batch[t]) /\ pc[t] = "remember"

IInv == TypeOK /\ OneOwner /\ Locals /\ InOrder /\ SentOnce /\ OnePlace /\ Remembered
-----------------------------------------------------------------------------
LEMMA AppendOne ==
  ASSUME NEW S, NEW s \in Seq(S), NEW x \in S
  PROVE  /\ Append(s, x) \in Seq(S) /\ Append(s, x) # <<>>
         /\ Last(Append(s, x)) = x
         /\ Range(Append(s, x)) = Range(s) \cup {x}
         /\ Once(s) /\ x \notin Range(s) => Once(Append(s, x))
<1> DEFINE a == Append(s, x)
<1>1. /\ a \in Seq(S) /\ a # <<>> /\ Len(a) = Len(s) + 1 /\ Len(s) \in Nat
      /\ \A i \in 1 .. Len(s) : a[i] = s[i]
      /\ a[Len(s) + 1] = x
  BY AppendProperties
<1> HIDE DEF a
<1>2. Range(a) = {a[i] : i \in 1 .. Len(a)} /\ Range(s) = {s[i] : i \in 1 .. Len(s)}
  BY <1>1, RangeEquality
<1>3. Last(a) = x
  BY <1>1 DEF Last
<1>4. Range(a) = Range(s) \cup {x}
  BY <1>1, <1>2
<1>5. Once(s) /\ x \notin Range(s) => Once(a)
  BY <1>1, <1>2 DEF Once
<1> QED BY <1>1, <1>3, <1>4, <1>5 DEF a

LEMMA TakeOne ==
  ASSUME NEW S, NEW s \in Seq(S), s # <<>>
  PROVE  /\ Head(s) \in S /\ Tail(s) \in Seq(S)
         /\ Range(s) = {Head(s)} \cup Range(Tail(s))
         /\ Once(s) => Once(Tail(s)) /\ Head(s) \notin Range(Tail(s))
<1> DEFINE r == Tail(s)
<1>1. /\ Head(s) \in S /\ r \in Seq(S) /\ Len(r) = Len(s) - 1 /\ Len(s) \in Nat \ {0}
      /\ \A i \in 1 .. Len(r) : r[i] = s[i + 1]
      /\ Head(s) = s[1]
  BY HeadTailProperties
<1> HIDE DEF r
<1>2. Range(r) = {r[i] : i \in 1 .. Len(r)} /\ Range(s) = {s[i] : i \in 1 .. Len(s)}
  BY <1>1, RangeEquality
<1>3. Range(s) = {Head(s)} \cup Range(r)
  <2>1. \A i \in 1 .. Len(s) : i = 1 \/ (i - 1 \in 1 .. Len(r) /\ s[i] = r[i - 1])
    BY <1>1
  <2>2. \A i \in 1 .. Len(r) : i + 1 \in 1 .. Len(s) /\ r[i] = s[i + 1]
    BY <1>1
  <2> QED BY <1>1, <1>2, <2>1, <2>2
<1>4. Once(s) => Once(r) /\ Head(s) \notin Range(r)
  BY <1>1, <1>2 DEF Once
<1> QED BY <1>1, <1>3, <1>4 DEF r

(* Where a packet moves from one of three sequences to the next, what they    *)
(* are together stays.                                                        *)
LEMMA Shifted ==
  ASSUME NEW a \in Seq(Packets), NEW b \in Seq(Packets), NEW c \in Seq(Packets),
         NEW x \in Packets
  PROVE  /\ a \o Append(c, x) = Append(a \o c, x)
         /\ a \o b \o Append(c, x) = Append(a \o b \o c, x)
         /\ c # <<>> => a \o Append(b, Head(c)) \o Tail(c) = a \o b \o c
         /\ a \o <<>> \o c = a \o c
<1>1. a \o b \in Seq(Packets) /\ a \o c \in Seq(Packets) /\ a \o b \o c \in Seq(Packets)
  BY ConcatProperties
<1>2. a \o Append(c, x) = Append(a \o c, x)
  BY AppendIsConcat, ConcatAssociative, <1>1, <<x>> \in Seq(Packets)
<1>3. a \o b \o Append(c, x) = Append(a \o b \o c, x)
  BY AppendIsConcat, ConcatAssociative, <1>1, <<x>> \in Seq(Packets)
<1>4. ASSUME c # <<>> PROVE a \o Append(b, Head(c)) \o Tail(c) = a \o b \o c
  <2> DEFINE h == Head(c)
             r == Tail(c)
  <2>1. h \in Packets /\ r \in Seq(Packets) /\ c = <<h>> \o r /\ <<h>> \in Seq(Packets)
    BY <1>4, HeadTailProperties
  <2> HIDE DEF h, r
  <2>2. a \o Append(b, h) = (a \o b) \o <<h>>
    BY <2>1, AppendIsConcat, ConcatAssociative
  <2>3. ((a \o b) \o <<h>>) \o r = (a \o b) \o (<<h>> \o r)
    BY <2>1, <1>1, ConcatAssociative
  <2> QED BY <2>1, <2>2, <2>3 DEF h, r
<1>5. a \o <<>> \o c = a \o c
  BY ConcatEmptySeq
<1> QED BY <1>2, <1>3, <1>4, <1>5
-----------------------------------------------------------------------------
LEMMA SendPacketPreserves ==
  ASSUME IInv, NEW t \in Threads, NEW p \in Packets, SendPacket(t, p)
  PROVE  IInv'
<1> USE DEF IInv, releaseVars
<1>1. TypeOK'
  BY DEF TypeOK, SendPacket, Goto, Used
<1>2. OneOwner'
  BY DEF TypeOK, OneOwner, Posting, SendPacket, Goto, Used
<1>3. Locals'
  BY DEF TypeOK, Locals, SendPacket, Goto, Used
<1>4. InOrder'
  BY DEF TypeOK, InOrder, Drainers, SendPacket, Goto, Used
<1>5. SentOnce'
  BY DEF TypeOK, SentOnce, SendPacket, Goto, Used
<1>6. OnePlace'
  BY DEF TypeOK, OnePlace, SendPacket, Goto, Used
<1>7. Remembered'
  BY DEF TypeOK, OneOwner, Posting, Remembered, Drainers, SendPacket, Goto, Back, Used
<1> QED BY <1>1, <1>2, <1>3, <1>4, <1>5, <1>6, <1>7

LEMMA EnqueueLinkPreserves ==
  ASSUME IInv, NEW t \in Threads, EnqueueLink(t)
  PROVE  IInv'
<1> USE DEF IInv, releaseVars
<1>a. t \in Senders /\ packet[t] \subseteq Packets
  BY DEF TypeOK, Locals, EnqueueLink, Goto
<1>b. PICK x \in packet[t] : queue' = Append(queue, x) /\ log' = Append(log, x)
  BY DEF EnqueueLink
<1>c. x \in Packets /\ x \notin Range(log)
  BY <1>a, <1>b DEF SentOnce
<1>d. /\ queue' \in Seq(Packets) /\ log' \in Seq(Packets)
      /\ Range(queue') = Range(queue) \cup {x} /\ Range(log') = Range(log) \cup {x}
      /\ Once(queue) /\ x \notin Range(queue) => Once(queue')
  BY <1>b, <1>c, AppendOne DEF TypeOK
<1>1. TypeOK'
  BY <1>a, <1>d DEF TypeOK, EnqueueLink, Goto
<1>2. OneOwner'
  BY DEF TypeOK, OneOwner, Posting, EnqueueLink, Goto
<1>3. Locals'
  BY DEF TypeOK, Locals, EnqueueLink, Goto
<1>4. InOrder'
  <2>1. ~broken /\ Drainers = {} => log' = wire \o queue'
    <3>1. wire \in Seq(Packets) /\ queue \in Seq(Packets)
      BY DEF TypeOK
    <3>2. wire \o Append(queue, x) = Append(wire \o queue, x)
      BY <3>1, <1>c, Shifted
    <3> QED BY <3>2, <1>b DEF InOrder
  <2>2. ASSUME ~broken, NEW u \in Drainers PROVE log' = wire \o batch[u] \o queue'
    <3>1. log = wire \o batch[u] \o queue /\ batch[u] \in Seq(Packets)
      BY <2>2 DEF InOrder, Drainers, TypeOK
    <3>2. wire \in Seq(Packets) /\ queue \in Seq(Packets)
      BY DEF TypeOK
    <3>3. wire \o batch[u] \o Append(queue, x) = Append(wire \o batch[u] \o queue, x)
      <4> DEFINE b == batch[u]
      <4>1. b \in Seq(Packets)
        BY <3>1
      <4> HIDE DEF b
      <4>2. wire \o b \o Append(queue, x) = Append(wire \o b \o queue, x)
        BY <4>1, <3>2, <1>c, Shifted
      <4> QED BY <4>2 DEF b
    <3> QED BY <1>b, <3>1, <3>3
  <2>3. Drainers' = Drainers /\ UNCHANGED <<wire, batch, broken>>
    BY DEF EnqueueLink, Goto, Drainers, TypeOK
  <2> QED BY <2>1, <2>2, <2>3 DEF InOrder
<1>5. SentOnce'
  <2>1. packet' = [packet EXCEPT ![t] = {}]
    BY DEF EnqueueLink
  <2> QED BY <1>a, <1>b, <1>d, <2>1 DEF TypeOK, SentOnce
<1>6. OnePlace'
  <2>1. UNCHANGED <<release, freed, batch>> /\ \A u \in Threads : pc'[u] = "remember" => pc[u] = "remember"
    BY DEF EnqueueLink, Goto, TypeOK
  <2> QED BY <1>c, <1>d, <2>1 DEF OnePlace, Last, Once
<1>7. Remembered'
  BY DEF TypeOK, OneOwner, Posting, Remembered, Drainers, EnqueueLink, Goto, Back
<1> QED BY <1>1, <1>2, <1>3, <1>4, <1>5, <1>6, <1>7

LEMMA EnqueueCountPreserves ==
  ASSUME IInv, NEW t \in Threads, EnqueueCount(t)
  PROVE  IInv'
<1> USE DEF IInv, releaseVars
<1>1. TypeOK'
  BY DEF TypeOK, EnqueueCount, Goto
<1>2. OneOwner'
  BY DEF TypeOK, OneOwner, Posting, EnqueueCount, Goto
<1>3. Locals'
  BY DEF TypeOK, Locals, EnqueueCount, Goto
<1>4. InOrder'
  BY DEF TypeOK, InOrder, Drainers, EnqueueCount, Goto
<1>5. SentOnce'
  BY DEF TypeOK, SentOnce, EnqueueCount, Goto
<1>6. OnePlace'
  BY DEF TypeOK, OnePlace, EnqueueCount, Goto
<1>7. Remembered'
  BY DEF TypeOK, OneOwner, Posting, Remembered, Drainers, EnqueueCount, Goto, Back
<1> QED BY <1>1, <1>2, <1>3, <1>4, <1>5, <1>6, <1>7

LEMMA SizePreserves ==
  ASSUME IInv, NEW t \in Threads, Size(t)
  PROVE  IInv'
<1> USE DEF IInv, releaseVars
<1>1. TypeOK'
  BY DEF TypeOK, Size, Goto, Back
<1>2. OneOwner'
  BY DEF TypeOK, OneOwner, Posting, Size, Goto, Back
<1>3. Locals'
  BY DEF TypeOK, Locals, Size, Goto, Back
<1>4. InOrder'
  BY DEF TypeOK, InOrder, Drainers, Size, Goto, Back
<1>5. SentOnce'
  BY DEF TypeOK, SentOnce, Size, Goto, Back
<1>6. OnePlace'
  BY DEF TypeOK, OnePlace, Size, Goto, Back
<1>7. Remembered'
  BY DEF TypeOK, OneOwner, Posting, Remembered, Drainers, Size, Goto, Back
<1> QED BY <1>1, <1>2, <1>3, <1>4, <1>5, <1>6, <1>7

LEMMA FlagPreserves ==
  ASSUME IInv, NEW t \in Threads, Flag(t)
  PROVE  IInv'
<1> USE DEF IInv, releaseVars
<1>1. TypeOK'
  BY DEF TypeOK, Flag, Goto, Back
<1>2. OneOwner'
  BY DEF TypeOK, OneOwner, Posting, Flag, Goto, Back
<1>3. Locals'
  BY DEF TypeOK, Locals, Flag, Goto, Back
<1>4. InOrder'
  <2>1. CASE ioSend
    BY <2>1 DEF TypeOK, InOrder, Drainers, Flag, Goto, Back
  <2>2. CASE ~ioSend
    <3>1. Drainers = {} /\ Drainers' = {t}
      BY <2>2 DEF OneOwner, Posting, TypeOK, Drainers, Flag, Goto
    <3>2. batch'[t] = <<>> /\ UNCHANGED <<wire, queue, log, broken>>
      BY DEF TypeOK, Flag
    <3>3. wire \o <<>> \o queue = wire \o queue
      BY ConcatEmptySeq DEF TypeOK
    <3> QED BY <3>1, <3>2, <3>3 DEF InOrder
  <2> QED BY <2>1, <2>2
<1>5. SentOnce'
  BY DEF TypeOK, SentOnce, Flag, Goto, Back
<1>6. OnePlace'
  BY DEF TypeOK, OnePlace, Flag, Goto, Back
<1>7. Remembered'
  BY DEF TypeOK, OneOwner, Posting, Remembered, Drainers, Flag, Goto, Back
<1> QED BY <1>1, <1>2, <1>3, <1>4, <1>5, <1>6, <1>7

LEMMA DequeueGatePreserves ==
  ASSUME IInv, NEW t \in Threads, DequeueGate(t)
  PROVE  IInv'
<1> USE DEF IInv, releaseVars
<1>1. TypeOK'
  BY DEF TypeOK, DequeueGate, Goto
<1>2. OneOwner'
  BY DEF TypeOK, OneOwner, Posting, DequeueGate, Goto
<1>3. Locals'
  BY DEF TypeOK, Locals, DequeueGate, Goto
<1>4. InOrder'
  BY DEF TypeOK, InOrder, Drainers, DequeueGate, Goto
<1>5. SentOnce'
  BY DEF TypeOK, SentOnce, DequeueGate, Goto
<1>6. OnePlace'
  BY DEF TypeOK, OnePlace, DequeueGate, Goto
<1>7. Remembered'
  BY DEF TypeOK, OneOwner, Posting, Remembered, Drainers, DequeueGate, Goto, Back
<1> QED BY <1>1, <1>2, <1>3, <1>4, <1>5, <1>6, <1>7

LEMMA DequeueUndoPreserves ==
  ASSUME IInv, NEW t \in Threads, DequeueUndo(t)
  PROVE  IInv'
<1> USE DEF IInv, releaseVars
<1>1. TypeOK'
  BY DEF TypeOK, DequeueUndo, Goto
<1>2. OneOwner'
  BY DEF TypeOK, OneOwner, Posting, DequeueUndo, Goto
<1>3. Locals'
  BY DEF TypeOK, Locals, DequeueUndo, Goto
<1>4. InOrder'
  BY DEF TypeOK, InOrder, Drainers, DequeueUndo, Goto
<1>5. SentOnce'
  BY DEF TypeOK, SentOnce, DequeueUndo, Goto
<1>6. OnePlace'
  BY DEF TypeOK, OnePlace, DequeueUndo, Goto
<1>7. Remembered'
  BY DEF TypeOK, OneOwner, Posting, Remembered, Drainers, DequeueUndo, Goto, Back
<1> QED BY <1>1, <1>2, <1>3, <1>4, <1>5, <1>6, <1>7

LEMMA DequeueTakePreserves ==
  ASSUME IInv, NEW t \in Threads, DequeueTake(t)
  PROVE  IInv'
<1> USE DEF IInv, releaseVars
<1>a. /\ queue # <<>> /\ queue' = Tail(queue) /\ batch[t] \in Seq(Packets)
      /\ batch' = [batch EXCEPT ![t] = Append(batch[t], Head(queue))]
      /\ pc' = [pc EXCEPT ![t] = "remember"] /\ pc[t] = "take"
      /\ UNCHANGED <<release, freed, broken, log, wire>>
  BY DEF TypeOK, DequeueTake, Goto
<1>b. /\ Head(queue) \in Packets
      /\ Range(queue) = {Head(queue)} \cup Range(queue')
      /\ Once(queue) => Once(queue') /\ Head(queue) \notin Range(queue')
  BY <1>a, TakeOne DEF TypeOK
<1>c. /\ batch'[t] = Append(batch[t], Head(queue)) /\ pc'[t] = "remember"
      /\ \A u \in Threads \ {t} : batch'[u] = batch[u] /\ pc'[u] = pc[u]
  BY <1>a DEF TypeOK
<1>d. batch'[t] # <<>> /\ Last(batch'[t]) = Head(queue)
  BY <1>a, <1>b, <1>c, AppendOne
<1>1. TypeOK'
  BY DEF TypeOK, DequeueTake, Goto
<1>2. OneOwner'
  BY DEF TypeOK, OneOwner, Posting, DequeueTake, Goto
<1>3. Locals'
  BY <1>a, <1>c, <1>d DEF Locals
<1>4. InOrder'
  <2>1. wire \o batch'[t] \o queue' = wire \o batch[t] \o queue
    <3>1. wire \in Seq(Packets) /\ queue \in Seq(Packets)
      BY DEF TypeOK
    <3>2. wire \o Append(batch[t], Head(queue)) \o Tail(queue) = wire \o batch[t] \o queue
      BY <3>1, <1>a, <1>b, Shifted
    <3> QED BY <3>2, <1>a, <1>c
  <2>2. t \in Drainers /\ Drainers' = {t}
    BY <1>a DEF Drainers, OneOwner, Posting, TypeOK
  <2> QED BY <1>a, <2>1, <2>2 DEF InOrder
<1>5. SentOnce'
  BY DEF TypeOK, SentOnce, DequeueTake, Goto
<1>6. OnePlace'
  <2>1. ASSUME NEW u \in Threads, pc'[u] = "remember" PROVE u = t
    BY <1>a, <2>1 DEF OneOwner, Posting, TypeOK
  <2> QED BY <1>a, <1>b, <1>d, <2>1 DEF OnePlace, Once
<1>7. Remembered'
  BY DEF TypeOK, OneOwner, Posting, Remembered, Drainers, DequeueTake, Goto, Back
<1> QED BY <1>1, <1>2, <1>3, <1>4, <1>5, <1>6, <1>7

LEMMA RememberPreserves ==
  ASSUME IInv, NEW t \in Threads, Remember(t)
  PROVE  IInv'
<1> USE DEF IInv, releaseVars
<1>a. /\ pc[t] = "remember" /\ batch[t] \in Seq(Packets) /\ batch[t] # <<>>
      /\ release' = Append(release, Last(batch[t]))
      /\ UNCHANGED <<queue, freed, batch, log>>
  BY DEF TypeOK, Locals, Remember, Goto, Last
<1>b. Last(batch[t]) \in Packets
  BY <1>a, LenProperties, ElementOfSeq DEF Last
<1>c. /\ release' \in Seq(Packets)
      /\ Range(release') = Range(release) \cup {Last(batch[t])}
      /\ Once(release) /\ Last(batch[t]) \notin Range(release) => Once(release')
  BY <1>a, <1>b, AppendOne DEF TypeOK
<1>1. TypeOK'
  BY <1>c DEF TypeOK, Remember, Goto
<1>2. OneOwner'
  BY DEF TypeOK, OneOwner, Posting, Remember, Goto
<1>3. Locals'
  BY DEF TypeOK, Locals, Remember, Goto
<1>4. InOrder'
  BY DEF TypeOK, InOrder, Drainers, Remember, Goto
<1>5. SentOnce'
  BY DEF TypeOK, SentOnce, Remember, Goto
<1>6. OnePlace'
  <2>1. ASSUME NEW u \in Threads PROVE pc'[u] # "remember"
    <3>1. u # t => pc[u] # "remember"
      BY <1>a DEF OneOwner, Posting
    <3> QED BY <3>1 DEF TypeOK, Remember, Goto
  <2> QED BY <1>a, <1>c, <2>1 DEF OnePlace, Once
<1>7. Remembered'
  <2>1. Drainers' = {t} /\ t \in Drainers /\ UNCHANGED wire
    BY DEF TypeOK, OneOwner, Posting, Drainers, Remember, Goto
  <2>2. ASSUME NEW i \in 1 .. Len(batch[t]) PROVE batch[t][i] \in Range(release') \cup freed
    <3>1. i = Len(batch[t]) \/ batch[t][i] \in Range(release) \cup freed
      BY <2>1 DEF Remembered
    <3> QED BY <3>1, <1>c DEF Last
  <2>3. Range(wire) \subseteq Range(release') \cup freed
    BY <1>c DEF Remembered
  <2> QED BY <1>a, <2>1, <2>2, <2>3 DEF Remembered
<1> QED BY <1>1, <1>2, <1>3, <1>4, <1>5, <1>6, <1>7

LEMMA RememberCountPreserves ==
  ASSUME IInv, NEW t \in Threads, RememberCount(t)
  PROVE  IInv'
<1> USE DEF IInv, releaseVars
<1>1. TypeOK'
  BY DEF TypeOK, RememberCount, Goto
<1>2. OneOwner'
  BY DEF TypeOK, OneOwner, Posting, RememberCount, Goto
<1>3. Locals'
  BY DEF TypeOK, Locals, RememberCount, Goto
<1>4. InOrder'
  BY DEF TypeOK, InOrder, Drainers, RememberCount, Goto
<1>5. SentOnce'
  BY DEF TypeOK, SentOnce, RememberCount, Goto
<1>6. OnePlace'
  BY DEF TypeOK, OnePlace, RememberCount, Goto
<1>7. Remembered'
  BY DEF TypeOK, OneOwner, Posting, Remembered, Drainers, RememberCount, Goto
<1> QED BY <1>1, <1>2, <1>3, <1>4, <1>5, <1>6, <1>7

LEMMA NothingToSendPreserves ==
  ASSUME IInv, NEW t \in Threads, NothingToSend(t)
  PROVE  IInv'
<1> USE DEF IInv, releaseVars
<1>1. TypeOK'
  BY DEF TypeOK, NothingToSend, Goto, Back
<1>2. OneOwner'
  BY DEF TypeOK, OneOwner, Posting, NothingToSend, Goto, Back
<1>3. Locals'
  BY DEF TypeOK, Locals, NothingToSend, Goto, Back
<1>4. InOrder'
  <2>1. t \in Drainers /\ Drainers' = {}
    BY DEF Drainers, OneOwner, Posting, TypeOK, NothingToSend, Goto, Back
  <2>2. wire \o batch[t] \o queue = wire \o queue
    BY ConcatEmptySeq DEF TypeOK, Locals, NothingToSend, Goto
  <2>3. UNCHANGED <<wire, queue, log, broken, batch>>
    BY DEF NothingToSend
  <2> QED BY <2>1, <2>2, <2>3 DEF InOrder
<1>5. SentOnce'
  BY DEF TypeOK, SentOnce, NothingToSend, Goto, Back
<1>6. OnePlace'
  BY DEF TypeOK, OnePlace, NothingToSend, Goto, Back
<1>7. Remembered'
  BY DEF TypeOK, OneOwner, Posting, Remembered, Drainers, NothingToSend, Goto, Back
<1> QED BY <1>1, <1>2, <1>3, <1>4, <1>5, <1>6, <1>7

LEMMA PostPreserves ==
  ASSUME IInv, NEW t \in Threads, Post(t)
  PROVE  IInv'
<1> USE DEF IInv, releaseVars
<1>a. wire \o batch[t] \in Seq(Packets)
  BY ConcatProperties DEF TypeOK
<1>1. TypeOK'
  <2>1. <<>> \in Seq(Packets)
    BY EmptySeq
  <2>2. batch[t] \in Seq(Packets) /\ batch' \in [Threads -> Seq(Packets)]
    BY <2>1 DEF TypeOK, Post
  <2>3. inflight' \in Seq(Packets) /\ wire' \in Seq(Packets) /\ broken' \in BOOLEAN
    BY <1>a, <2>2 DEF TypeOK, Post
  <2> QED BY <2>2, <2>3 DEF TypeOK, Post, Goto, Back
<1>2. OneOwner'
  BY DEF TypeOK, OneOwner, Posting, Post, Goto, Back
<1>3. Locals'
  BY DEF TypeOK, Locals, Post, Goto, Back
<1>4. InOrder'
  <2>1. t \in Drainers /\ Drainers' = {}
    BY DEF Drainers, OneOwner, Posting, TypeOK, Post, Goto, Back
  <2>2. ~broken' => ~broken /\ wire' = wire \o batch[t]
    BY DEF Post
  <2>3. UNCHANGED <<queue, log>>
    BY DEF Post
  <2> QED BY <2>1, <2>2, <2>3 DEF InOrder
<1>5. SentOnce'
  BY DEF TypeOK, SentOnce, Post, Goto, Back
<1>6. OnePlace'
  BY DEF TypeOK, OnePlace, Post, Goto, Back
<1>7. Remembered'
  <2>1. t \in Drainers /\ pc[t] = "post" /\ Drainers' = {}
    BY DEF Drainers, OneOwner, Posting, TypeOK, Post, Goto, Back
  <2>2. Range(wire \o batch[t]) \subseteq Range(release) \cup freed
    <3>1. wire \in Seq(Packets) /\ batch[t] \in Seq(Packets)
      BY DEF TypeOK
    <3>2. Range(batch[t]) = {batch[t][i] : i \in 1 .. Len(batch[t])}
      BY <3>1, RangeEquality
    <3>3. Range(wire) \cup Range(batch[t]) \subseteq Range(release) \cup freed
      BY <2>1, <3>2 DEF Remembered
    <3> QED BY <3>1, <3>3, RangeConcatenation
  <2>3. UNCHANGED <<release, freed>> /\ wire' \in {wire, wire \o batch[t]}
    BY DEF Post
  <2> QED BY <2>1, <2>2, <2>3 DEF Remembered
<1> QED BY <1>1, <1>2, <1>3, <1>4, <1>5, <1>6, <1>7

LEMMA CompletionPreserves ==
  ASSUME IInv, NEW t \in Threads, Completion(t)
  PROVE  IInv'
<1> USE DEF IInv, releaseVars
<1>1. TypeOK'
  BY DEF TypeOK, Completion, Goto
<1>2. OneOwner'
  BY DEF TypeOK, OneOwner, Posting, Completion, Goto
<1>3. Locals'
  BY DEF TypeOK, Locals, Completion, Goto
<1>4. InOrder'
  BY DEF TypeOK, InOrder, Drainers, Completion, Goto
<1>5. SentOnce'
  BY DEF TypeOK, SentOnce, Completion, Goto
<1>6. OnePlace'
  BY DEF TypeOK, OnePlace, Completion, Goto
<1>7. Remembered'
  BY DEF TypeOK, OneOwner, Posting, Remembered, Drainers, Completion, Goto, Back
<1> QED BY <1>1, <1>2, <1>3, <1>4, <1>5, <1>6, <1>7

LEMMA CompletionFailedPreserves ==
  ASSUME IInv, NEW t \in Threads, CompletionFailed(t)
  PROVE  IInv'
<1> USE DEF IInv, releaseVars
<1>1. TypeOK'
  BY DEF TypeOK, CompletionFailed
<1>2. OneOwner'
  BY DEF TypeOK, OneOwner, Posting, CompletionFailed
<1>3. Locals'
  BY DEF TypeOK, Locals, CompletionFailed
<1>4. InOrder'
  BY DEF TypeOK, InOrder, Drainers, CompletionFailed
<1>5. SentOnce'
  BY DEF TypeOK, SentOnce, CompletionFailed
<1>6. OnePlace'
  BY DEF TypeOK, OnePlace, CompletionFailed
<1>7. Remembered'
  BY DEF TypeOK, OneOwner, Posting, Remembered, Drainers, CompletionFailed, Goto, Back
<1> QED BY <1>1, <1>2, <1>3, <1>4, <1>5, <1>6, <1>7

LEMMA ResetPreserves ==
  ASSUME IInv, NEW t \in Threads, Reset(t)
  PROVE  IInv'
<1> USE DEF IInv, releaseVars
<1>1. TypeOK'
  BY DEF TypeOK, Reset, Goto
<1>2. OneOwner'
  BY DEF TypeOK, OneOwner, Posting, Reset, Goto
<1>3. Locals'
  BY DEF TypeOK, Locals, Reset, Goto
<1>4. InOrder'
  BY DEF TypeOK, InOrder, Drainers, Reset, Goto
<1>5. SentOnce'
  BY DEF TypeOK, SentOnce, Reset, Goto
<1>6. OnePlace'
  BY DEF TypeOK, OnePlace, Reset, Goto
<1>7. Remembered'
  BY DEF TypeOK, OneOwner, Posting, Remembered, Drainers, Reset, Goto, Back
<1> QED BY <1>1, <1>2, <1>3, <1>4, <1>5, <1>6, <1>7

LEMMA OnSendGatePreserves ==
  ASSUME IInv, NEW t \in Threads, OnSendGate(t)
  PROVE  IInv'
<1> USE DEF IInv, releaseVars
<1>1. TypeOK'
  <2>1. turnedAway' \in BOOLEAN
    <3> DEFINE left == Unclaimed > 0
    <3>1. left \in BOOLEAN
      OBVIOUS
    <3>2. turnedAway' = left \/ turnedAway' = turnedAway
      BY DEF OnSendGate
    <3> HIDE DEF left
    <3> QED BY <3>1, <3>2 DEF TypeOK
  <2>2. releaseCount' = releaseCount - 1
    BY DEF OnSendGate
  <2> QED BY <2>1, <2>2 DEF TypeOK, OnSendGate, Goto
<1>2. OneOwner'
  BY DEF TypeOK, OneOwner, Posting, OnSendGate, Goto
<1>3. Locals'
  BY DEF TypeOK, Locals, OnSendGate, Goto
<1>4. InOrder'
  BY DEF TypeOK, InOrder, Drainers, OnSendGate, Goto
<1>5. SentOnce'
  BY DEF TypeOK, SentOnce, OnSendGate, Goto
<1>6. OnePlace'
  BY DEF TypeOK, OnePlace, OnSendGate, Goto
<1>7. Remembered'
  BY DEF TypeOK, OneOwner, Posting, Remembered, Drainers, OnSendGate, Goto
<1> QED BY <1>1, <1>2, <1>3, <1>4, <1>5, <1>6, <1>7

LEMMA OnSendTakePreserves ==
  ASSUME IInv, NEW t \in Threads, OnSendTake(t)
  PROVE  IInv'
<1> USE DEF IInv, releaseVars
<1>1. TypeOK'
  BY DEF TypeOK, OnSendTake, Goto
<1>2. OneOwner'
  BY DEF TypeOK, OneOwner, Posting, OnSendTake, Goto
<1>3. Locals'
  BY DEF TypeOK, Locals, OnSendTake, Goto
<1>4. InOrder'
  BY DEF TypeOK, InOrder, Drainers, OnSendTake, Goto
<1>5. SentOnce'
  BY DEF TypeOK, SentOnce, OnSendTake, Goto
<1>6. OnePlace'
  <2>1. /\ release # <<>> /\ release' = Tail(release) /\ freed' = freed \cup {Head(release)}
        /\ UNCHANGED <<queue, batch, log, wire>>
        /\ pc' = [pc EXCEPT ![t] = "onSend"]
    BY DEF OnSendTake, Goto
  <2>2. /\ Range(release) = {Head(release)} \cup Range(release')
        /\ Once(release) => Once(release') /\ Head(release) \notin Range(release')
    BY <2>1, TakeOne DEF TypeOK
  <2> QED BY <2>1, <2>2 DEF OnePlace, TypeOK
<1>7. Remembered'
  <2>1. /\ release # <<>> /\ release' = Tail(release) /\ freed' = freed \cup {Head(release)}
        /\ UNCHANGED <<batch, wire>>
    BY DEF OnSendTake
  <2>2. Range(release) \cup freed = Range(release') \cup freed'
    BY <2>1, TakeOne DEF TypeOK
  <2>3. Drainers' = Drainers /\ \A u \in Drainers : pc'[u] = pc[u]
    BY DEF TypeOK, Drainers, OnSendTake, Goto
  <2> QED BY <2>1, <2>2, <2>3 DEF Remembered
<1> QED BY <1>1, <1>2, <1>3, <1>4, <1>5, <1>6, <1>7

LEMMA OnSendUndoPreserves ==
  ASSUME IInv, NEW t \in Threads, OnSendUndo(t)
  PROVE  IInv'
<1> USE DEF IInv, releaseVars
<1>1. TypeOK'
  BY DEF TypeOK, OnSendUndo, Goto
<1>2. OneOwner'
  BY DEF TypeOK, OneOwner, Posting, OnSendUndo, Goto
<1>3. Locals'
  BY DEF TypeOK, Locals, OnSendUndo, Goto
<1>4. InOrder'
  BY DEF TypeOK, InOrder, Drainers, OnSendUndo, Goto
<1>5. SentOnce'
  BY DEF TypeOK, SentOnce, OnSendUndo, Goto
<1>6. OnePlace'
  BY DEF TypeOK, OnePlace, OnSendUndo, Goto
<1>7. Remembered'
  BY DEF TypeOK, OneOwner, Posting, Remembered, Drainers, OnSendUndo, Goto, Back
<1> QED BY <1>1, <1>2, <1>3, <1>4, <1>5, <1>6, <1>7

(* What every theorem below rests on. *)
LEMMA Always == Spec => []IInv
<1>1. Init => IInv
  <2> SUFFICES ASSUME Init PROVE IInv
    OBVIOUS
  <2> USE DEF Init
  <2>1. TypeOK
    <3>1. <<>> \in Seq(Packets)
      BY EmptySeq
    <3>2. /\ pc \in [Threads -> {"idle"}]
          /\ batch \in [Threads -> Seq(Packets)]
          /\ packet \in [Senders -> SUBSET Packets]
      BY <3>1
    <3>3. /\ queue \in Seq(Packets) /\ release \in Seq(Packets) /\ inflight \in Seq(Packets)
          /\ log \in Seq(Packets) /\ wire \in Seq(Packets)
      BY <3>1
    <3>4. ioSend \in BOOLEAN /\ broken \in BOOLEAN /\ turnedAway \in BOOLEAN
      OBVIOUS
    <3>5. count \in Int /\ releaseCount \in Int /\ freed \subseteq Packets
      OBVIOUS
    <3>6. pc \in [Threads -> {"idle", "enqueue", "enqueueCount", "size", "flag",
                              "dequeue", "undo", "take", "remember", "rememberCount",
                              "nothing", "post", "reset", "onSend", "onSendTake", "onSendUndo"}]
      BY <3>2
    <3> HIDE DEF Init
    <3> QED BY <3>2, <3>3, <3>4, <3>5, <3>6 DEF TypeOK
  <2>2. Posting = {} /\ Drainers = {}
    BY DEF Posting, Drainers
  <2>3. Range(<<>>) = {}
    BY DEF Range
  <2>4. OneOwner /\ Locals /\ InOrder
    BY <2>2, ConcatEmptySeq, EmptySeq DEF OneOwner, Locals, InOrder
  <2>5. SentOnce /\ OnePlace /\ Remembered
    BY <2>2, <2>3 DEF SentOnce, OnePlace, Once, Remembered
  <2> QED BY <2>1, <2>4, <2>5 DEF IInv
<1>2. IInv /\ [Next]_vars => IInv'
  <2> SUFFICES ASSUME IInv, [Next]_vars PROVE IInv'
    OBVIOUS
  <2>1. ASSUME NEW t \in Threads, Step(t) PROVE IInv'
    BY <2>1, EnqueueLinkPreserves, EnqueueCountPreserves, SizePreserves, FlagPreserves,
       DequeueGatePreserves, DequeueUndoPreserves, DequeueTakePreserves, RememberPreserves,
       RememberCountPreserves, NothingToSendPreserves, PostPreserves, ResetPreserves,
       OnSendGatePreserves, OnSendTakePreserves, OnSendUndoPreserves DEF Step, SendPost
  <2>2. ASSUME NEW t \in Threads, Completion(t) \/ CompletionFailed(t) PROVE IInv'
    BY <2>2, CompletionPreserves, CompletionFailedPreserves
  <2>3. ASSUME NEW t \in Threads, NEW p \in Packets, SendPacket(t, p) PROVE IInv'
    BY <2>3, SendPacketPreserves
  <2>4. CASE UNCHANGED vars
    BY <2>4 DEF vars, IInv, TypeOK, OneOwner, Posting, Locals, InOrder, Drainers, SentOnce,
                OnePlace, Once, Last, Remembered, releaseVars
  <2> QED BY <2>1, <2>2, <2>3, <2>4 DEF Next
<1> QED BY <1>1, <1>2, PTL DEF Spec

(* Types of the send pipeline's state. *)
THEOREM Typing == Spec => []TypeOK
BY Always, PTL DEF IInv

(* At any time one thread or the kernel has the session's WSASend             *)
(* (net_server.cpp:464-498), however many threads send and complete.          *)
THEOREM OneSendAlways == Spec => []OneSend
<1>1. IInv => OneSend
  <2> SUFFICES ASSUME IInv PROVE OneSend
    OBVIOUS
  <2> DEFINE owners == Drainers \cup {t \in Workers : pc[t] = "reset"}
  <2>1. owners \subseteq Posting
    BY DEF Drainers, Posting, Threads
  <2>2. \A t, u \in owners : t = u
    BY <2>1 DEF IInv, OneOwner
  <2>3. Cardinality(owners) <= 1
    <3>1. CASE owners = {}
      BY <3>1, FS_EmptySet
    <3>2. CASE owners # {}
      <4>1. PICK t : owners = {t}
        BY <3>2, <2>2
      <4> QED BY <4>1, FS_Singleton
    <3> QED BY <3>1, <3>2
  <2> QED BY <2>1, <2>3 DEF IInv, OneOwner, OneSend
<1> QED BY <1>1, Always, PTL

(* Packets are handed to WSASend once each, in the order in which they were   *)
(* queued (net_server.cpp:437,474-498).                                       *)
THEOREM FifoAlways == Spec => []FifoOnce
<1>1. IInv => FifoOnce
  <2> SUFFICES ASSUME IInv, ~broken PROVE log = wire \o Taken \o queue
    BY DEF FifoOnce
  <2>1. CASE Drainers = {}
    BY <2>1, ConcatEmptySeq DEF IInv, TypeOK, InOrder, Taken
  <2>2. CASE Drainers # {}
    BY <2>2 DEF IInv, InOrder, Taken
  <2> QED BY <2>1, <2>2
<1> QED BY <1>1, Always, PTL

(* No packet is deleted twice, and none that went out is forgotten, whichever *)
(* threads run OnSend, however their Dequeues meet                            *)
(* (net_server.cpp:484; mmorpg_server.cpp:75-78).                             *)
THEOREM FreedOnceAlways == Spec => []FreedOnce
<1>1. IInv => FreedOnce
  BY DEF IInv, OnePlace, Once, Remembered, FreedOnce
<1> QED BY <1>1, Always, PTL
=============================================================================
