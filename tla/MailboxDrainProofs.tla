------------------------- MODULE MailboxDrainProofs -------------------------
(***************************************************************************)
(* Proofs about the outbound mailbox and about shutdown. Mailbox: the byte *)
(* budget, FIFO order, the accounting of drops, no lost wakeup, and that   *)
(* it implements LossyQueue, for any number of producers, any frame        *)
(* lengths and any high-water mark. Drain: the sweep misses no connection  *)
(* and the report counts them all, for any set of connections. The two     *)
(* share no state: a theorem speaks of one specification.                  *)
(***************************************************************************)
EXTENDS Mailbox, Drain, TLAPS

\* pop_front on a queue of frames.
LEMMA FrontFacts ==
    ASSUME NEW s \in Seq(Frame), s # <<>>
    PROVE  /\ Head(s) = s[1] /\ s[1] \in Frame
           /\ Len(s) \in Nat /\ Len(s) >= 1
           /\ Tail(s) \in Seq(Frame)
           /\ Len(Tail(s)) = Len(s) - 1
           /\ \A i \in 1 .. Len(s) - 1 : Tail(s)[i] = s[i + 1]
    OBVIOUS

\* push_back on a queue of frames.
LEMMA BackFacts ==
    ASSUME NEW s \in Seq(Frame), NEW f \in Frame
    PROVE  /\ Append(s, f) \in Seq(Frame)
           /\ Len(s) \in Nat
           /\ Len(Append(s, f)) = Len(s) + 1
           /\ \A i \in 1 .. Len(s) : Append(s, f)[i] = s[i]
           /\ Append(s, f)[Len(s) + 1] = f
    OBVIOUS

\* backpressure.rs charge: a frame costs at least one byte.
LEMMA ChargePositive ==
    ASSUME NEW n \in Nat
    PROVE  Charge(n) \in Nat /\ Charge(n) >= 1
    BY DEF Charge

\* A frame built by push is a frame.
LEMMA FrameFields ==
    ASSUME NEW f \in Frame
    PROVE  f.no \in Nat /\ f.len \in Nat /\ f.end \in Nat
    BY MailboxAssumption, Zenon DEF Frame

\* The ends and charges of queued frames are numbers.
LEMMA SeqFields ==
    ASSUME NEW s \in Seq(Frame), NEW i \in 1 .. Len(s)
    PROVE  /\ s[i] \in Frame /\ s[i].no \in Nat /\ s[i].len \in Nat /\ s[i].end \in Nat
           /\ Charge(s[i].len) \in Nat /\ Charge(s[i].len) >= 1
<1>1. s[i] \in Frame
    OBVIOUS
<1>. QED
    BY <1>1, FrameFields, ChargePositive, Zenon

\* A sequence of numbers is the function of its elements.
LEMMA SeqIsFunction ==
    ASSUME NEW s \in Seq(Nat)
    PROVE  s = [i \in 1 .. Len(s) |-> s[i]]
    OBVIOUS

\* A sequence with something in it is not empty, and the other way round.
LEMMA EmptyLen ==
    ASSUME NEW s \in Seq(Frame)
    PROVE  Len(s) \in Nat /\ (s = <<>> <=> Len(s) = 0)
    OBVIOUS

\* Taking the front frame out, by pop or by an eviction, keeps the queue
\* tiled; its charge is covered by the bytes counted, and what is left still
\* weighs at least one byte per frame.
LEMMA RemoveFront ==
    ASSUME NEW s \in Seq(Frame), s # <<>>, NEW t \in Seq(Frame),
           Len(t) = Len(s) - 1, \A i \in 1 .. Len(s) - 1 : t[i] = s[i + 1],
           NEW b \in Nat, NEW tot \in Nat, Tiles(s, b, tot)
    PROVE  /\ b - Charge(s[1].len) \in Nat
           /\ b - Charge(s[1].len) >= Len(t)
           /\ Tiles(t, b - Charge(s[1].len), tot)
<1>. DEFINE n == Len(s)
            c == Charge(s[1].len)
<1>1. n \in Nat /\ n >= 1 /\ Len(t) = n - 1
    BY EmptyLen
<1>2. s[1].end \in Nat /\ c \in Nat /\ s[n].end \in Nat
    BY <1>1, SeqFields
<1>3. /\ s[n].end = tot
      /\ b = tot - s[1].end + c
      /\ \A i \in 1 .. n - 1 : s[i + 1].end = s[i].end + Charge(s[i + 1].len)
      /\ \A i, j \in 1 .. n : i <= j => s[j].end - s[i].end >= j - i
    BY Zenon DEF Tiles
<1>4. s[n].end - s[1].end >= n - 1
    BY <1>1, <1>3
<1>5. b - c = tot - s[1].end /\ b - c \in Nat /\ b - c >= n - 1
  <2>1. b = tot - s[1].end + c /\ tot - s[1].end >= n - 1
      BY <1>3, <1>4, Zenon
  <2>2. b - c = tot - s[1].end
      BY <1>2, <2>1
  <2>. QED
      BY <1>1, <1>2, <2>1, <2>2
<1>6. t = <<>> => b - c = 0
  <2>1. t = <<>> => n = 1
      BY <1>1, EmptyLen
  <2>2. n = 1 => s[1].end = tot
      BY <1>3, Zenon
  <2>. QED
      BY <1>2, <1>5, <2>1, <2>2
<1>7. ASSUME t # <<>>
      PROVE  t[Len(t)].end = tot /\ b - c = tot - t[1].end + Charge(t[1].len)
  <2>1. n - 1 \in 1 .. n - 1 /\ 1 \in 1 .. n - 1
      BY <1>1, <1>7, EmptyLen
  <2>2. t[n - 1] = s[n] /\ t[1] = s[2]
      BY <1>1, <2>1
  <2>3. s[2].end = s[1].end + Charge(s[2].len) /\ 2 \in 1 .. n
      BY <1>1, <1>3, <2>1
  <2>4. s[2].end \in Nat /\ Charge(s[2].len) \in Nat
      BY <2>3, SeqFields, Zenon
  <2>5. tot - s[2].end + Charge(s[2].len) = tot - s[1].end
      BY <1>2, <2>3, <2>4, SMTT(30)
  <2>. QED
      BY <1>1, <1>3, <1>5, <2>2, <2>5, Zenon
<1>8. ASSUME NEW i \in 1 .. Len(t) - 1
      PROVE  t[i + 1].end = t[i].end + Charge(t[i + 1].len)
  <2>1. t[i + 1] = s[i + 2] /\ t[i] = s[i + 1] /\ i + 1 \in 1 .. n - 1
      BY <1>1, SMTT(30)
  <2>. QED
      BY <1>3, <2>1, Zenon
<1>9. ASSUME NEW i \in 1 .. Len(t), NEW j \in 1 .. Len(t), i <= j
      PROVE  t[j].end - t[i].end >= j - i
  <2>1. t[j] = s[j + 1] /\ t[i] = s[i + 1]
      BY <1>1, Zenon
  <2>2. s[j + 1].end - s[i + 1].end >= (j + 1) - (i + 1)
      BY <1>1, <1>3, <1>9
  <2>3. (j + 1) - (i + 1) = j - i
      BY <1>1
  <2>. QED
      BY <2>1, <2>2, <2>3
<1>. QED
    BY <1>1, <1>5, <1>6, <1>7, <1>8, <1>9, Zenon DEF Tiles

\* Queueing a frame at the back keeps the queue tiled.
LEMMA AddBack ==
    ASSUME NEW s \in Seq(Frame), NEW t \in Seq(Frame), NEW f \in Frame,
           Len(t) = Len(s) + 1, \A i \in 1 .. Len(s) : t[i] = s[i],
           t[Len(s) + 1] = f,
           NEW b \in Nat, NEW tot \in Nat, Tiles(s, b, tot),
           f.end = tot + Charge(f.len)
    PROVE  Tiles(t, b + Charge(f.len), tot + Charge(f.len))
<1>. DEFINE n == Len(s)
            c == Charge(f.len)
<1>1. n \in Nat /\ Len(t) = n + 1 /\ t # <<>>
    BY EmptyLen
<1>2. c \in Nat /\ c >= 1 /\ f.end \in Nat
    BY FrameFields, ChargePositive, Zenon
<1>3. t[Len(t)].end = tot + c
    BY <1>1, Zenon
<1>4. b + c = (tot + c) - t[1].end + Charge(t[1].len)
  <2>1. CASE n = 0
    <3>1. s = <<>> /\ t[1] = f
        BY <2>1, EmptyLen
    <3>2. b = 0
        BY <3>1, Zenon DEF Tiles
    <3>. QED
        BY <1>2, <3>1, <3>2
  <2>2. CASE n > 0
    <3>1. s # <<>> /\ t[1] = s[1] /\ 1 \in 1 .. n
        BY <1>1, <2>2, EmptyLen
    <3>2. b = tot - s[1].end + Charge(s[1].len)
        BY <3>1, Zenon DEF Tiles
    <3>3. s[1].end \in Nat /\ Charge(s[1].len) \in Nat
        BY <3>1, SeqFields, Zenon
    <3>4. ASSUME NEW x \in Nat, NEW d \in Nat, b = tot - x + d
          PROVE  b + c = (tot + c) - x + d
        BY <1>2, <3>4
    <3>5. b + c = (tot + c) - s[1].end + Charge(s[1].len)
        BY <3>2, <3>3, <3>4, Zenon
    <3>. QED
        BY <3>1, <3>5, Zenon
  <2>. QED
      BY <1>1, <2>1, <2>2
<1>5. n > 0 => s[n].end = tot
  <2>1. n > 0 => s # <<>>
      BY EmptyLen
  <2>. QED
      BY <2>1, Zenon DEF Tiles
<1>6. ASSUME NEW i \in 1 .. Len(t) - 1
      PROVE  t[i + 1].end = t[i].end + Charge(t[i + 1].len)
  <2>1. CASE i = n
    <3>1. t[i + 1] = f /\ t[i] = s[n] /\ n > 0
        BY <1>1, <2>1
    <3>. QED
        BY <1>5, <3>1, Zenon
  <2>2. CASE i < n
    <3>1. t[i + 1] = s[i + 1] /\ t[i] = s[i] /\ i \in 1 .. n - 1
        BY <1>1, <2>2
    <3>. QED
        BY <3>1, Zenon DEF Tiles
  <2>. QED
      BY <1>1, <2>1, <2>2
<1>7. ASSUME NEW i \in 1 .. Len(t), NEW j \in 1 .. Len(t), i <= j
      PROVE  t[j].end - t[i].end >= j - i
  <2>1. CASE j <= n
    <3>1. t[j] = s[j] /\ t[i] = s[i] /\ i \in 1 .. n /\ j \in 1 .. n
        BY <1>1, <1>7, <2>1
    <3>. QED
        BY <1>7, <3>1, Zenon DEF Tiles
  <2>2. CASE i = n + 1
    <3>1. t[j] = f /\ t[i] = f /\ j = i
        BY <1>1, <1>7, <2>2
    <3>. QED
        BY <1>2, <3>1
  <2>3. CASE j = n + 1 /\ i <= n
    <3>1. t[j] = f /\ t[i] = s[i] /\ i \in 1 .. n /\ n \in 1 .. n /\ i <= n
        BY <1>1, <2>3
    <3>2. s[n].end - s[i].end >= n - i
        BY <3>1, Zenon DEF Tiles
    <3>3. s[i].end \in Nat /\ s[n].end = tot
        BY <1>1, <1>5, <3>1, SeqFields
    <3>4. ASSUME NEW x \in Nat, tot - x >= n - i
          PROVE  (tot + c) - x >= (n + 1) - i
        BY <1>1, <1>2, <3>1, <3>4, SMTT(30)
    <3>5. (tot + c) - s[i].end >= (n + 1) - i
        BY <3>2, <3>3, <3>4, Zenon
    <3>. QED
        BY <2>3, <3>1, <3>5, Zenon
  <2>. QED
      BY <1>1, <2>1, <2>2, <2>3
<1>. QED
    BY <1>1, <1>3, <1>4, <1>6, <1>7, Zenon DEF Tiles

-----------------------------------------------------------------------------
(* The two ways the queue changes, as steps.                               *)

\* The queue after pop_front, by pop or in the eviction loop.
FrontOut ==
    /\ items' \in Seq(Frame)
    /\ bytes' \in Nat
    /\ Len(items') = Len(items) - 1
    /\ \A i \in 1 .. Len(items') : items'[i] = items[i + 1]
    /\ Tiled'
    /\ WithinBudget'

\* pop and the eviction loop leave the queue tiled and within budget.
LEMMA FrontStep ==
    ASSUME TypeOK, Tiled, WithinBudget, items # <<>>, items' = Tail(items),
           bytes' = bytes - Charge(Head(items).len), UNCHANGED total
    PROVE  FrontOut
<1>1. /\ Head(items) = items[1]
      /\ items' \in Seq(Frame)
      /\ Len(items') = Len(items) - 1
      /\ \A i \in 1 .. Len(items) - 1 : items'[i] = items[i + 1]
    BY FrontFacts, Zenon DEF TypeOK
<1>2. items \in Seq(Frame) /\ bytes \in Nat /\ total \in Nat /\ HighWaterMark \in Nat
    BY MailboxAssumption, Zenon DEF TypeOK
<1>3. /\ bytes' = bytes - Charge(items[1].len)
      /\ bytes' \in Nat /\ bytes' >= Len(items')
      /\ Tiles(items', bytes', total)
    BY <1>1, <1>2, RemoveFront, Zenon DEF Tiled
<1>4. Tiled'
    BY <1>3, Zenon DEF Tiled
<1>5. bytes' <= bytes /\ Len(items) \in Nat
  <2>1. 1 \in 1 .. Len(items) /\ Len(items) \in Nat
      BY <1>2, EmptyLen
  <2>2. Charge(items[1].len) \in Nat
      BY <1>2, <2>1, SeqFields, Zenon
  <2>. QED
      BY <1>2, <1>3, <2>1, <2>2
<1>6. WithinBudget'
    BY <1>1, <1>2, <1>3, <1>5 DEF WithinBudget
<1>. QED
    BY <1>1, <1>3, <1>4, <1>6 DEF FrontOut

\* The queue after push_back.
BackIn(f) ==
    /\ items' \in Seq(Frame)
    /\ bytes' \in Nat
    /\ total' \in Nat
    /\ Len(items') = Len(items) + 1
    /\ \A i \in 1 .. Len(items) : items'[i] = items[i]
    /\ items'[Len(items) + 1] = f
    /\ Tiled'
    /\ WithinBudget'

\* push leaves the queue tiled and within budget when the frame fits or the
\* queue was empty.
LEMMA BackStep ==
    ASSUME TypeOK, Tiled, WithinBudget, NEW p, NEW f \in Frame, Enqueue(p, f),
           f.end = total + Charge(f.len),
           bytes + Charge(f.len) <= HighWaterMark \/ items = <<>>
    PROVE  BackIn(f)
<1>1. /\ items' \in Seq(Frame)
      /\ Len(items') = Len(items) + 1 /\ Len(items) \in Nat
      /\ \A i \in 1 .. Len(items) : items'[i] = items[i]
      /\ items'[Len(items) + 1] = f
    BY BackFacts, ZenonT(40) DEF TypeOK, Enqueue
<1>2. items \in Seq(Frame) /\ bytes \in Nat /\ total \in Nat /\ HighWaterMark \in Nat
    BY MailboxAssumption DEF TypeOK
<1>3. Charge(f.len) \in Nat /\ Charge(f.len) >= 1
    BY FrameFields, ChargePositive, Zenon
<1>4. bytes' = bytes + Charge(f.len) /\ total' = total + Charge(f.len)
    BY DEF Enqueue
<1>5. Tiles(items', bytes', total')
    BY <1>1, <1>2, <1>4, AddBack, Zenon DEF Tiled
<1>6. Tiled'
    BY <1>5, Zenon DEF Tiled
<1>7. WithinBudget'
  <2>1. items = <<>> => Len(items) = 0 /\ bytes = 0
      BY <1>2, EmptyLen, Zenon DEF Tiled, Tiles
  <2>. QED
      BY <1>1, <1>2, <1>3, <1>4, <2>1 DEF WithinBudget
<1>. QED
    BY <1>1, <1>2, <1>3, <1>4, <1>6, <1>7 DEF BackIn

\* Every number in the queue is at most what has been offered.
LEMMA Numbers ==
    ASSUME TypeOK
    PROVE  /\ items \in Seq(Frame) /\ Len(items) \in Nat /\ DOMAIN items = 1 .. Len(items)
           /\ \A i \in 1 .. Len(items) : items[i].no \in Nat
<1>1. items \in Seq(Frame)
    BY DEF TypeOK
<1>2. Len(items) \in Nat /\ DOMAIN items = 1 .. Len(items)
    BY <1>1
<1>. QED
    BY <1>1, <1>2, SeqFields, Zenon

\* The order of the queue survives pop_front.
LEMMA FrontOrder ==
    ASSUME TypeOK, InOrder, FrontOut, items # <<>>,
           offered' = offered, last' = last \/ last' = items[1].no
    PROVE  InOrder'
<1>1. /\ Len(items) \in Nat /\ DOMAIN items = 1 .. Len(items)
      /\ DOMAIN items' = 1 .. Len(items') /\ Len(items') = Len(items) - 1
      /\ \A i \in 1 .. Len(items) : items[i].no \in Nat
      /\ \A i \in 1 .. Len(items') : items'[i] = items[i + 1]
  <2>1. items' \in Seq(Frame)
      BY Zenon DEF FrontOut
  <2>2. DOMAIN items' = 1 .. Len(items')
      BY <2>1
  <2>. QED
      BY <2>2, Numbers, Zenon DEF FrontOut
<1>2. /\ \A i, j \in 1 .. Len(items) : i < j => items[i].no < items[j].no
      /\ \A i \in 1 .. Len(items) : last < items[i].no /\ items[i].no <= offered
    BY <1>1, Zenon DEF InOrder
<1>3. ASSUME NEW i \in 1 .. Len(items'), NEW j \in 1 .. Len(items'), i < j
      PROVE  items'[i].no < items'[j].no
  <2>1. i + 1 \in 1 .. Len(items) /\ j + 1 \in 1 .. Len(items) /\ i + 1 < j + 1
      BY <1>1, <1>3
  <2>. QED
      BY <1>1, <1>2, <2>1, Zenon
<1>4. ASSUME NEW i \in 1 .. Len(items')
      PROVE  last' < items'[i].no /\ items'[i].no <= offered'
  <2>1. i + 1 \in 1 .. Len(items) /\ 1 \in 1 .. Len(items) /\ 1 < i + 1
      BY <1>1
  <2>2. last < items[i + 1].no /\ items[i + 1].no <= offered /\ items[1].no < items[i + 1].no
      BY <1>2, <2>1, Zenon
  <2>3. items'[i] = items[i + 1]
      BY <1>1, Zenon
  <2>. QED
      BY <2>2, <2>3, Zenon
<1>. QED
    BY <1>1, <1>3, <1>4, Zenon DEF InOrder

\* The order of the queue survives a push_back of the newest frame.
LEMMA BackOrder ==
    ASSUME TypeOK, InOrder, NEW f, BackIn(f), f.no \in Nat, last < f.no,
           \A i \in DOMAIN items : items[i].no < f.no,
           f.no <= offered', offered' \in Nat, offered' >= offered, UNCHANGED last
    PROVE  InOrder'
<1>1. /\ Len(items) \in Nat /\ DOMAIN items = 1 .. Len(items)
      /\ DOMAIN items' = 1 .. Len(items') /\ Len(items') = Len(items) + 1
      /\ \A i \in 1 .. Len(items) : items[i].no \in Nat
      /\ \A i \in 1 .. Len(items) : items'[i] = items[i]
      /\ items'[Len(items) + 1] = f
      /\ offered \in Nat
    BY Numbers DEF BackIn, TypeOK
<1>2. /\ \A i, j \in 1 .. Len(items) : i < j => items[i].no < items[j].no
      /\ \A i \in 1 .. Len(items) : last < items[i].no /\ items[i].no <= offered
    BY <1>1, Zenon DEF InOrder
<1>3. ASSUME NEW i \in 1 .. Len(items'), NEW j \in 1 .. Len(items'), i < j
      PROVE  items'[i].no < items'[j].no
  <2>1. i \in 1 .. Len(items) /\ items'[i] = items[i]
      BY <1>1, <1>3
  <2>2. CASE j \in 1 .. Len(items)
      BY <1>1, <1>2, <1>3, <2>1, <2>2, Zenon
  <2>3. CASE j = Len(items) + 1
      BY <1>1, <2>1, <2>3, Zenon
  <2>. QED
      BY <1>1, <2>2, <2>3
<1>4. ASSUME NEW i \in 1 .. Len(items')
      PROVE  last' < items'[i].no /\ items'[i].no <= offered'
  <2>1. CASE i \in 1 .. Len(items)
    <3>1. items'[i] = items[i] /\ items[i].no \in Nat /\ items[i].no <= offered
          /\ last < items[i].no
        BY <1>1, <1>2, <2>1, Zenon
    <3>. QED
        BY <1>1, <3>1
  <2>2. CASE i = Len(items) + 1
      BY <1>1, <2>2, Zenon
  <2>. QED
      BY <1>1, <2>1, <2>2
<1>. QED
    BY <1>1, <1>3, <1>4, Zenon DEF InOrder

-----------------------------------------------------------------------------
(* Induction.                                                              *)

\* A new mailbox satisfies the inductive invariant.
LEMMA InitIInv == Init => IInv
<1>. SUFFICES ASSUME Init PROVE IInv
    OBVIOUS
<1>1. items = <<>> /\ Len(items) = 0 /\ items \in Seq(Frame)
    BY DEF Init
<1>2. TypeOK
    BY <1>1, Zenon DEF TypeOK, Init
<1>3. Tiled /\ WithinBudget /\ InOrder
    BY <1>1, MailboxAssumption DEF Tiled, Tiles, WithinBudget, InOrder, Init
<1>. QED
    BY <1>1, <1>2, <1>3 DEF IInv, Incoming, NeverSilent, NoLostWakeup, Init

\* A push, whatever its outcome, preserves the inductive invariant.
LEMMA PushStep ==
    ASSUME IInv, NEW p \in Producers, Push(p)
    PROVE  IInv'
<1>1. PICK len \in Lens :
        LET g == [no |-> offered + 1, len |-> len, end |-> total + Charge(len)]
        IN  \/ PushClosed(p, g) \/ PushQueued(p, g) \/ PushDisconnect(p, g)
            \/ PushDropNewest(p, g) \/ PushDropOldest(p, g)
    BY DEF Push
<1>2. PICK f : f = [no |-> offered + 1, len |-> len, end |-> total + Charge(len)]
    BY Zenon
<1>3. \/ PushClosed(p, f) \/ PushQueued(p, f) \/ PushDisconnect(p, f)
      \/ PushDropNewest(p, f) \/ PushDropOldest(p, f)
    BY <1>1, <1>2, Zenon
<1>4. /\ TypeOK /\ Tiled /\ Incoming /\ WithinBudget /\ InOrder /\ NeverSilent
      /\ NoLostWakeup
    BY Zenon DEF IInv
<1>5. /\ offered \in Nat /\ total \in Nat /\ bytes \in Nat /\ HighWaterMark \in Nat
      /\ refused \in Nat /\ taken \in Nat /\ drops \in Nat /\ last \in Nat
      /\ items \in Seq(Frame) /\ Len(items) \in Nat
      /\ \A i \in DOMAIN items : items[i].no \in Nat
    BY <1>4, MailboxAssumption, Numbers, Zenon DEF TypeOK
<1>6. /\ len \in Nat /\ Charge(len) \in Nat
    BY MailboxAssumption, ChargePositive, Zenon
<1>7. f \in Frame /\ f.no = offered + 1 /\ f.len = len /\ f.end = total + Charge(f.len)
    BY <1>2, <1>5, <1>6 DEF Frame
<1>8. holder = NoProducer /\ offered' = offered + 1 /\ evicted = 0
    BY <1>3, <1>4, Zenon DEF PushClosed, PushQueued, PushDisconnect, PushDropNewest,
        PushDropOldest, Offers, Incoming
<1>9. last <= offered /\ \A i \in DOMAIN items : items[i].no <= offered
    BY <1>4, <1>8, Zenon DEF InOrder, Incoming
<1>10. CASE PushQueued(p, f)
  <2>1. bytes + Charge(f.len) <= HighWaterMark \/ items = <<>>
      BY <1>5, <1>6, <1>7, <1>10 DEF PushQueued, Overflows
  <2>2. Enqueue(p, f) /\ BackIn(f)
      BY <1>4, <1>7, <1>10, <2>1, BackStep, Zenon DEF PushQueued
  <2>3. InOrder'
      BY <1>4, <1>5, <1>7, <1>8, <1>9, <1>10, <2>2, BackOrder DEF PushQueued
  <2>4. TypeOK'
      BY <1>4, <1>5, <1>8, <1>10, <2>2 DEF TypeOK, PushQueued, BackIn, Enqueue, lockVars
  <2>5. Incoming'
      BY <1>5, <1>8, <1>9, <1>10 DEF Incoming, PushQueued, lockVars
  <2>6. Len(items') = Len(items) + 1
      BY <2>2, Zenon DEF BackIn
  <2>7. NeverSilent'
      BY <1>4, <1>5, <1>8, <1>10, <2>6 DEF NeverSilent, PushQueued, lockVars
  <2>8. NoLostWakeup'
      BY <2>2, Zenon DEF NoLostWakeup, Enqueue
  <2>. QED
      BY <2>2, <2>3, <2>4, <2>5, <2>7, <2>8, Zenon DEF IInv, BackIn
<1>11. CASE PushClosed(p, f) \/ PushDropNewest(p, f) \/ PushDisconnect(p, f)
  <2>1. /\ UNCHANGED <<items, bytes, total, holder, incoming, evicted, taken, last,
                       permit, wpc, policy>>
        /\ closed' \in BOOLEAN /\ notifiers' \in SUBSET Producers
        /\ notifiers \subseteq notifiers'
        /\ closed' = closed \/ notifiers' # {}
    <3>1. CASE PushClosed(p, f) \/ PushDropNewest(p, f)
        BY <1>4, <3>1, Zenon DEF PushClosed, PushDropNewest, queueVars, lockVars, TypeOK
    <3>2. CASE PushDisconnect(p, f)
        BY <1>4, <3>2, Zenon DEF PushDisconnect, lockVars, TypeOK
    <3>. QED
        BY <1>11, <3>1, <3>2, Zenon
  <2>8. \/ refused' = refused + 1 /\ drops' = drops
        \/ refused' = refused /\ drops' = drops + 1
      BY <1>11, Zenon DEF PushClosed, PushDropNewest, PushDisconnect
  <2>2. TypeOK'
      BY <1>4, <1>5, <1>8, <2>1, <2>8, SMTT(30) DEF TypeOK
  <2>3. Tiled' /\ WithinBudget'
      BY <1>4, <2>1, Zenon DEF Tiled, Tiles, WithinBudget
  <2>4. InOrder'
      BY <1>4, <1>5, <1>8, <1>9, <2>1 DEF InOrder
  <2>5. Incoming'
      BY <1>5, <1>8, <1>9, <2>1 DEF Incoming
  <2>6. NeverSilent'
    <3>1. Len(items') = Len(items) /\ taken' = taken /\ holder' = NoProducer
        BY <1>8, <2>1, Zenon
    <3>2. offered = refused + taken + Len(items) + drops
        BY <1>4, <1>5, <1>8 DEF NeverSilent
    <3>3. offered' = refused' + taken' + Len(items') + drops'
        BY <1>5, <1>8, <2>8, <3>1, <3>2, SMTT(30)
    <3>4. offered' = refused' + taken' + Len(items') + drops' + 0
        BY <1>5, <1>8, <2>8, <3>1, <3>3
    <3>. QED
        BY <3>1, <3>4, Zenon DEF NeverSilent
  <2>7. NoLostWakeup'
      BY <1>4, <2>1, Zenon DEF NoLostWakeup
  <2>. QED
      BY <2>2, <2>3, <2>4, <2>5, <2>6, <2>7, Zenon DEF IInv
<1>12. CASE PushDropOldest(p, f)
  <2>1. /\ UNCHANGED <<items, bytes, closed, total, refused, drops, taken, last, permit,
                       wpc, policy, notifiers>>
        /\ holder' = p /\ incoming' = f /\ evicted' = 0 /\ ~closed /\ p \notin notifiers
        /\ p # NoProducer
      BY <1>12, MailboxAssumption, Zenon DEF PushDropOldest, queueVars, Offers, Idle
  <2>2. TypeOK'
      BY <1>4, <1>5, <1>7, <1>8, <2>1 DEF TypeOK
  <2>3. Tiled' /\ WithinBudget'
      BY <1>4, <2>1, Zenon DEF Tiled, Tiles, WithinBudget
  <2>4. InOrder'
      BY <1>4, <1>5, <1>8, <1>9, <2>1 DEF InOrder
  <2>5. Incoming'
      BY <1>5, <1>7, <1>8, <1>9, <2>1 DEF Incoming
  <2>6. NeverSilent'
      BY <1>4, <1>5, <1>8, <2>1 DEF NeverSilent
  <2>7. NoLostWakeup'
      BY <2>1, Zenon DEF NoLostWakeup
  <2>. QED
      BY <2>2, <2>3, <2>4, <2>5, <2>6, <2>7, Zenon DEF IInv
<1>. QED
    BY <1>3, <1>10, <1>11, <1>12, Zenon

\* Both halves of the eviction loop preserve it.
LEMMA EvictStep ==
    ASSUME IInv, Evict \/ EvictDone
    PROVE  IInv'
<1>1. /\ TypeOK /\ Tiled /\ Incoming /\ WithinBudget /\ InOrder /\ NeverSilent
      /\ NoLostWakeup
    BY Zenon DEF IInv
<1>2. /\ offered \in Nat /\ total \in Nat /\ bytes \in Nat /\ evicted \in Nat
      /\ refused \in Nat /\ taken \in Nat /\ drops \in Nat /\ last \in Nat
      /\ items \in Seq(Frame) /\ Len(items) \in Nat /\ DOMAIN items = 1 .. Len(items)
      /\ \A i \in DOMAIN items : items[i].no \in Nat
    BY <1>1, Numbers, Zenon DEF TypeOK
<1>3. /\ holder # NoProducer /\ holder \in Producers /\ incoming \in Frame
      /\ ~closed /\ holder \notin notifiers
      /\ incoming.no = offered /\ incoming.end = total + Charge(incoming.len)
      /\ last < offered /\ \A i \in DOMAIN items : items[i].no < offered
    BY <1>1, Zenon DEF Evict, EvictDone, TypeOK, Incoming
<1>4. CASE Evict
  <2>1. /\ UNCHANGED <<policy, closed, permit, drops, holder, incoming, notifiers, wpc,
                       offered, refused, taken, last, total>>
        /\ items # <<>> /\ evicted' = evicted + 1
      BY <1>4, Zenon DEF Evict, tallyVars
  <2>2. FrontOut
      BY <1>1, <1>4, <2>1, FrontStep, Zenon DEF Evict
  <2>3. InOrder'
      BY <1>1, <2>1, <2>2, FrontOrder, Zenon
  <2>4. TypeOK'
      BY <1>1, <1>2, <2>1, <2>2 DEF TypeOK, FrontOut
  <2>5. \A i \in DOMAIN items' : items'[i].no < offered
    <3>1. items' \in Seq(Frame) /\ Len(items') = Len(items) - 1
          /\ \A i \in 1 .. Len(items') : items'[i] = items[i + 1]
        BY <2>2, Zenon DEF FrontOut
    <3>2. DOMAIN items' = 1 .. Len(items')
        BY <3>1
    <3>3. ASSUME NEW i \in 1 .. Len(items') PROVE items'[i].no < offered
      <4>1. i + 1 \in DOMAIN items /\ items'[i] = items[i + 1]
          BY <1>2, <3>1
      <4>. QED
          BY <1>3, <4>1, Zenon
    <3>. QED
        BY <3>2, <3>3, Zenon
  <2>6. Incoming'
      BY <1>2, <1>3, <2>1, <2>5 DEF Incoming
  <2>7. Len(items') = Len(items) - 1
      BY <2>2, Zenon DEF FrontOut
  <2>8. NeverSilent'
      BY <1>1, <1>2, <1>3, <2>1, <2>7 DEF NeverSilent
  <2>9. NoLostWakeup'
      BY <1>3, <2>1, Zenon DEF NoLostWakeup
  <2>. QED
      BY <2>2, <2>3, <2>4, <2>6, <2>8, <2>9, Zenon DEF IInv, FrontOut
<1>5. CASE EvictDone
  <2>1. /\ UNCHANGED <<policy, closed, permit, wpc, offered, refused, taken, last>>
        /\ holder' = NoProducer /\ incoming' = NoFrame /\ evicted' = 0
        /\ drops' = drops + evicted
        /\ Enqueue(holder, incoming)
        /\ bytes + Charge(incoming.len) <= HighWaterMark \/ items = <<>>
      BY <1>5, Zenon DEF EvictDone
  <2>2. BackIn(incoming)
      BY <1>1, <1>3, <2>1, BackStep, Zenon
  <2>3. InOrder'
      BY <1>1, <1>2, <1>3, <2>1, <2>2, BackOrder
  <2>4. TypeOK'
      BY <1>1, <1>2, <1>3, <2>1, <2>2, SMTT(30) DEF TypeOK, BackIn, Enqueue
  <2>5. Incoming'
      BY <1>2, <1>3, <2>1 DEF Incoming
  <2>6. Len(items') = Len(items) + 1
      BY <2>2, Zenon DEF BackIn
  <2>7. NeverSilent'
      BY <1>1, <1>2, <1>3, <2>1, <2>6 DEF NeverSilent
  <2>8. NoLostWakeup'
      BY <2>1, Zenon DEF NoLostWakeup, Enqueue
  <2>. QED
      BY <2>2, <2>3, <2>4, <2>5, <2>7, <2>8, Zenon DEF IInv, BackIn
<1>. QED
    BY <1>4, <1>5, Zenon

\* What notify_one, close and the writer's other steps leave alone: the queue
\* and its tallies, and, while a push holds the lock, the closed flag.
Quiet ==
    /\ UNCHANGED <<policy, items, bytes, drops, holder, incoming, evicted, offered,
                   refused, taken, last, total>>
    /\ closed' \in BOOLEAN /\ permit' \in BOOLEAN /\ notifiers' \in SUBSET Producers
    /\ wpc' \in {"poll", "parked", "sending", "ended"}
    /\ holder # NoProducer => closed' = closed /\ notifiers' \subseteq notifiers

\* pop preserves the inductive invariant.
LEMMA PopStep ==
    ASSUME IInv, Pop
    PROVE  IInv'
<1>0. /\ TypeOK /\ Tiled /\ Incoming /\ WithinBudget /\ InOrder /\ NeverSilent
      /\ NoLostWakeup
    BY Zenon DEF IInv
<1>1. /\ UNCHANGED <<policy, closed, permit, drops, holder, incoming, evicted,
                     notifiers, offered, refused, total>>
      /\ items # <<>> /\ holder = NoProducer /\ taken' = taken + 1 /\ wpc' = "sending"
      /\ last' = Head(items).no
    BY Zenon DEF Pop, lockVars
<1>2. FrontOut
    BY <1>0, <1>1, FrontStep, Zenon DEF Pop
<1>3. /\ last' = items[1].no /\ 1 \in DOMAIN items /\ items[1].no \in Nat
      /\ Len(items) \in Nat
    BY <1>0, <1>1, Numbers, EmptyLen, FrontFacts
<1>4. InOrder'
    BY <1>0, <1>1, <1>2, <1>3, FrontOrder, Zenon
<1>5. TypeOK'
    BY <1>0, <1>1, <1>2, <1>3 DEF TypeOK, FrontOut
<1>6. Incoming'
    BY <1>0, <1>1, <1>3, Zenon DEF Incoming, InOrder, TypeOK
<1>7. Len(items') = Len(items) - 1
    BY <1>2, Zenon DEF FrontOut
<1>8. NeverSilent'
    BY <1>0, <1>1, <1>3, <1>7 DEF NeverSilent, TypeOK
<1>9. NoLostWakeup'
    BY <1>1, Zenon DEF NoLostWakeup
<1>. QED
    BY <1>2, <1>4, <1>5, <1>6, <1>8, <1>9, Zenon DEF IInv, FrontOut

\* A step that leaves the queue alone and wakes the writer as it should
\* preserves it.
LEMMA QuietStep ==
    ASSUME IInv, Quiet, NoLostWakeup'
    PROVE  IInv'
<1>0. TypeOK /\ Tiled /\ Incoming /\ WithinBudget /\ InOrder /\ NeverSilent
    BY Zenon DEF IInv
<1>1. TypeOK'
    BY <1>0, Zenon DEF TypeOK, Quiet
<1>2. Tiled' /\ WithinBudget' /\ InOrder'
    BY <1>0, Zenon DEF Tiled, Tiles, WithinBudget, InOrder, Quiet
<1>3. Incoming' /\ NeverSilent'
    BY <1>0, Zenon DEF Incoming, NeverSilent, Quiet
<1>. QED
    BY <1>1, <1>2, <1>3, Zenon DEF IInv

\* notify_one, close and the writer's other steps are such steps.
LEMMA OtherSteps ==
    ASSUME TypeOK, NoLostWakeup,
           \/ \E p \in Producers : NotifyOne(p) \/ Close(p)
           \/ PopNone \/ Park \/ Wake \/ Sent \/ Cancel
    PROVE  Quiet /\ NoLostWakeup'
<1>1. ASSUME NEW p \in Producers, NotifyOne(p) PROVE Quiet /\ NoLostWakeup'
  <2>1. Quiet
      BY <1>1, Zenon DEF NotifyOne, queueVars, lockVars, tallyVars, Quiet, TypeOK
  <2>2. NoLostWakeup'
      BY <1>1, Zenon DEF NotifyOne, queueVars, lockVars, tallyVars, NoLostWakeup
  <2>. QED
      BY <2>1, <2>2, Zenon
<1>2. ASSUME NEW p \in Producers, Close(p) PROVE Quiet /\ NoLostWakeup'
  <2>1. Quiet
      BY <1>2, Zenon DEF Close, queueVars, lockVars, tallyVars, Quiet, TypeOK
  <2>2. NoLostWakeup'
      BY <1>2, Zenon DEF Close, queueVars, lockVars, tallyVars, NoLostWakeup
  <2>. QED
      BY <2>1, <2>2, Zenon
<1>3. ASSUME PopNone PROVE Quiet /\ NoLostWakeup'
  <2>1. Quiet
      BY <1>3, Zenon DEF PopNone, queueVars, lockVars, tallyVars, Quiet, TypeOK
  <2>2. NoLostWakeup'
      BY <1>3, Zenon DEF PopNone, queueVars, lockVars, tallyVars, NoLostWakeup
  <2>. QED
      BY <2>1, <2>2, Zenon
<1>4. ASSUME Park PROVE Quiet /\ NoLostWakeup'
  <2>1. Quiet
      BY <1>4, Zenon DEF Park, queueVars, lockVars, tallyVars, Quiet, TypeOK
  <2>2. NoLostWakeup'
      BY <1>4, Zenon DEF Park, queueVars, lockVars, tallyVars, NoLostWakeup
  <2>. QED
      BY <2>1, <2>2, Zenon
<1>5. ASSUME Wake PROVE Quiet /\ NoLostWakeup'
  <2>1. Quiet
      BY <1>5, Zenon DEF Wake, queueVars, lockVars, tallyVars, Quiet, TypeOK
  <2>2. NoLostWakeup'
      BY <1>5, Zenon DEF Wake, queueVars, lockVars, tallyVars, NoLostWakeup
  <2>. QED
      BY <2>1, <2>2
<1>6. ASSUME Sent PROVE Quiet /\ NoLostWakeup'
  <2>1. Quiet
      BY <1>6, Zenon DEF Sent, queueVars, lockVars, tallyVars, Quiet, TypeOK
  <2>2. NoLostWakeup'
      BY <1>6, Zenon DEF Sent, queueVars, lockVars, tallyVars, NoLostWakeup
  <2>. QED
      BY <2>1, <2>2
<1>7. ASSUME Cancel PROVE Quiet /\ NoLostWakeup'
  <2>1. Quiet
      BY <1>7, Zenon DEF Cancel, queueVars, lockVars, tallyVars, Quiet, TypeOK
  <2>2. NoLostWakeup'
      BY <1>7, Zenon DEF Cancel, queueVars, lockVars, tallyVars, NoLostWakeup
  <2>. QED
      BY <2>1, <2>2
<1>. QED
    BY <1>1, <1>2, <1>3, <1>4, <1>5, <1>6, <1>7, Zenon

\* Stuttering is one too.
LEMMA StutterStep ==
    ASSUME TypeOK, NoLostWakeup, UNCHANGED vars
    PROVE  Quiet /\ NoLostWakeup'
    BY Zenon DEF vars, queueVars, lockVars, tallyVars, Quiet, TypeOK, NoLostWakeup

\* The inductive invariant holds throughout.
THEOREM Invariance == Spec => []IInv
<1>1. IInv => TypeOK /\ NoLostWakeup
    BY Zenon DEF IInv
<1>2. IInv /\ [Next]_vars => IInv'
    BY <1>1, PushStep, EvictStep, PopStep, QuietStep, OtherSteps, StutterStep, Zenon DEF Next, Writer
<1>. QED
    BY <1>2, InitIInv, PTL DEF Spec

\* Type correctness; in particular `q.bytes -= charge` never underflows.
THEOREM TypeCorrect == Spec => []TypeOK
<1>1. IInv => TypeOK
    BY Zenon DEF IInv
<1>. QED
    BY <1>1, Invariance, PTL

\* The queue never exceeds its byte budget and never holds more frames than
\* budget bytes, whatever is pushed and under every policy.
THEOREM BudgetHolds == Spec => []WithinBudget
<1>1. IInv => WithinBudget
    BY Zenon DEF IInv
<1>. QED
    BY <1>1, Invariance, PTL

\* Frames are popped in the order they were pushed.
THEOREM FifoOrder == Spec => []InOrder
<1>1. IInv => InOrder
    BY Zenon DEF IInv
<1>. QED
    BY <1>1, Invariance, PTL

\* Every frame pushed is refused, queued, popped or counted as a drop.
THEOREM DropsCounted == Spec => []NeverSilent
<1>1. IInv => NeverSilent
    BY Zenon DEF IInv
<1>. QED
    BY <1>1, Invariance, PTL

\* The writer never sleeps through a push or a close.
THEOREM WakeupsArrive == Spec => []NoLostWakeup
<1>1. IInv => NoLostWakeup
    BY Zenon DEF IInv
<1>. QED
    BY <1>1, Invariance, PTL

-----------------------------------------------------------------------------
(* backpressure.rs implements LossyQueue.                                  *)

\* The abstract queue: the numbers of the frames held.
Nos == [i \in 1 .. Len(items) |-> items[i].no]

\* The abstract count of frames offered.
Seen == IF holder = NoProducer THEN offered ELSE offered - 1

Cap == IF HighWaterMark = 0 THEN 1 ELSE HighWaterMark

\* pop_front is Tail of the abstract queue.
LEMMA NosFront ==
    ASSUME TypeOK, FrontOut, items # <<>>
    PROVE  /\ Nos \in Seq(Nat) /\ Nos # <<>>
           /\ Head(Nos) = items[1].no /\ Nos' = Tail(Nos)
<1>1. /\ items \in Seq(Frame) /\ Len(items) \in Nat /\ Len(items) >= 1
      /\ \A i \in 1 .. Len(items) : items[i].no \in Nat
    BY Numbers, EmptyLen
<1>2. /\ Len(items') = Len(items) - 1
      /\ \A i \in 1 .. Len(items') : items'[i] = items[i + 1]
    BY Zenon DEF FrontOut
<1>3. Nos \in Seq(Nat) /\ Len(Nos) = Len(items)
    BY <1>1 DEF Nos
<1>4. Nos # <<>> /\ Head(Nos) = items[1].no
    BY <1>1, <1>3 DEF Nos
<1>5. /\ Tail(Nos) \in Seq(Nat) /\ Len(Tail(Nos)) = Len(items) - 1
      /\ \A i \in 1 .. Len(items) - 1 : Tail(Nos)[i] = Nos[i + 1]
    BY <1>1, <1>3, <1>4
<1>6. \A i \in 1 .. Len(items) - 1 : Nos[i + 1] = items[i + 1].no
    BY <1>1 DEF Nos
<1>7. Nos' = [i \in 1 .. Len(items) - 1 |-> items[i + 1].no]
    BY <1>2, Zenon DEF Nos
<1>8. Tail(Nos) = [i \in 1 .. Len(Tail(Nos)) |-> Tail(Nos)[i]]
    BY <1>5, SeqIsFunction, Zenon
<1>. QED
    BY <1>3, <1>4, <1>5, <1>6, <1>7, <1>8, Zenon

\* push_back is Append to the abstract queue.
LEMMA NosBack ==
    ASSUME TypeOK, NEW f \in Frame, BackIn(f)
    PROVE  Nos \in Seq(Nat) /\ Len(Nos) = Len(items) /\ Nos' = Append(Nos, f.no)
<1>1. /\ items \in Seq(Frame) /\ Len(items) \in Nat /\ f.no \in Nat
      /\ \A i \in 1 .. Len(items) : items[i].no \in Nat
    BY Numbers, FrameFields, Zenon
<1>2. /\ Len(items') = Len(items) + 1
      /\ \A i \in 1 .. Len(items) : items'[i] = items[i]
      /\ items'[Len(items) + 1] = f
    BY Zenon DEF BackIn
<1>3. Nos \in Seq(Nat) /\ Len(Nos) = Len(items)
    BY <1>1 DEF Nos
<1>4. /\ Append(Nos, f.no) \in Seq(Nat) /\ Len(Append(Nos, f.no)) = Len(items) + 1
      /\ \A i \in 1 .. Len(items) : Append(Nos, f.no)[i] = Nos[i]
      /\ Append(Nos, f.no)[Len(items) + 1] = f.no
    BY <1>1, <1>3
<1>5. Nos' = [i \in 1 .. Len(items) + 1 |-> items'[i].no]
    BY <1>2, Zenon DEF Nos
<1>6. \A i \in 1 .. Len(items) + 1 : items'[i].no = Append(Nos, f.no)[i]
  <2>1. \A i \in 1 .. Len(items) : items'[i].no = Nos[i]
      BY <1>2, Zenon DEF Nos
  <2>. QED
      BY <1>1, <1>2, <1>4, <2>1
<1>7. Append(Nos, f.no) = [i \in 1 .. Len(items) + 1 |-> Append(Nos, f.no)[i]]
    BY <1>4
<1>. QED
    BY <1>3, <1>5, <1>6, <1>7, Zenon

\* There is room for the frame that a push or an eviction loop queues.
LEMMA RoomForOne ==
    ASSUME TypeOK, NEW f, BackIn(f)
    PROVE  Len(items) < Cap
<1>1. Len(items) \in Nat /\ HighWaterMark \in Nat
    BY Numbers, MailboxAssumption, Zenon
<1>2. /\ Len(items') = Len(items) + 1 /\ bytes' \in Nat
      /\ bytes' <= HighWaterMark \/ Len(items') <= 1
      /\ Len(items') <= bytes'
    BY DEF BackIn, WithinBudget
<1>. QED
    BY <1>1, <1>2 DEF Cap

\* Mailbox implements LossyQueue: push is Accept, Refuse or LoseNew, an
\* iteration of the eviction loop is LoseOldest, pop is Take, close is Shut,
\* and everything else stutters.
THEOREM Refinement == Spec => ImplementsLossyQueue
<1>. USE DEF Seen, Cap
<1>1. Init => LQ!Init
    BY DEF Init, LQ!Init
<1>2. ASSUME IInv, [Next]_vars PROVE [LQ!Next]_(LQ!lqVars)
  <2>1. TypeOK /\ Tiled /\ Incoming /\ WithinBudget
      BY <1>2, Zenon DEF IInv
  <2>2. drops \in Nat /\ evicted \in Nat /\ offered \in Nat /\ refused \in Nat
      BY <2>1, Zenon DEF TypeOK
  <2>3. ASSUME NEW p \in Producers, Push(p) PROVE [LQ!Next]_(LQ!lqVars)
    <3>1. PICK len \in Lens :
            LET g == [no |-> offered + 1, len |-> len, end |-> total + Charge(len)]
            IN  \/ PushClosed(p, g) \/ PushQueued(p, g) \/ PushDisconnect(p, g)
                \/ PushDropNewest(p, g) \/ PushDropOldest(p, g)
        BY <2>3, Zenon DEF Push
    <3>2. PICK f : f = [no |-> offered + 1, len |-> len, end |-> total + Charge(len)]
        BY Zenon
    <3>3. \/ PushClosed(p, f) \/ PushQueued(p, f) \/ PushDisconnect(p, f)
          \/ PushDropNewest(p, f) \/ PushDropOldest(p, f)
        BY <3>1, <3>2, Zenon
    <3>4. holder = NoProducer /\ offered' = offered + 1 /\ evicted = 0
        BY <3>3, <2>1, Zenon DEF PushClosed, PushQueued, PushDisconnect, PushDropNewest,
            PushDropOldest, Offers, Incoming
    <3>5. CASE PushClosed(p, f)
      <4>1. LQ!Refuse
          BY <2>2, <3>4, <3>5, Zenon DEF PushClosed, queueVars, lockVars, LQ!Refuse
      <4>. QED
          BY <4>1, Zenon DEF LQ!Next
    <3>6. CASE PushQueued(p, f)
      <4>1. len \in Nat /\ Charge(len) \in Nat /\ total \in Nat
          BY <2>1, MailboxAssumption, ChargePositive, Zenon DEF TypeOK
      <4>2. f \in Frame /\ f.no = offered + 1 /\ f.end = total + Charge(f.len)
          BY <2>2, <3>2, <4>1 DEF Frame
      <4>3. bytes + Charge(f.len) <= HighWaterMark \/ items = <<>>
        <5>1. f.len = len /\ bytes \in Nat /\ HighWaterMark \in Nat
            BY <2>1, <3>2, MailboxAssumption, Zenon DEF TypeOK
        <5>. QED
            BY <3>6, <4>1, <5>1 DEF PushQueued, Overflows
      <4>4. BackIn(f)
          BY <2>1, <3>6, <4>2, <4>3, BackStep, Zenon DEF PushQueued
      <4>5. /\ ~closed /\ closed' = closed /\ refused' = refused /\ drops' = drops
            /\ evicted' = evicted /\ holder' = holder /\ last' = last
          BY <3>6, Zenon DEF PushQueued, lockVars
      <4>6. Len(Nos) < Cap /\ Nos' = Append(Nos, offered + 1)
          BY <2>1, <4>2, <4>4, NosBack, RoomForOne, Zenon
      <4>7. LQ!Accept
          BY <2>2, <3>4, <4>5, <4>6, Zenon DEF LQ!Accept, Nos
      <4>. QED
          BY <4>7, Zenon DEF LQ!Next
    <3>7. CASE PushDisconnect(p, f) \/ PushDropNewest(p, f)
      <4>1. /\ UNCHANGED <<items, holder, evicted, refused, last>>
            /\ ~closed /\ closed' \in BOOLEAN /\ drops' = drops + 1
        <5>1. CASE PushDisconnect(p, f)
            BY <5>1, Zenon DEF PushDisconnect, lockVars
        <5>2. CASE PushDropNewest(p, f)
            BY <2>1, <5>2, Zenon DEF PushDropNewest, queueVars, lockVars, TypeOK
        <5>. QED
            BY <3>7, <5>1, <5>2
      <4>2. drops' + evicted' = (drops + evicted) + 1
          BY <2>2, <4>1
      <4>3. LQ!LoseNew
          BY <3>4, <4>1, <4>2, Zenon DEF LQ!LoseNew
      <4>. QED
          BY <4>3 DEF LQ!Next
    <3>8. CASE PushDropOldest(p, f)
      <4>1. p # NoProducer
          BY MailboxAssumption, Zenon
      <4>2. UNCHANGED LQ!lqVars
          BY <2>2, <3>4, <3>8, <4>1 DEF PushDropOldest, queueVars, LQ!lqVars
      <4>. QED
          BY <4>2, Zenon
    <3>. QED
        BY <3>3, <3>5, <3>6, <3>7, <3>8, Zenon
  <2>4. CASE Evict
    <3>1. /\ UNCHANGED <<closed, drops, holder, offered, refused, last, total>>
          /\ items # <<>> /\ evicted' = evicted + 1 /\ holder # NoProducer
        BY <2>4, Zenon DEF Evict, tallyVars
    <3>2. FrontOut
        BY <2>1, <2>4, <3>1, FrontStep, Zenon DEF Evict
    <3>3. Nos # <<>> /\ Nos' = Tail(Nos)
        BY <2>1, <3>1, <3>2, NosFront, Zenon
    <3>4. ~closed
        BY <2>1, <3>1, Zenon DEF Incoming
    <3>5. LQ!LoseOldest
      <4>1. drops' + evicted' = (drops + evicted) + 1
          BY <2>2, <3>1
      <4>. QED
          BY <3>1, <3>3, <3>4, <4>1, Zenon DEF LQ!LoseOldest, Nos
    <3>. QED
        BY <3>5, Zenon DEF LQ!Next
  <2>5. CASE EvictDone
    <3>1. /\ UNCHANGED <<closed, offered, refused, last>>
          /\ holder # NoProducer /\ holder' = NoProducer /\ evicted' = 0
          /\ drops' = drops + evicted /\ Enqueue(holder, incoming)
          /\ bytes + Charge(incoming.len) <= HighWaterMark \/ items = <<>>
        BY <2>5, Zenon DEF EvictDone
    <3>2. /\ incoming \in Frame /\ ~closed /\ incoming.no = offered
          /\ incoming.end = total + Charge(incoming.len)
        BY <2>1, <3>1, Zenon DEF TypeOK, Incoming
    <3>3. BackIn(incoming)
        BY <2>1, <3>1, <3>2, BackStep, Zenon
    <3>4. Len(Nos) < Cap /\ Nos' = Append(Nos, offered)
        BY <2>1, <3>2, <3>3, NosBack, RoomForOne, Zenon
    <3>5. LQ!Accept
      <4>1. drops' + evicted' = drops + evicted /\ offered = (offered - 1) + 1
          BY <2>2, <3>1
      <4>. QED
          BY <3>1, <3>2, <3>4, <4>1, Zenon DEF LQ!Accept, Nos
    <3>. QED
        BY <3>5, Zenon DEF LQ!Next
  <2>6. CASE Pop
    <3>1. /\ UNCHANGED <<closed, drops, holder, evicted, offered, refused, total>>
          /\ items # <<>> /\ last' = Head(items).no
        BY <2>6, Zenon DEF Pop, lockVars
    <3>2. FrontOut
        BY <2>1, <2>6, <3>1, FrontStep, Zenon DEF Pop
    <3>3. Head(items) = items[1]
        BY <2>1, <3>1, FrontFacts, Zenon DEF TypeOK
    <3>4. Nos # <<>> /\ Nos' = Tail(Nos) /\ last' = Head(Nos)
        BY <2>1, <3>1, <3>2, <3>3, NosFront, Zenon
    <3>5. LQ!Take
        BY <3>1, <3>4, Zenon DEF LQ!Take, Nos
    <3>. QED
        BY <3>5, Zenon DEF LQ!Next
  <2>7. ASSUME NEW p \in Producers, Close(p) PROVE [LQ!Next]_(LQ!lqVars)
    <3>1. LQ!Shut
        BY <2>7, Zenon DEF Close, lockVars, tallyVars, LQ!Shut
    <3>. QED
        BY <3>1, Zenon DEF LQ!Next
  <2>8. CASE \/ \E p \in Producers : NotifyOne(p)
             \/ PopNone \/ Park \/ Wake \/ Sent \/ Cancel \/ UNCHANGED vars
    <3>1. UNCHANGED LQ!lqVars
        BY <2>8, Zenon DEF NotifyOne, PopNone, Park, Wake, Sent, Cancel, vars, queueVars,
            lockVars, tallyVars, LQ!lqVars
    <3>. QED
        BY <3>1, Zenon
  <2>. QED
      BY <1>2, <2>3, <2>4, <2>5, <2>6, <2>7, <2>8, Zenon DEF Next, Writer
<1>. QED
    BY <1>1, <1>2, Invariance, PTL DEF Spec, ImplementsLossyQueue, LQ!Spec

-----------------------------------------------------------------------------
(* Drain: Engine::close and shutdown against the connection tasks.         *)

\* A task between registry.insert and registry.remove.
LivePcs == {"inserted", "open", "ending", "closed"}

EndedPcs == {"ending", "closed", "gone", "dropped"}

\* What a task's program point says of its entry, of its event and of the
\* signals it may have had.
TaskFacts ==
    \A c \in Conns :
      /\ cpc[c] \in LivePcs => c \in registry
      /\ c \in registry => cpc[c] \in LivePcs \cup {"dropped"}
      /\ c \in present => cpc[c] \notin {"new", "refused", "admitted"}
      /\ cpc[c] \in {"open", "ending", "closed"} => c \in opened
      /\ cpc[c] = "closed" => c \in reported
      /\ cpc[c] = "dropped" => dpc = "down"
      /\ grace[c] => latch[c] = "graceful"
      /\ latch[c] = "force" => verb = "close" /\ dpc \in {"force", "hard", "runtime", "down"}

\* A connection that was signalled, or is about to be, has been inserted, and
\* is gone only after its Closed event.
HeardFacts ==
    \A c \in Conns :
      latch[c] # "none" \/ c \in found
        => cpc[c] \in LivePcs \cup {"dropped"} \/ (cpc[c] = "gone" /\ c \in reported)

\* Between its scans the verb holds no list of handles.
RestFacts ==
    dpc \in {"idle", "runtime", "down"} => unscanned = {} /\ found = {}

\* While the graceful sweep is under way, an entry of its beginning is still
\* to be scanned or signalled, or needs no signal any more.
SweepCovers ==
    dpc = "sweep" => \A c \in present :
      c \in unscanned \cup found \/ latch[c] # "none" \/ cpc[c] \in EndedPcs

\* A scan of one of the waits has passed a signalled connection without
\* finding it only if its Closed event is out.
WaitCovers ==
    dpc \in {"wait", "hard"} => \A c \in Conns :
      latch[c] = "none" \/ c \in unscanned \cup found \/ c \in reported

\* A close with time for CLOSE_GRACE is past its first wait only when the
\* gracefully closed connections are reported.
GraceServed ==
    dpc \in {"force", "hard", "runtime", "down"} /\ verb = "close" /\ longTimeout
      => \A c \in Conns : latch[c] = "graceful" => c \in reported \/ peer[c] = "stalled"

\* Past the second wait, the force-closed ones are too.
ForceServed ==
    dpc \in {"runtime", "down"}
      => \A c \in Conns : latch[c] = "force" => c \in reported \/ peer[c] = "stalled"

\* shutdown has neither a force sweep nor a second wait.
ForceByClose == dpc \in {"force", "hard"} => verb = "close"

\* The inductive invariant.
DrainIInv ==
    /\ DrainTypeOK /\ TaskFacts /\ HeardFacts /\ RestFacts /\ ForceByClose
    /\ SweepCovers /\ SweepMissesNone
    /\ WaitCovers /\ GraceServed /\ ForceServed

-----------------------------------------------------------------------------
\* A step of a connection task moves its own program point, leaves the verb
\* and the latches alone, and takes back no event.
LEMMA TaskMoves ==
    ASSUME DrainTypeOK, NEW c \in Conns, Task(c)
    PROVE  /\ UNCHANGED <<verbVars, latch, peer>>
           /\ reported \subseteq reported'
           /\ \A d \in Conns \ {c} :
                /\ cpc'[d] = cpc[d] /\ grace'[d] = grace[d]
                /\ d \in registry' <=> d \in registry
                /\ d \in opened' <=> d \in opened
                /\ d \in reported' <=> d \in reported
<1>. USE DEF DrainTypeOK, Goto
<1>1. CASE Connect(c)
    BY <1>1 DEF Connect
<1>2. CASE Insert(c)
    BY <1>2 DEF Insert
<1>3. CASE Reject(c)
    BY <1>3 DEF Reject
<1>4. CASE Open(c)
    BY <1>4 DEF Open
<1>5. CASE SeeLatch(c)
    BY <1>5 DEF SeeLatch
<1>6. CASE PeerCloses(c)
    BY <1>6 DEF PeerCloses
<1>7. CASE CloseDeadline(c)
    BY <1>7 DEF CloseDeadline
<1>8. CASE EmitClosed(c)
    BY <1>8 DEF EmitClosed
<1>9. CASE Remove(c)
    BY <1>9, Zenon DEF Remove
<1>. QED
    BY <1>1, <1>2, <1>3, <1>4, <1>5, <1>6, <1>7, <1>8, <1>9, ZenonT(40) DEF Task, Ready

\* What the step does to its own connection: the entry goes in with the
\* program point and comes out after the Closed event, CLOSE_GRACE is armed by
\* a graceful signal only, and a task that is ending does not come back.
LEMMA TaskOwn ==
    ASSUME DrainTypeOK, TaskFacts, NEW c \in Conns, Task(c)
    PROVE  /\ DrainTypeOK'
           /\ cpc[c] \notin {"refused", "gone", "dropped"} /\ cpc'[c] # "dropped"
           /\ cpc'[c] \in LivePcs <=> c \in registry'
           /\ cpc[c] \in LivePcs => cpc'[c] \in LivePcs \/ (cpc'[c] = "gone" /\ c \in reported')
           /\ cpc[c] \in EndedPcs => cpc'[c] \in EndedPcs
           /\ cpc'[c] \in {"open", "ending", "closed"} => c \in opened'
           /\ cpc'[c] = "closed" => c \in reported'
           /\ grace'[c] => latch'[c] = "graceful"
<1>. USE DEF DrainTypeOK, Goto, LivePcs, EndedPcs, TaskFacts, verbVars, gateVars, callVars, histVars
<1>1. CASE Connect(c)
    BY <1>1, ZenonT(40) DEF Connect
<1>2. CASE Insert(c)
    BY <1>2, ZenonT(40) DEF Insert
<1>3. CASE Reject(c)
    BY <1>3, ZenonT(40) DEF Reject
<1>4. CASE Open(c)
    BY <1>4, ZenonT(40) DEF Open
<1>5. CASE SeeLatch(c)
    BY <1>5, ZenonT(40) DEF SeeLatch
<1>6. CASE PeerCloses(c)
    BY <1>6 DEF PeerCloses
<1>7. CASE CloseDeadline(c)
    BY <1>7 DEF CloseDeadline
<1>8. CASE EmitClosed(c)
    BY <1>8 DEF EmitClosed
<1>9. CASE Remove(c)
    BY <1>9, Zenon DEF Remove
<1>. QED
    BY <1>1, <1>2, <1>3, <1>4, <1>5, <1>6, <1>7, <1>8, <1>9, Zenon DEF Task, Ready

\* A step of a connection task keeps the invariant.
LEMMA TaskStep ==
    ASSUME DrainIInv, NEW c \in Conns, Task(c)
    PROVE  DrainIInv'
<1>1. DrainTypeOK /\ TaskFacts
    BY Zenon DEF DrainIInv
<1>2. /\ UNCHANGED <<verb, longTimeout, dpc, unscanned, found, present, latch, peer>>
      /\ reported \subseteq reported'
      /\ \A d \in Conns \ {c} :
           /\ cpc'[d] = cpc[d] /\ grace'[d] = grace[d]
           /\ d \in registry' <=> d \in registry
           /\ d \in opened' <=> d \in opened
           /\ d \in reported' <=> d \in reported
    BY <1>1, TaskMoves, Zenon DEF verbVars, callVars, histVars
<1>3. /\ DrainTypeOK'
      /\ cpc[c] \notin {"refused", "gone", "dropped"} /\ cpc'[c] # "dropped"
      /\ cpc'[c] \in LivePcs <=> c \in registry'
      /\ cpc[c] \in LivePcs => cpc'[c] \in LivePcs \/ (cpc'[c] = "gone" /\ c \in reported')
      /\ cpc[c] \in EndedPcs => cpc'[c] \in EndedPcs
      /\ cpc'[c] \in {"open", "ending", "closed"} => c \in opened'
      /\ cpc'[c] = "closed" => c \in reported'
      /\ grace'[c] => latch'[c] = "graceful"
    BY <1>1, TaskOwn, Zenon
<1>4. TaskFacts'
    BY <1>1, <1>2, <1>3, SMTT(30) DEF TaskFacts, LivePcs, DrainTypeOK
<1>5. HeardFacts'
    BY <1>2, <1>3, ZenonT(40) DEF DrainIInv, HeardFacts
<1>6. RestFacts' /\ ForceByClose'
    BY <1>2 DEF DrainIInv, RestFacts, ForceByClose
<1>7. SweepCovers' /\ SweepMissesNone'
    BY <1>1, <1>2, <1>3 DEF DrainIInv, SweepCovers, SweepMissesNone, EndedPcs, DrainTypeOK
<1>8. WaitCovers' /\ GraceServed' /\ ForceServed'
    BY <1>2, Zenon DEF DrainIInv, WaitCovers, GraceServed, ForceServed
<1>. QED
    BY <1>3, <1>4, <1>5, <1>6, <1>7, <1>8, Zenon DEF DrainIInv

-----------------------------------------------------------------------------
\* When nothing is ready to run, a signalled connection that is not reported
\* is in CLOSE_GRACE or waits for a peer that does not read.
LEMMA SettledTasks ==
    ASSUME DrainIInv, Settled, dpc # "down", NEW c \in Conns, latch[c] # "none"
    PROVE  \/ c \in reported
           \/ cpc[c] = "open" /\ grace[c] /\ latch[c] = "graceful"
           \/ peer[c] = "stalled"
BY DEF DrainIInv, Settled, DrainTypeOK, TaskFacts, HeardFacts, LivePcs

\* A scan passes over a signalled connection only if it is reported, and over
\* one with an entry when the verb began only if it has ended.
LEMMA ScanOneStep ==
    ASSUME DrainIInv, NEW c \in Conns, ScanOne(c)
    PROVE  DrainIInv'
<1>1. /\ UNCHANGED <<callVars, dpc, histVars, gateVars, connVars>>
      /\ c \in unscanned /\ unscanned' = unscanned \ {c}
      /\ found' = IF c \in registry THEN found \cup {c} ELSE found
    BY Zenon DEF ScanOne
<1>2. DrainTypeOK'
    BY <1>1, Zenon DEF DrainIInv, DrainTypeOK, callVars, histVars, gateVars, connVars
<1>3. TaskFacts' /\ SweepMissesNone' /\ GraceServed' /\ ForceServed'
    BY <1>1, Zenon DEF DrainIInv, TaskFacts, SweepMissesNone, GraceServed, ForceServed,
                callVars, histVars, connVars
<1>4. HeardFacts'
    BY <1>1, Zenon DEF DrainIInv, HeardFacts, TaskFacts, connVars
<1>5. RestFacts' /\ ForceByClose'
    BY <1>1, Zenon DEF DrainIInv, RestFacts, ForceByClose, callVars
<1>6. dpc # "down" /\ cpc[c] # "dropped"
    BY <1>1, Zenon DEF DrainIInv, RestFacts, ForceByClose, TaskFacts
<1>7. SweepCovers'
    BY <1>1, <1>6, ZenonT(40) DEF DrainIInv, SweepCovers, TaskFacts, DrainTypeOK, LivePcs, EndedPcs, histVars, connVars
<1>8. WaitCovers'
    BY <1>1, <1>6, Zenon DEF DrainIInv, WaitCovers, HeardFacts, TaskFacts, connVars
<1>. QED
    BY <1>2, <1>3, <1>4, <1>5, <1>7, <1>8 DEF DrainIInv

\* The graceful sweep signals the handles it holds one by one; with none left,
\* it has covered every entry of its beginning.
LEMMA SweepStep ==
    ASSUME DrainIInv, Sweep
    PROVE  DrainIInv'
<1>. USE DEF callVars, histVars, gateVars, connVars
<1>1. CASE \E c \in found :
             /\ found' = found \ {c}
             /\ InitiateClose(c, "graceful")
             /\ UNCHANGED <<dpc, unscanned>>
  <2>1. PICK c \in found :
             /\ found' = found \ {c}
             /\ InitiateClose(c, "graceful")
             /\ UNCHANGED <<dpc, unscanned>>
    BY <1>1, Zenon
  <2>2. c \in Conns /\ dpc = "sweep" /\ UNCHANGED <<callVars, histVars, gateVars>>
    BY DEF Sweep, DrainIInv, DrainTypeOK
  <2>3. /\ UNCHANGED <<registry, cpc, grace, peer, opened, reported>>
        /\ latch' = [latch EXCEPT ![c] = IF @ = "none" THEN "graceful" ELSE @]
    BY <2>1, Zenon DEF InitiateClose
  <2>4. /\ latch'[c] # "none"
        /\ latch'[c] = IF latch[c] = "none" THEN "graceful" ELSE latch[c]
        /\ \A d \in Conns \ {c} : latch'[d] = latch[d]
    BY <2>2, <2>3, Zenon DEF DrainIInv, DrainTypeOK
  <2>5. DrainTypeOK'
    BY <2>1, <2>2, <2>3, Zenon DEF DrainIInv, DrainTypeOK
  <2>6. TaskFacts'
    BY <2>1, <2>2, <2>3, <2>4 DEF DrainIInv, TaskFacts
  <2>7. HeardFacts'
    BY <2>1, <2>2, <2>3, <2>4, Zenon DEF DrainIInv, HeardFacts
  <2>8. SweepCovers'
    BY <2>1, <2>2, <2>3, <2>4, Zenon DEF DrainIInv, SweepCovers, DrainTypeOK
  <2>9. /\ RestFacts' /\ ForceByClose' /\ SweepMissesNone'
        /\ WaitCovers' /\ GraceServed' /\ ForceServed'
    BY <2>1, <2>2 DEF DrainIInv, RestFacts, ForceByClose, SweepMissesNone, WaitCovers, GraceServed,
                      ForceServed
  <2>. QED
    BY <2>5, <2>6, <2>7, <2>8, <2>9 DEF DrainIInv
<1>2. CASE found = {} /\ Scan("wait") /\ UNCHANGED connVars
  <2>1. /\ dpc = "sweep" /\ unscanned = {} /\ found = {}
        /\ dpc' = "wait" /\ unscanned' = Conns /\ found' = {}
        /\ UNCHANGED <<callVars, histVars, gateVars, connVars>>
    BY <1>2, Zenon DEF Sweep, Scan
  <2>2. DrainTypeOK' /\ TaskFacts' /\ HeardFacts'
    BY <2>1, Zenon DEF DrainIInv, DrainTypeOK, TaskFacts, HeardFacts
  <2>3. SweepMissesNone'
    BY <2>1, Zenon DEF DrainIInv, SweepCovers, SweepMissesNone, EndedPcs
  <2>4. /\ RestFacts' /\ ForceByClose' /\ SweepCovers'
        /\ WaitCovers' /\ GraceServed' /\ ForceServed'
    BY <2>1, Zenon DEF DrainIInv, RestFacts, ForceByClose, SweepCovers, WaitCovers, GraceServed, ForceServed
  <2>. QED
    BY <2>2, <2>3, <2>4, Zenon DEF DrainIInv
<1>. QED
    BY <1>1, <1>2 DEF Sweep

\* The verb begins: the entries of this moment are all still to be scanned.
LEMMA StartStep ==
    ASSUME DrainIInv, Start
    PROVE  DrainIInv'
<1>1. /\ dpc = "idle" /\ dpc' = "sweep" /\ unscanned' = Conns /\ found' = {}
      /\ present' = registry
      /\ UNCHANGED <<verb, longTimeout, stragglers, registry, cpc, latch, grace, peer,
                     opened, reported>>
    BY Zenon DEF Start, Scan, callVars, connVars
<1>2. DrainTypeOK'
    BY <1>1, Zenon DEF Start, DrainIInv, DrainTypeOK
<1>3. TaskFacts'
    BY <1>1 DEF DrainIInv, TaskFacts, LivePcs
<1>4. HeardFacts'
    BY <1>1 DEF DrainIInv, HeardFacts
<1>5. RestFacts' /\ ForceByClose' /\ SweepCovers' /\ SweepMissesNone'
    BY <1>1, <1>2 DEF DrainIInv, RestFacts, ForceByClose, SweepCovers, SweepMissesNone, DrainTypeOK
<1>6. WaitCovers' /\ GraceServed' /\ ForceServed'
    BY <1>1 DEF WaitCovers, GraceServed, ForceServed
<1>. QED
    BY <1>2, <1>3, <1>4, <1>5, <1>6, Zenon DEF DrainIInv

\* The first wait may end once the graceful closes it had time for are
\* reported.
LEMMA LeaveWait ==
    ASSUME DrainIInv, dpc = "wait", AfterWait,
           UNCHANGED <<callVars, histVars, gateVars, connVars>>,
           verb = "close" /\ longTimeout
             => \A c \in Conns : latch[c] = "graceful" => c \in reported \/ peer[c] = "stalled"
    PROVE  DrainIInv'
<1>. USE DEF callVars, histVars, gateVars, connVars
<1>1. /\ dpc' \in {"force", "runtime"} /\ found' = {} /\ unscanned' \subseteq Conns
      /\ dpc' = "runtime" => unscanned' = {} /\ verb # "close"
      /\ dpc' = "force" => verb = "close"
    BY DEF AfterWait, Scan, Rest
<1>2. DrainTypeOK' /\ TaskFacts' /\ HeardFacts'
    BY <1>1 DEF DrainIInv, DrainTypeOK, TaskFacts, HeardFacts
<1>3. RestFacts' /\ ForceByClose' /\ SweepCovers' /\ SweepMissesNone' /\ WaitCovers'
    BY <1>1, Zenon DEF DrainIInv, RestFacts, ForceByClose, SweepCovers, SweepMissesNone, WaitCovers
<1>4. GraceServed'
    BY Zenon DEF GraceServed
<1>5. ForceServed'
    BY <1>1, Zenon DEF DrainIInv, TaskFacts, ForceServed
<1>. QED
    BY <1>2, <1>3, <1>4, <1>5 DEF DrainIInv

\* The second one, once the force-closed connections are.
LEMMA LeaveHard ==
    ASSUME DrainIInv, dpc = "hard", Rest("runtime"),
           UNCHANGED <<callVars, histVars, gateVars, connVars>>,
           \A c \in Conns : latch[c] = "force" => c \in reported \/ peer[c] = "stalled"
    PROVE  DrainIInv'
<1>. USE DEF callVars, histVars, gateVars, connVars
<1>1. dpc' = "runtime" /\ found' = {} /\ unscanned' = {}
    BY Zenon DEF Rest
<1>2. DrainTypeOK' /\ TaskFacts' /\ HeardFacts'
    BY <1>1, Zenon DEF DrainIInv, DrainTypeOK, TaskFacts, HeardFacts
<1>3. RestFacts' /\ ForceByClose' /\ SweepCovers' /\ SweepMissesNone' /\ WaitCovers'
    BY <1>1, Zenon DEF DrainIInv, RestFacts, ForceByClose, SweepCovers, SweepMissesNone, WaitCovers
<1>4. GraceServed' /\ ForceServed'
    BY <1>1, Zenon DEF DrainIInv, GraceServed, ForceServed
<1>. QED
    BY <1>2, <1>3, <1>4, Zenon DEF DrainIInv

\* A poll that found an entry starts the scan over.
LEMMA RescanStep ==
    ASSUME DrainIInv, Scan(dpc), dpc \in {"wait", "hard"},
           UNCHANGED <<callVars, histVars, gateVars, connVars>>
    PROVE  DrainIInv'
<1>. USE DEF callVars, histVars, gateVars, connVars
<1>1. dpc' = dpc /\ found' = {} /\ unscanned' = Conns
    BY Zenon DEF Scan
<1>2. DrainTypeOK' /\ TaskFacts' /\ HeardFacts'
    BY <1>1, Zenon DEF DrainIInv, DrainTypeOK, TaskFacts, HeardFacts
<1>3. RestFacts' /\ ForceByClose' /\ SweepCovers' /\ SweepMissesNone' /\ WaitCovers'
    BY <1>1, Zenon DEF DrainIInv, RestFacts, ForceByClose, SweepCovers, SweepMissesNone, WaitCovers
<1>4. GraceServed' /\ ForceServed'
    BY <1>1, Zenon DEF DrainIInv, GraceServed, ForceServed
<1>. QED
    BY <1>2, <1>3, <1>4, Zenon DEF DrainIInv

\* Both waits end with an empty registry or at their deadline, and then only
\* what is settled is left.
LEMMA WaitStep ==
    ASSUME DrainIInv, Poll \/ Deadline \/ HardPoll \/ HardDeadline
    PROVE  DrainIInv'
<1>1. CASE Poll /\ found = {}
  <2>1. \A c \in Conns : latch[c] = "graceful" => c \in reported
    BY <1>1, Zenon DEF Poll, DrainIInv, WaitCovers
  <2>. QED
    BY <1>1, <2>1, LeaveWait, Zenon DEF Poll
<1>2. CASE Deadline
  <2>1. ASSUME verb = "close", longTimeout, NEW c \in Conns, latch[c] = "graceful"
        PROVE  c \in reported \/ peer[c] = "stalled"
    BY <1>2, <2>1, SettledTasks, Zenon DEF Deadline
  <2>. QED
    BY <1>2, <2>1, LeaveWait, Zenon DEF Deadline
<1>3. CASE HardPoll /\ found = {}
  <2>1. \A c \in Conns : latch[c] = "force" => c \in reported
    BY <1>3, Zenon DEF HardPoll, DrainIInv, WaitCovers
  <2>. QED
    BY <1>3, <2>1, LeaveHard, Zenon DEF HardPoll
<1>4. CASE HardDeadline
  <2>1. ASSUME NEW c \in Conns, latch[c] = "force"
        PROVE  c \in reported \/ peer[c] = "stalled"
    BY <1>4, <2>1, SettledTasks, Zenon DEF HardDeadline
  <2>. QED
    BY <1>4, <2>1, LeaveHard, Zenon DEF HardDeadline
<1>5. CASE (Poll \/ HardPoll) /\ found # {}
    BY <1>5, RescanStep, Zenon DEF Poll, HardPoll
<1>. QED
    BY <1>1, <1>2, <1>3, <1>4, <1>5, Zenon

\* The force sweep signals only those that have no signal yet.
LEMMA ForceStep ==
    ASSUME DrainIInv, ForceSweep
    PROVE  DrainIInv'
<1>. USE DEF callVars, histVars, gateVars, connVars
<1>0. dpc = "force" /\ unscanned = {} /\ UNCHANGED <<callVars, present, draining>>
    BY DEF ForceSweep
<1>1. CASE \E c \in found :
             /\ found' = found \ {c}
             /\ stragglers' = stragglers \cup {c}
             /\ InitiateClose(c, "force")
             /\ UNCHANGED <<dpc, unscanned, accepting>>
  <2>1. PICK c \in found :
             /\ found' = found \ {c}
             /\ stragglers' = stragglers \cup {c}
             /\ InitiateClose(c, "force")
             /\ UNCHANGED <<dpc, unscanned, accepting>>
    BY <1>1
  <2>2. c \in Conns /\ verb = "close"
    BY <1>0 DEF DrainIInv, DrainTypeOK, ForceByClose
  <2>3. /\ UNCHANGED <<registry, cpc, grace, peer, opened, reported>>
        /\ latch' = [latch EXCEPT ![c] = IF @ = "none" THEN "force" ELSE @]
    BY <2>1 DEF InitiateClose
  <2>4. /\ latch'[c] # "none"
        /\ latch'[c] = IF latch[c] = "none" THEN "force" ELSE latch[c]
        /\ \A d \in Conns \ {c} : latch'[d] = latch[d]
    BY <2>2, <2>3 DEF DrainIInv, DrainTypeOK
  <2>5. DrainTypeOK'
    BY <1>0, <2>1, <2>2, <2>3, ZenonT(40) DEF DrainIInv, DrainTypeOK
  <2>6. TaskFacts'
    BY <1>0, <2>1, <2>2, <2>3, <2>4 DEF DrainIInv, TaskFacts
  <2>7. HeardFacts'
    BY <2>1, <2>2, <2>3, <2>4, Zenon DEF DrainIInv, HeardFacts
  <2>8. SweepMissesNone' /\ GraceServed'
    BY <1>0, <2>1, <2>2, <2>3, <2>4, ZenonT(40) DEF DrainIInv, SweepMissesNone, GraceServed, DrainTypeOK
  <2>9. RestFacts' /\ SweepCovers' /\ WaitCovers' /\ ForceServed' /\ ForceByClose'
    BY <1>0, <2>1, <2>2, Zenon DEF RestFacts, SweepCovers, WaitCovers, ForceServed, ForceByClose
  <2>. QED
    BY <2>5, <2>6, <2>7, <2>8, <2>9 DEF DrainIInv
<1>2. CASE found = {} /\ accepting' = FALSE /\ Scan("hard") /\ UNCHANGED <<stragglers, connVars>>
  <2>1. dpc' = "hard" /\ unscanned' = Conns /\ found' = {}
    BY <1>2, Zenon DEF Scan
  <2>2. DrainTypeOK' /\ TaskFacts' /\ HeardFacts'
    BY <1>0, <1>2, <2>1, Zenon DEF DrainIInv, DrainTypeOK, TaskFacts, HeardFacts
  <2>3. SweepMissesNone' /\ GraceServed'
    BY <1>0, <1>2, <2>1 DEF DrainIInv, SweepMissesNone, GraceServed
  <2>4. RestFacts' /\ SweepCovers' /\ WaitCovers' /\ ForceServed' /\ ForceByClose'
    BY <1>0, <2>1 DEF DrainIInv, RestFacts, SweepCovers, WaitCovers, ForceServed, ForceByClose
  <2>. QED
    BY <2>2, <2>3, <2>4, Zenon DEF DrainIInv
<1>. QED
    BY <1>1, <1>2, Zenon DEF ForceSweep

\* The runtime drops what is left.
LEMMA TeardownStep ==
    ASSUME DrainIInv, Teardown
    PROVE  DrainIInv'
<1>1. /\ dpc = "runtime" /\ dpc' = "down" /\ unscanned' = {} /\ found' = {}
      /\ cpc' = [c \in Conns |->
                   IF cpc[c] \in {"new", "refused", "gone"} THEN cpc[c] ELSE "dropped"]
      /\ UNCHANGED <<verb, longTimeout, present, registry, latch, grace, peer, opened, reported>>
    BY DEF Teardown, Rest, callVars, histVars
<1>2. DrainTypeOK'
    BY <1>1, ZenonT(40) DEF Teardown, DrainIInv, DrainTypeOK, histVars
<1>3. TaskFacts'
    BY <1>1 DEF DrainIInv, TaskFacts, LivePcs
<1>4. HeardFacts'
    BY <1>1 DEF DrainIInv, HeardFacts, LivePcs
<1>5. RestFacts' /\ SweepCovers' /\ WaitCovers' /\ ForceByClose'
    BY <1>1 DEF DrainIInv, RestFacts, SweepCovers, WaitCovers, ForceByClose
<1>6. SweepMissesNone'
    BY <1>1, Zenon DEF DrainIInv, SweepMissesNone, TaskFacts, DrainTypeOK
<1>7. GraceServed' /\ ForceServed'
    BY <1>1, Zenon DEF DrainIInv, GraceServed, ForceServed
<1>. QED
    BY <1>2, <1>3, <1>4, <1>5, <1>6, <1>7 DEF DrainIInv

\* A step that changes nothing.
LEMMA DrainStutter ==
    ASSUME DrainIInv, UNCHANGED drainVars
    PROVE  DrainIInv'
<1>. USE DEF drainVars, verbVars, callVars, histVars, gateVars, connVars
<1>1. DrainTypeOK' /\ TaskFacts' /\ HeardFacts' /\ RestFacts' /\ ForceByClose'
    BY ZenonT(40) DEF DrainIInv, DrainTypeOK, TaskFacts, HeardFacts, RestFacts, ForceByClose
<1>2. SweepCovers' /\ SweepMissesNone' /\ WaitCovers' /\ GraceServed' /\ ForceServed'
    BY DEF DrainIInv, SweepCovers, SweepMissesNone, WaitCovers, GraceServed, ForceServed
<1>. QED
    BY <1>1, <1>2, Zenon DEF DrainIInv

-----------------------------------------------------------------------------
\* The invariant holds whatever the verb, its timeout, the peers and the
\* connection tasks do.
THEOREM DrainInvariance == DrainSpec => []DrainIInv
<1>1. DrainInit => DrainIInv
  <2>1. ASSUME DrainInit PROVE DrainTypeOK
    BY <2>1, Zenon DEF DrainInit, DrainTypeOK
  <2>2. ASSUME DrainInit PROVE TaskFacts /\ HeardFacts
    BY <2>2 DEF DrainInit, TaskFacts, HeardFacts, LivePcs
  <2>3. ASSUME DrainInit PROVE /\ RestFacts /\ ForceByClose /\ SweepCovers /\ SweepMissesNone
                          /\ WaitCovers /\ GraceServed /\ ForceServed
    BY <2>3 DEF DrainInit, RestFacts, ForceByClose, SweepCovers, SweepMissesNone, WaitCovers,
                GraceServed, ForceServed
  <2>. QED
    BY <2>1, <2>2, <2>3, Zenon DEF DrainIInv
<1>2. DrainIInv /\ [DrainNext]_drainVars => DrainIInv'
    BY TaskStep, ScanOneStep, SweepStep, StartStep, WaitStep, ForceStep, TeardownStep,
       DrainStutter, ZenonT(40) DEF DrainNext, Verb, Finished
<1>. QED
    BY <1>1, <1>2, PTL DEF DrainSpec

\* The sweep of Engine::close and Engine::shutdown, which locks one shard of the
\* registry at a time while connections come and go, misses no connection
\* that had an entry when it began.
THEOREM SweepTheorem == DrainSpec => []SweepMissesNone
    BY DrainInvariance, PTL DEF DrainIInv

\* A connection that was told of the drain has its Closed event out when the
\* runtime goes, unless its peer does not read or a graceful close had no time
\* for CLOSE_GRACE.
THEOREM DrainTheorem == DrainSpec => []DrainReports
<1>1. DrainIInv => DrainReports
    BY DEF DrainIInv, DrainReports, GraceServed, ForceServed, DrainTypeOK
<1>. QED
    BY <1>1, DrainInvariance, PTL
=============================================================================
