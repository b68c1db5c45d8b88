---------------------------- MODULE BridgeProofs ----------------------------
(***************************************************************************)
(* Proofs about Bridge for any number of upgrades and messages, queues and *)
(* batches of any size: what a Socket emits is in order, and the SDK is in *)
(* step with the engine.                                                   *)
(***************************************************************************)
EXTENDS Bridge, TLAPS

\* What a sequence holds, and what a queue of events holds in its wire form.
Of(q) == {q[i] : i \in DOMAIN q}
Coded(q) == {Encode(q[i]) : i \in DOMAIN q}

\* Every record on its way into the application, wherever it is.
Buffered == UNION {Of(tsfn[b]) : b \in DOMAIN tsfn}
Pending == Of(turn) \cup Buffered \cup Coded(batch) \cup Coded(queue)

\* If x and y are of one connection, y may come after x: nothing comes after a
\* close, nothing before an open, and messages come in the order of reading.
Follows(x, y) ==
    (x.kind # KIND_AUTHORIZE /\ y.kind # KIND_AUTHORIZE /\ x.slot = y.slot) =>
        /\ x.kind # KIND_CLOSE /\ y.kind # KIND_OPEN
        /\ x.kind = KIND_TEXT /\ y.kind = KIND_TEXT => x.payload[1] < y.payload[1]

\* In one place, and from one place to a later one.
Asc(q) == \A i, j \in DOMAIN q : i < j => Follows(q[i], q[j])
AscCoded(q) == \A i, j \in DOMAIN q : i < j => Follows(Encode(q[i]), Encode(q[j]))
Before(X, Y) == \A x \in X : \A y \in Y : Follows(x, y)

Stream ==
    /\ Asc(turn) /\ AscCoded(batch) /\ AscCoded(queue)
    /\ \A b \in DOMAIN tsfn : Asc(tsfn[b]) /\ Before(Of(turn), Of(tsfn[b]))
                              /\ Before(Of(tsfn[b]), Coded(batch))
                              /\ Before(Of(tsfn[b]), Coded(queue))
    /\ \A a, b \in DOMAIN tsfn : a < b => Before(Of(tsfn[a]), Of(tsfn[b]))
    /\ Before(Of(turn), Coded(batch)) /\ Before(Of(turn), Coded(queue))
    /\ Before(Coded(batch), Coded(queue))

\* Numbers from a counter of their own.
Given(f) == {u \in Upgrades : f[u] # None}
Numbered(f) ==
    /\ \A u \in Upgrades : f[u] <= Cardinality(Given(f))
    /\ \A u, v \in Upgrades : f[u] # None /\ f[u] = f[v] => u = v

\* An upgrade has its numbers from the step on that gives them.
TaskOf(u) ==
    /\ task[u] = "upgrade" => req[u] = None /\ reply[u] = "none"
    /\ task[u] \in {"upgrade", "await", "rejected"} => id[u] = None
    /\ task[u] = "await" => req[u] # None
    /\ task[u] \in {"open", "live", "closed"} => id[u] # None /\ reply[u] = "accept"
    /\ id[u] # None => req[u] # None

TaskFacts == \A u \in Upgrades : TaskOf(u)

\* No close among what was emitted.
NoClose(s) == \A i \in DOMAIN s : s[i][1] # "close"

\* The record w is of the connection of u, and still to come for its Socket.
ToCome(w, u) ==
    /\ id[u] # None /\ task[u] \in {"live", "closed", "dropped"} /\ NoClose(seen[u])
    /\ \/ w = Encode(Opened(id[u], req[u])) /\ seen[u] = <<>>
       \/ \E n \in 1..reads[u] : /\ w = Encode(Message(id[u], n))
                                 /\ \A i \in DOMAIN seen[u] : seen[u][i][2] < n
       \/ w = Encode(Closed(id[u])) /\ task[u] # "live"

\* The record w asks for the upgrade u.
AsksFor(w, u) == req[u] # None /\ w = Encode(Authorize(req[u]))

PendingFacts == \A w \in Pending : \E u \in Upgrades : AsksFor(w, u) \/ ToCome(w, u)

\* What a Socket has emitted.
SeenOf(u) ==
    /\ seen[u] # <<>> => /\ seen[u][1][1] = "connection"
                         /\ id[u] # None /\ task[u] \in {"live", "closed", "dropped"}
    /\ \A i \in DOMAIN seen[u] : seen[u][i][2] <= reads[u]
    /\ task[u] = "live" => NoClose(seen[u])

SeenFacts == \A u \in Upgrades : SeenOf(u)

SocketFacts ==
    \A c \in DOMAIN sockets : \E u \in Upgrades : id[u] = c /\ seen[u] # <<>> /\ NoClose(seen[u])

HookFacts == \A r \in hooks : \E u \in Upgrades : req[u] = r

Opens(u) == Encode(Opened(id[u], req[u])) \in Pending
Closes(u) == Encode(Closed(id[u])) \in Pending

\* Until close() the metadata of an accepted upgrade waits for its Opened.
StashOf(u) ==
    /\ task[u] # "dropped"
    /\ (reply[u] = "accept" /\ (task[u] \in {"await", "open"} \/ Opens(u)))
         => req[u] \in DOMAIN stash /\ stash[req[u]] = u

StashFacts == engine => \A u \in Upgrades : StashOf(u)

\* The SDK in step, in terms of what is pending.
StepOf(u) ==
    task[u] \in {"live", "closed"} =>
        /\ (id[u] \in DOMAIN sockets) <=> (~Opens(u) /\ ~(task[u] = "closed" /\ ~Closes(u)))
        /\ id[u] \in DOMAIN sockets => sockets[id[u]] = u
        /\ Opens(u) /\ task[u] = "closed" => Closes(u)

StepFacts == (engine /\ throws = 0) => \A u \in Upgrades : StepOf(u)

\* A batch starts empty.
BatchFacts == drain = "recv" => batch = <<>>

\* The inductive invariant.
IInv ==
    /\ TypeOK /\ Stream /\ Numbered(req) /\ Numbered(id) /\ TaskFacts /\ PendingFacts
    /\ SeenFacts /\ InOrder /\ SocketFacts /\ HookFacts /\ StashFacts /\ StepFacts
    /\ BatchFacts

-----------------------------------------------------------------------------
(* Sequences and what they hold.                                           *)

\* What Append does.
LEMMA AppendFacts ==
    ASSUME NEW S, NEW q \in Seq(S), NEW e \in S
    PROVE  /\ Append(q, e) \in Seq(S) /\ Len(q) \in Nat /\ Len(Append(q, e)) = Len(q) + 1
           /\ DOMAIN q = 1..Len(q) /\ DOMAIN Append(q, e) = 1..(Len(q) + 1)
           /\ \A i \in 1..Len(q) : Append(q, e)[i] = q[i]
           /\ Append(q, e)[Len(q) + 1] = e
    OBVIOUS

\* What Head and Tail do.
LEMMA TailFacts ==
    ASSUME NEW S, NEW q \in Seq(S), q # <<>>
    PROVE  /\ Tail(q) \in Seq(S) /\ Head(q) \in S /\ Head(q) = q[1]
           /\ Len(q) \in Nat \ {0} /\ DOMAIN q = 1..Len(q) /\ DOMAIN Tail(q) = 1..(Len(q) - 1)
           /\ Len(Tail(q)) = Len(q) - 1
           /\ \A i \in 1..(Len(q) - 1) : Tail(q)[i] = q[i + 1]
    OBVIOUS

\* What a longer sequence holds, and that it is in order.
LEMMA HoldsAppend ==
    ASSUME NEW q \in Seq(Events), NEW e \in Events
    PROVE  /\ Coded(Append(q, e)) = Coded(q) \cup {Encode(e)}
           /\ AscCoded(q) /\ Before(Coded(q), {Encode(e)}) => AscCoded(Append(q, e))
<1>. DEFINE p == Append(q, e)
            n == Len(q) + 1
<1>1. /\ Len(q) \in Nat /\ DOMAIN q = 1..Len(q) /\ DOMAIN p = 1..n
      /\ \A i \in 1..Len(q) : p[i] = q[i]
      /\ p[n] = e
    BY AppendFacts
<1>. HIDE DEF p
<1>2. /\ n \in DOMAIN p /\ \A i \in DOMAIN q : i \in DOMAIN p /\ p[i] = q[i] /\ i < n /\ ~(n < i)
      /\ \A i \in DOMAIN p : i \in DOMAIN q \/ i = n
      /\ ~(n < n)
    BY <1>1
<1>. HIDE DEF n
<1>3. Coded(p) = Coded(q) \cup {Encode(e)}
    BY <1>1, <1>2, Zenon DEF Coded
<1>4. ASSUME AscCoded(q), Before(Coded(q), {Encode(e)}) PROVE AscCoded(p)
  <2>. SUFFICES ASSUME NEW i \in DOMAIN p, NEW j \in DOMAIN p, i < j
                PROVE  Follows(Encode(p[i]), Encode(p[j]))
    BY DEF AscCoded
  <2>1. i \in DOMAIN q
    BY <1>2
  <2>2. CASE j \in DOMAIN q
    BY <1>2, <1>4, <2>1, <2>2, Zenon DEF AscCoded
  <2>3. CASE j = n
    <3>1. Encode(q[i]) \in Coded(q) /\ p[i] = q[i] /\ p[j] = e
      BY <1>1, <1>2, <2>1, <2>3, Zenon DEF Coded
    <3>. QED
      BY <1>4, <3>1 DEF Before
  <2>. QED
    BY <1>2, <2>2, <2>3, Zenon
<1>. QED
    BY <1>3, <1>4, Zenon DEF p

\* What is left of a sequence, and that all of it comes after its head.
LEMMA HoldsTail ==
    ASSUME NEW S, NEW q \in Seq(S), q # <<>>
    PROVE  /\ Of(q) = {Head(q)} \cup Of(Tail(q)) /\ Coded(q) = {Encode(Head(q))} \cup Coded(Tail(q))
           /\ Asc(q) => Asc(Tail(q)) /\ Before({Head(q)}, Of(Tail(q)))
           /\ AscCoded(q) => AscCoded(Tail(q)) /\ Before({Encode(Head(q))}, Coded(Tail(q)))
<1>. DEFINE p == Tail(q)
            h == Head(q)
<1>1. /\ h = q[1] /\ Len(q) \in Nat \ {0} /\ DOMAIN q = 1..Len(q) /\ DOMAIN p = 1..(Len(q) - 1)
      /\ \A i \in 1..(Len(q) - 1) : p[i] = q[i + 1]
    BY TailFacts
<1>. HIDE DEF p, h
<1>2. /\ 1 \in DOMAIN q
      /\ \A i \in DOMAIN p : i + 1 \in DOMAIN q /\ 1 < i + 1 /\ p[i] = q[i + 1]
      /\ \A i, j \in DOMAIN p : i < j => i + 1 < j + 1
    BY <1>1
<1>3. \A i \in DOMAIN q : i = 1 \/ \E j \in DOMAIN p : p[j] = q[i]
  <2>. SUFFICES ASSUME NEW i \in DOMAIN q, i # 1 PROVE i - 1 \in DOMAIN p /\ p[i - 1] = q[i]
    OBVIOUS
  <2>1. i - 1 \in 1..(Len(q) - 1) /\ (i - 1) + 1 = i
    BY <1>1
  <2>. QED
    BY <1>1, <2>1
<1>4. Of(q) = {h} \cup Of(p)
  <2>1. ASSUME NEW x \in Of(q) PROVE x \in {h} \cup Of(p)
    <3>1. PICK i \in DOMAIN q : x = q[i]
      BY DEF Of
    <3>2. CASE i = 1
      BY <1>1, <3>1, <3>2
    <3>3. CASE \E j \in DOMAIN p : p[j] = q[i]
      BY <3>1, <3>3, Zenon DEF Of
    <3>. QED
      BY <1>3, <3>2, <3>3, Zenon
  <2>2. h \in Of(q) /\ Of(p) \subseteq Of(q)
    BY <1>1, <1>2, Zenon DEF Of
  <2>. QED
    BY <2>1, <2>2, Zenon
<1>5. Coded(q) = {Encode(h)} \cup Coded(p)
  <2>1. ASSUME NEW x \in Coded(q) PROVE x \in {Encode(h)} \cup Coded(p)
    <3>1. PICK i \in DOMAIN q : x = Encode(q[i])
      BY DEF Coded
    <3>2. CASE i = 1
      BY <1>1, <3>1, <3>2
    <3>3. CASE \E j \in DOMAIN p : p[j] = q[i]
      <4>1. PICK j \in DOMAIN p : p[j] = q[i]
        BY <3>3
      <4>2. x = Encode(p[j])
        BY <3>1, <4>1
      <4>. QED
        BY <4>2 DEF Coded
    <3>. QED
      BY <1>3, <3>2, <3>3, Zenon
  <2>2. Encode(h) \in Coded(q) /\ Coded(p) \subseteq Coded(q)
    BY <1>1, <1>2, Zenon DEF Coded
  <2>. QED
    BY <2>1, <2>2, Zenon
<1>6. ASSUME Asc(q) PROVE Asc(p) /\ Before({h}, Of(p))
  <2>1. Asc(p)
    BY <1>2, <1>6, Zenon DEF Asc
  <2>2. \A i \in DOMAIN p : Follows(h, p[i])
    BY <1>1, <1>2, <1>6, Zenon DEF Asc
  <2>. QED
    BY <2>1, <2>2, Zenon DEF Before, Of
<1>7. ASSUME AscCoded(q) PROVE AscCoded(p) /\ Before({Encode(h)}, Coded(p))
  <2>1. AscCoded(p)
    BY <1>2, <1>7, Zenon DEF AscCoded
  <2>2. \A i \in DOMAIN p : Follows(Encode(h), Encode(p[i]))
    BY <1>1, <1>2, <1>7, Zenon DEF AscCoded
  <2>. QED
    BY <2>1, <2>2, Zenon DEF Before, Coded
<1>. QED
    BY <1>4, <1>5, <1>6, <1>7, Zenon DEF p, h

\* An empty place.
LEMMA HoldsNothing == /\ Of(<<>>) = {} /\ Coded(<<>>) = {} /\ Asc(<<>>) /\ AscCoded(<<>>)
                      /\ \A X : Before(X, {}) /\ Before({}, X)
    BY DEF Of, Coded, Asc, AscCoded, Before

-----------------------------------------------------------------------------
(* The wire form.                                                          *)

\* Each event, encoded.
LEMMA EncodeFacts ==
    /\ \A r : Encode(Authorize(r)) = [slot |-> r, kind |-> KIND_AUTHORIZE, payload |-> <<>>]
    /\ \A c, r : r # None =>
          Encode(Opened(c, r)) = [slot |-> c, kind |-> KIND_OPEN, payload |-> <<r>>]
    /\ \A c, n : Encode(Message(c, n)) = [slot |-> c, kind |-> KIND_TEXT, payload |-> <<n>>]
    /\ \A c : Encode(Closed(c)) = [slot |-> c, kind |-> KIND_CLOSE, payload |-> <<>>]
    BY DEF Encode, Authorize, Opened, Message, Closed

\* The request id that an Opened record carries in its payload.
LEMMA AuthReqOf == \A w, r : w.payload = <<r>> => AuthReq(w) = r
    BY DEF AuthReq

\* Numbers start at one.
LEMMA NumberFacts == None \notin Numbers /\ Numbers \subseteq Nat
    BY DEF Numbers, None

\* The events there are.
LEMMA EventFacts ==
    ASSUME NEW e \in Events
    PROVE  \/ \E r \in Numbers : e = Authorize(r)
           \/ \E c, r \in Numbers : e = Opened(c, r)
           \/ \E c \in Numbers : \E n \in Nat : e = Message(c, n)
           \/ \E c \in Numbers : e = Closed(c)
    BY DEF Events, Authorize, Opened, Message, Closed

\* What is encoded is a record, and tells which event it was.
LEMMA EncodeType == \A e \in Events : Encode(e) \in Records
<1>. SUFFICES ASSUME NEW e \in Events PROVE Encode(e) \in Records
    OBVIOUS
<1>1. ASSUME NEW r \in Numbers, e = Authorize(r) PROVE Encode(e) \in Records
  <2>1. Encode(e) = [slot |-> r, kind |-> KIND_AUTHORIZE, payload |-> <<>>]
    BY <1>1, EncodeFacts, Zenon
  <2>2. <<>> \in Seq(Nat)
    BY NumberFacts
  <2>. QED
    BY <2>1, <2>2 DEF Records
<1>2. ASSUME NEW c \in Numbers, NEW r \in Numbers, e = Opened(c, r) PROVE Encode(e) \in Records
  <2>1. Encode(e) = [slot |-> c, kind |-> KIND_OPEN, payload |-> <<r>>]
    BY <1>2, EncodeFacts, NumberFacts, Zenon
  <2>2. <<r>> \in Seq(Nat)
    BY NumberFacts
  <2>. QED
    BY <2>1, <2>2 DEF Records
<1>3. ASSUME NEW c \in Numbers, NEW n \in Nat, e = Message(c, n) PROVE Encode(e) \in Records
  <2>1. Encode(e) = [slot |-> c, kind |-> KIND_TEXT, payload |-> <<n>>]
    BY <1>3, EncodeFacts, Zenon
  <2>2. <<n>> \in Seq(Nat)
    BY NumberFacts
  <2>. QED
    BY <2>1, <2>2 DEF Records
<1>4. ASSUME NEW c \in Numbers, e = Closed(c) PROVE Encode(e) \in Records
  <2>1. Encode(e) = [slot |-> c, kind |-> KIND_CLOSE, payload |-> <<>>]
    BY <1>4, EncodeFacts, Zenon
  <2>2. <<>> \in Seq(Nat)
    BY NumberFacts
  <2>. QED
    BY <2>1, <2>2 DEF Records
<1>. QED
    BY <1>1, <1>2, <1>3, <1>4, EventFacts, Zenon

\* The batch codec tells an Opened and a Closed of a connection from every other
\* event.
LEMMA EncodeTells ==
    ASSUME NEW e \in Events, NEW c, NEW r \in Numbers
    PROVE  /\ Encode(e) = Encode(Opened(c, r)) => e = Opened(c, r)
           /\ Encode(e) = Encode(Closed(c)) => e = Closed(c)
<1>0. r # None
    BY NumberFacts, Zenon
<1>1. ASSUME NEW s \in Numbers, e = Authorize(s)
      PROVE  Encode(e) # Encode(Opened(c, r)) /\ Encode(e) # Encode(Closed(c))
    BY <1>0, <1>1, EncodeFacts DEF KIND_AUTHORIZE, KIND_OPEN, KIND_CLOSE
<1>2. ASSUME NEW d \in Numbers, NEW s \in Numbers, e = Opened(d, s)
      PROVE  /\ Encode(e) = Encode(Opened(c, r)) => e = Opened(c, r)
             /\ Encode(e) # Encode(Closed(c))
  <2>1. s # None
    BY NumberFacts, Zenon
  <2>. QED
    BY <1>0, <1>2, <2>1, EncodeFacts DEF KIND_OPEN, KIND_CLOSE
<1>3. ASSUME NEW d \in Numbers, NEW n \in Nat, e = Message(d, n)
      PROVE  Encode(e) # Encode(Opened(c, r)) /\ Encode(e) # Encode(Closed(c))
    BY <1>0, <1>3, EncodeFacts DEF KIND_TEXT, KIND_OPEN, KIND_CLOSE
<1>4. ASSUME NEW d \in Numbers, e = Closed(d)
      PROVE  /\ Encode(e) # Encode(Opened(c, r))
             /\ Encode(e) = Encode(Closed(c)) => e = Closed(c)
    BY <1>0, <1>4, EncodeFacts DEF KIND_OPEN, KIND_CLOSE
<1>. QED
    BY <1>1, <1>2, <1>3, <1>4, EventFacts, Zenon

-----------------------------------------------------------------------------
(* The stream: a record keeps its place on its way, whoever moves it.      *)

\* An event behind all of the others.
LEMMA StreamEmit ==
    ASSUME TypeOK, Stream, NEW e \in Events, queue' = Append(queue, e),
           UNCHANGED <<batch, tsfn, turn>>, Before(Pending, {Encode(e)})
    PROVE  Stream' /\ Pending' = Pending \cup {Encode(e)}
<1>. DEFINE E == {Encode(e)}
<1>1. queue \in Seq(Events)
    BY Zenon DEF TypeOK
<1>2. /\ Before(Of(turn), E) /\ Before(Coded(batch), E) /\ Before(Coded(queue), E)
      /\ \A b \in DOMAIN tsfn : Before(Of(tsfn[b]), E)
  <2>1. /\ Of(turn) \subseteq Pending /\ Coded(batch) \subseteq Pending
        /\ Coded(queue) \subseteq Pending /\ Buffered \subseteq Pending
    BY Zenon DEF Pending
  <2>2. \A b \in DOMAIN tsfn : Of(tsfn[b]) \subseteq Pending
    BY <2>1 DEF Buffered
  <2>. QED
    BY <2>1, <2>2, Zenon DEF Before
<1>3. /\ Coded(queue') = Coded(queue) \cup E
      /\ AscCoded(queue) => AscCoded(queue')
  <2>1. /\ Coded(Append(queue, e)) = Coded(queue) \cup E
        /\ AscCoded(queue) /\ Before(Coded(queue), E) => AscCoded(Append(queue, e))
    BY <1>1, HoldsAppend, Zenon
  <2>. QED
    BY <1>2, <2>1, Zenon
<1>. HIDE DEF E
<1>4. Pending' = Pending \cup E
  <2>1. Buffered' = Buffered
    BY DEF Buffered
  <2>. QED
    BY <1>3, <2>1 DEF Pending
<1>5. Stream'
  <2>1. AscCoded(queue')
    BY <1>3, Zenon DEF Stream
  <2>2. /\ Before(Of(turn), Coded(queue')) /\ Before(Coded(batch), Coded(queue'))
        /\ \A b \in DOMAIN tsfn : Before(Of(tsfn[b]), Coded(queue'))
    <3>1. \A X : Before(X, Coded(queue)) /\ Before(X, E) => Before(X, Coded(queue'))
      BY <1>3 DEF Before
    <3>. QED
      BY <1>2, <3>1, Zenon DEF Stream
  <2>. QED
    BY <2>1, <2>2, Zenon DEF Stream
<1>. QED
    BY <1>4, <1>5, Zenon DEF E

\* drain_loop takes the oldest event into its batch.
LEMMA StreamTake ==
    ASSUME TypeOK, Stream, queue # <<>>, Take, UNCHANGED <<tsfn, turn>>
    PROVE  Stream' /\ Pending' = Pending
<1>. DEFINE h == Head(queue)
            E == {Encode(h)}
<1>1. queue \in Seq(Events) /\ batch \in Seq(Events)
    BY Zenon DEF TypeOK
<1>2. /\ h \in Events /\ queue' = Tail(queue) /\ batch' = Append(batch, h)
    BY <1>1, TailFacts DEF Take
<1>3. /\ Coded(queue) = E \cup Coded(queue')
      /\ AscCoded(queue) => AscCoded(queue') /\ Before(E, Coded(queue'))
    BY <1>1, <1>2, HoldsTail, Zenon
<1>4. /\ Coded(batch') = Coded(batch) \cup E
      /\ AscCoded(batch) /\ Before(Coded(batch), E) => AscCoded(batch')
  <2>. HIDE DEF h
  <2>1. /\ Coded(Append(batch, h)) = Coded(batch) \cup E
        /\ AscCoded(batch) /\ Before(Coded(batch), E) => AscCoded(Append(batch, h))
    BY <1>1, <1>2, HoldsAppend, Zenon
  <2>. QED
    BY <1>2, <2>1, Zenon
<1>. HIDE DEF h, E
<1>5. Pending' = Pending
  <2>1. Buffered' = Buffered
    BY DEF Buffered
  <2>. QED
    BY <1>3, <1>4, <2>1 DEF Pending
<1>6. /\ Before(Of(turn), E) /\ Before(Of(turn), Coded(queue'))
      /\ Before(Coded(batch), E) /\ Before(Coded(batch), Coded(queue'))
      /\ \A b \in DOMAIN tsfn : Before(Of(tsfn[b]), E) /\ Before(Of(tsfn[b]), Coded(queue'))
  <2>1. \A X : Before(X, Coded(queue)) => Before(X, E) /\ Before(X, Coded(queue'))
    BY <1>3 DEF Before
  <2>. QED
    BY <2>1, Zenon DEF Stream
<1>7. /\ Before(Of(turn), Coded(batch')) /\ Before(Coded(batch'), Coded(queue'))
      /\ \A b \in DOMAIN tsfn : Before(Of(tsfn[b]), Coded(batch'))
  <2>1. Before(Of(turn), Coded(batch')) /\ \A b \in DOMAIN tsfn : Before(Of(tsfn[b]), Coded(batch'))
    <3>1. \A X : Before(X, Coded(batch)) /\ Before(X, E) => Before(X, Coded(batch'))
      BY <1>4 DEF Before
    <3>. QED
      BY <1>6, <3>1, Zenon DEF Stream
  <2>2. Before(E, Coded(queue'))
    BY <1>3, Zenon DEF Stream
  <2>. QED
    BY <1>4, <1>6, <2>1, <2>2 DEF Before
<1>8. AscCoded(batch') /\ AscCoded(queue')
    BY <1>3, <1>4, <1>6, Zenon DEF Stream
<1>. QED
    BY <1>5, <1>6, <1>7, <1>8, Zenon DEF Stream

\* The buffer of a batch holds the batch.
LEMMA BufferFacts ==
    ASSUME NEW b \in Seq(Events)
    PROVE  LET w == [i \in DOMAIN b |-> Encode(b[i])]
           IN  w \in Seq(Records) /\ Of(w) = Coded(b) /\ (AscCoded(b) => Asc(w))
<1>. DEFINE w == [i \in DOMAIN b |-> Encode(b[i])]
<1>1. DOMAIN b = 1..Len(b) /\ Len(b) \in Nat /\ \A i \in DOMAIN b : b[i] \in Events
    OBVIOUS
<1>2. \A i \in DOMAIN b : w[i] \in Records
    BY <1>1, EncodeType, Zenon
<1>3. w \in Seq(Records)
    BY <1>1, <1>2
<1>4. DOMAIN w = DOMAIN b /\ \A i \in DOMAIN b : w[i] = Encode(b[i])
    OBVIOUS
<1>. HIDE DEF w
<1>5. Of(w) = Coded(b)
    BY <1>4, Zenon DEF Of, Coded
<1>6. AscCoded(b) => Asc(w)
    BY <1>4, Zenon DEF Asc, AscCoded
<1>. QED
    BY <1>3, <1>5, <1>6, Zenon DEF w

\* flush hands the batch over as one buffer.
LEMMA StreamFlush ==
    ASSUME TypeOK, Stream, tsfn' = Append(tsfn, [i \in DOMAIN batch |-> Encode(batch[i])]),
           batch' = <<>>, UNCHANGED <<queue, turn>>
    PROVE  Stream' /\ Pending' = Pending /\ tsfn' \in Seq(Seq(Records))
<1>. DEFINE w == [i \in DOMAIN batch |-> Encode(batch[i])]
            n == Len(tsfn) + 1
<1>1. batch \in Seq(Events) /\ tsfn \in Seq(Seq(Records))
    BY Zenon DEF TypeOK
<1>2. w \in Seq(Records) /\ Of(w) = Coded(batch) /\ (AscCoded(batch) => Asc(w))
    BY <1>1, BufferFacts, Zenon
<1>3. tsfn' = Append(tsfn, w)
    OBVIOUS
<1>. HIDE DEF w
<1>4. /\ tsfn' \in Seq(Seq(Records)) /\ Len(tsfn) \in Nat
      /\ DOMAIN tsfn = 1..Len(tsfn) /\ DOMAIN tsfn' = 1..n
      /\ \A i \in 1..Len(tsfn) : tsfn'[i] = tsfn[i]
      /\ tsfn'[n] = w
    BY <1>1, <1>2, <1>3, AppendFacts
<1>5. /\ n \in DOMAIN tsfn' /\ \A b \in DOMAIN tsfn : b \in DOMAIN tsfn' /\ tsfn'[b] = tsfn[b] /\ ~(n < b)
      /\ \A b \in DOMAIN tsfn' : b \in DOMAIN tsfn \/ b = n
      /\ ~(n < n)
    BY <1>4
<1>. HIDE DEF n
<1>6. Coded(batch') = {} /\ AscCoded(batch')
    BY HoldsNothing
<1>7. Pending' = Pending
  <2>1. Buffered' = Buffered \cup Of(w)
    <3>1. ASSUME NEW x \in Buffered' PROVE x \in Buffered \cup Of(w)
      <4>1. PICK b \in DOMAIN tsfn' : x \in Of(tsfn'[b])
        BY Zenon DEF Buffered
      <4>2. CASE b = n
        BY <1>4, <4>1, <4>2, Zenon
      <4>3. CASE b \in DOMAIN tsfn
        <5>1. x \in Of(tsfn[b])
          BY <1>5, <4>1, <4>3, Zenon
        <5>. QED
          BY <4>3, <5>1, Zenon DEF Buffered
      <4>. QED
        BY <1>5, <4>2, <4>3, Zenon
    <3>2. ASSUME NEW x \in Buffered PROVE x \in Buffered'
      <4>1. PICK b \in DOMAIN tsfn : x \in Of(tsfn[b])
        BY DEF Buffered
      <4>2. b \in DOMAIN tsfn' /\ x \in Of(tsfn'[b])
        BY <1>5, <4>1, Zenon
      <4>. QED
        BY <4>2 DEF Buffered
    <3>3. Of(w) \subseteq Buffered'
      <4>1. n \in DOMAIN tsfn' /\ Of(w) = Of(tsfn'[n])
        BY <1>4, <1>5
      <4>. QED
        BY <4>1, Zenon DEF Buffered
    <3>. QED
      BY <3>1, <3>2, <3>3, Zenon
  <2>. QED
    BY <1>2, <1>6, <2>1, Zenon DEF Pending
<1>8. Stream'
  <2>1. Asc(w) /\ Before(Of(turn), Of(w)) /\ Before(Of(w), Coded(queue))
        /\ \A b \in DOMAIN tsfn : Before(Of(tsfn[b]), Of(w))
    BY <1>2, Zenon DEF Stream
  <2>2. \A b \in DOMAIN tsfn' : Asc(tsfn'[b]) /\ Before(Of(turn), Of(tsfn'[b]))
                                /\ Before(Of(tsfn'[b]), Coded(queue))
    BY <1>4, <1>5, <2>1, Zenon DEF Stream
  <2>3. ASSUME NEW a \in DOMAIN tsfn', NEW b \in DOMAIN tsfn', a < b
        PROVE  Before(Of(tsfn'[a]), Of(tsfn'[b]))
    <3>1. a \in DOMAIN tsfn
      BY <1>5, <2>3
    <3>2. CASE b = n
      BY <1>4, <1>5, <2>1, <3>1, <3>2, Zenon
    <3>3. CASE b \in DOMAIN tsfn
      BY <1>5, <2>3, <3>1, <3>3, Zenon DEF Stream
    <3>. QED
      BY <1>5, <3>2, <3>3, Zenon
  <2>4. /\ \A X : Before(X, Coded(batch')) /\ Before(Coded(batch'), X)
    BY <1>6, HoldsNothing, Zenon
  <2>. QED
    BY <1>6, <2>2, <2>3, <2>4, Zenon DEF Stream
<1>. QED
    BY <1>4, <1>7, <1>8, Zenon

\* The callback takes the oldest buffer.
LEMMA StreamTurn ==
    ASSUME TypeOK, Stream, turn = <<>>, tsfn # <<>>, turn' = Head(tsfn), tsfn' = Tail(tsfn),
           UNCHANGED <<batch, queue>>
    PROVE  /\ Stream' /\ Pending' = Pending
           /\ turn' \in Seq(Records) /\ tsfn' \in Seq(Seq(Records)) /\ Len(tsfn') <= Len(tsfn)
<1>1. tsfn \in Seq(Seq(Records))
    BY Zenon DEF TypeOK
<1>2. /\ tsfn' \in Seq(Seq(Records)) /\ turn' \in Seq(Records) /\ turn' = tsfn[1]
      /\ Len(tsfn) \in Nat \ {0} /\ DOMAIN tsfn = 1..Len(tsfn) /\ DOMAIN tsfn' = 1..(Len(tsfn) - 1)
      /\ Len(tsfn') = Len(tsfn) - 1
      /\ \A i \in 1..(Len(tsfn) - 1) : tsfn'[i] = tsfn[i + 1]
    BY <1>1, TailFacts, Zenon
<1>3. /\ 1 \in DOMAIN tsfn
      /\ \A i \in DOMAIN tsfn' : i + 1 \in DOMAIN tsfn /\ 1 < i + 1 /\ tsfn'[i] = tsfn[i + 1]
      /\ \A i, j \in DOMAIN tsfn' : i < j => i + 1 < j + 1
    BY <1>2
<1>4. \A i \in DOMAIN tsfn : i = 1 \/ \E j \in DOMAIN tsfn' : tsfn'[j] = tsfn[i]
  <2>. SUFFICES ASSUME NEW i \in DOMAIN tsfn, i # 1
                PROVE  i - 1 \in DOMAIN tsfn' /\ tsfn'[i - 1] = tsfn[i]
    BY Zenon
  <2>1. i - 1 \in 1..(Len(tsfn) - 1) /\ (i - 1) + 1 = i
    BY <1>2
  <2>. QED
    BY <1>2, <2>1
<1>5. Of(turn) = {}
    BY HoldsNothing
<1>6. Pending' = Pending
  <2>1. Buffered = Of(turn') \cup Buffered'
    <3>1. ASSUME NEW x \in Buffered' PROVE x \in Buffered
      <4>1. PICK b \in DOMAIN tsfn' : x \in Of(tsfn'[b])
        BY DEF Buffered
      <4>2. b + 1 \in DOMAIN tsfn /\ x \in Of(tsfn[b + 1])
        BY <1>3, <4>1, Zenon
      <4>. QED
        BY <4>2 DEF Buffered
    <3>2. ASSUME NEW x \in Buffered PROVE x \in Of(turn') \cup Buffered'
      <4>1. PICK b \in DOMAIN tsfn : x \in Of(tsfn[b])
        BY DEF Buffered
      <4>2. CASE b = 1
        BY <1>2, <4>1, <4>2, Zenon
      <4>3. CASE \E j \in DOMAIN tsfn' : tsfn'[j] = tsfn[b]
        <5>1. PICK j \in DOMAIN tsfn' : tsfn'[j] = tsfn[b]
          BY <4>3
        <5>2. x \in Of(tsfn'[j])
          BY <4>1, <5>1, Zenon
        <5>. QED
          BY <5>2 DEF Buffered
      <4>. QED
        BY <1>4, <4>2, <4>3
    <3>3. Of(turn') \subseteq Buffered
      <4>1. 1 \in DOMAIN tsfn /\ Of(turn') = Of(tsfn[1])
        BY <1>2, <1>3
      <4>. QED
        BY <4>1, Zenon DEF Buffered
    <3>. QED
      BY <3>1, <3>2, <3>3
  <2>. QED
    BY <1>5, <2>1 DEF Pending
<1>7. Stream'
  <2>1. /\ Asc(turn') /\ Before(Of(turn'), Coded(batch)) /\ Before(Of(turn'), Coded(queue))
    BY <1>2, <1>3, Zenon DEF Stream
  <2>2. \A b \in DOMAIN tsfn' : Asc(tsfn'[b]) /\ Before(Of(turn'), Of(tsfn'[b]))
                                /\ Before(Of(tsfn'[b]), Coded(batch))
                                /\ Before(Of(tsfn'[b]), Coded(queue))
    BY <1>2, <1>3, Zenon DEF Stream
  <2>3. \A a, b \in DOMAIN tsfn' : a < b => Before(Of(tsfn'[a]), Of(tsfn'[b]))
    BY <1>3, Zenon DEF Stream
  <2>. QED
    BY <2>1, <2>2, <2>3, Zenon DEF Stream
<1>. QED
    BY <1>2, <1>6, <1>7

\* A dispatched record, and with a throwing handler the rest of its buffer, is
\* gone; what is left comes after it.
Dispatched ==
    /\ turn # <<>> /\ (turn' = Tail(turn) \/ turn' = <<>>)
    /\ UNCHANGED <<batch, queue, tsfn>>

\* demux hands on the first pending record, and what stays pending comes later in
\* the stream.
LEMMA StreamDispatch ==
    ASSUME TypeOK, Stream, Dispatched
    PROVE  /\ Stream' /\ turn' \in Seq(Records) /\ Head(turn) \in Records
           /\ Head(turn) \in Pending /\ Pending' \subseteq Pending
           /\ Before({Head(turn)}, Pending')
           /\ turn' = Tail(turn) => Pending \subseteq Pending' \cup {Head(turn)}
<1>. DEFINE h == Head(turn)
<1>1. turn \in Seq(Records)
    BY Zenon DEF TypeOK
<1>2. /\ h \in Records /\ Of(turn) = {h} \cup Of(Tail(turn)) /\ Tail(turn) \in Seq(Records)
      /\ Asc(turn) => Asc(Tail(turn)) /\ Before({h}, Of(Tail(turn)))
    BY <1>1, HoldsTail, TailFacts, Zenon DEF Dispatched
<1>. HIDE DEF h
<1>3. /\ turn' \in Seq(Records) /\ Of(turn') \subseteq Of(turn) /\ Asc(turn')
      /\ Before({h}, Of(turn')) /\ (turn' = Tail(turn) => Of(turn) = {h} \cup Of(turn'))
  <2>1. CASE turn' = Tail(turn)
    <3>1. Asc(turn)
      BY Zenon DEF Stream
    <3>2. Of(turn') \subseteq Of(turn)
      BY <1>2, <2>1
    <3>. QED
      BY <1>2, <2>1, <3>1, <3>2, Zenon
  <2>2. CASE turn' = <<>> /\ turn' # Tail(turn)
    <3>1. Of(turn') = {} /\ Asc(turn') /\ Before({h}, Of(turn')) /\ turn' \in Seq(Records)
      <4>1. <<>> \in Seq(Records)
        OBVIOUS
      <4>. QED
        BY <2>2, <4>1, HoldsNothing, Zenon
    <3>. QED
      BY <2>2, <3>1
  <2>. QED
    BY <2>1, <2>2 DEF Dispatched
<1>4. UNCHANGED <<batch, queue, tsfn>> /\ Buffered' = Buffered
    BY DEF Dispatched, Buffered
<1>5. Pending' \subseteq Pending /\ h \in Pending
  <2>1. h \in Of(turn)
    BY <1>2
  <2>. QED
    BY <1>3, <1>4, <2>1 DEF Pending
<1>6. turn' = Tail(turn) => Pending \subseteq Pending' \cup {h}
    BY <1>3, <1>4 DEF Pending
<1>7. \A X : Before(Of(turn), X) => Before(Of(turn'), X) /\ Before({h}, X)
    BY <1>2, <1>3, Zenon DEF Before
<1>8. Before({h}, Pending')
  <2>1. /\ Before({h}, Of(turn')) /\ Before({h}, Coded(batch)) /\ Before({h}, Coded(queue))
        /\ \A b \in DOMAIN tsfn : Before({h}, Of(tsfn[b]))
    BY <1>3, <1>7, Zenon DEF Stream
  <2>2. Before({h}, Buffered)
    <3>. SUFFICES ASSUME NEW y \in Buffered PROVE Follows(h, y)
      BY DEF Before
    <3>1. PICK b \in DOMAIN tsfn : y \in Of(tsfn[b])
      BY DEF Buffered
    <3>. QED
      BY <2>1, <3>1 DEF Before
  <2>3. Pending' = Of(turn') \cup Buffered \cup Coded(batch) \cup Coded(queue)
    BY <1>4 DEF Pending
  <2>. QED
    BY <2>1, <2>2, <2>3 DEF Before
<1>9. Stream'
    BY <1>3, <1>4, <1>7, Zenon DEF Stream
<1>. QED
    BY <1>2, <1>3, <1>5, <1>6, <1>8, <1>9, Zenon DEF h

-----------------------------------------------------------------------------
(* Counters.                                                               *)

\* What is used of the theory of finite sets; FiniteFactsHold proves it.
FiniteFacts ==
    /\ \A S : IsFiniteSet(S) => Cardinality(S) \in Nat
    /\ \A S : \A T \in SUBSET S : IsFiniteSet(S) => IsFiniteSet(T) /\ Cardinality(T) <= Cardinality(S)
    /\ \A S, x : IsFiniteSet(S) /\ x \notin S =>
          IsFiniteSet(S \cup {x}) /\ Cardinality(S \cup {x}) = Cardinality(S) + 1
    /\ \A S : \A x \in S : IsFiniteSet(S) =>
          IsFiniteSet(S \ {x}) /\ Cardinality(S \ {x}) = Cardinality(S) - 1

\* A finite set has a number of elements.
LEMMA FinCount == ASSUME FiniteFacts, NEW S, IsFiniteSet(S)
    PROVE  Cardinality(S) \in Nat
    BY Zenon DEF FiniteFacts

\* A part of a finite set is finite and no larger.
LEMMA FinSubset == ASSUME FiniteFacts, NEW S, IsFiniteSet(S), NEW T \in SUBSET S
    PROVE  IsFiniteSet(T) /\ Cardinality(T) <= Cardinality(S)
    BY Zenon DEF FiniteFacts

\* One more element counts for one.
LEMMA FinAdd == ASSUME FiniteFacts, NEW S, IsFiniteSet(S), NEW x, x \notin S
    PROVE  IsFiniteSet(S \cup {x}) /\ Cardinality(S \cup {x}) = Cardinality(S) + 1
    BY Zenon DEF FiniteFacts

\* One element less counts for one.
LEMMA FinRemove == ASSUME FiniteFacts, NEW S, IsFiniteSet(S), NEW x \in S
    PROVE  IsFiniteSet(S \ {x}) /\ Cardinality(S \ {x}) = Cardinality(S) - 1
    BY Zenon DEF FiniteFacts

\* A fresh number is a number, and nobody's yet.
LEMMA FreshFacts ==
    ASSUME FiniteFacts, NEW f \in [Upgrades -> {None} \cup Numbers], Numbered(f), NEW u \in Upgrades, f[u] = None
    PROVE  /\ Fresh(f) \in Numbers
           /\ [f EXCEPT ![u] = Fresh(f)] \in [Upgrades -> {None} \cup Numbers]
           /\ Numbered([f EXCEPT ![u] = Fresh(f)])
<1>. DEFINE N == Cardinality(Given(f))
            g == [f EXCEPT ![u] = Fresh(f)]
<1>1. IsFiniteSet(Upgrades)
    BY BridgeAssumption, Zenon
<1>2. Given(f) \subseteq Upgrades \ {u} /\ u \notin Given(f)
    BY DEF Given
<1>3. /\ IsFiniteSet(Upgrades \ {u}) /\ Cardinality(Upgrades \ {u}) = Cardinality(Upgrades) - 1
      /\ Cardinality(Upgrades) \in Nat
    BY <1>1, FinRemove, FinCount
<1>4. IsFiniteSet(Given(f)) /\ N \in Nat /\ N <= Cardinality(Upgrades) - 1
    BY <1>2, <1>3, FinSubset, FinCount
<1>5. Fresh(f) = 1 + N
    BY DEF Fresh, Given
<1>. HIDE DEF N
<1>6. Fresh(f) \in Numbers /\ Fresh(f) \in Nat /\ Fresh(f) # None
    BY <1>3, <1>4, <1>5 DEF Numbers, None
<1>7. /\ g \in [Upgrades -> {None} \cup Numbers] /\ g[u] = Fresh(f)
      /\ \A v \in Upgrades : v # u => g[v] = f[v]
    BY <1>6
<1>. HIDE DEF g
<1>8. Given(g) = Given(f) \cup {u}
    BY <1>6, <1>7 DEF Given
<1>9. Cardinality(Given(g)) = N + 1
  <2>1. Cardinality(Given(f) \cup {u}) = Cardinality(Given(f)) + 1
    BY <1>2, <1>4, FinAdd, Zenon
  <2>. QED
    BY <1>8, <2>1, Zenon DEF N
<1>10. \A v \in Upgrades : f[v] \in Nat /\ f[v] <= N
  <2>1. \A v \in Upgrades : f[v] \in {None} \cup Numbers
    BY Zenon
  <2>2. \A v \in Upgrades : f[v] <= N
    BY Zenon DEF Numbered, N
  <2>3. {None} \cup Numbers \subseteq Nat
    BY NumberFacts DEF None
  <2>. QED
    BY <2>1, <2>2, <2>3, Zenon
<1>11. \A v \in Upgrades : g[v] <= Cardinality(Given(g))
    BY <1>4, <1>5, <1>7, <1>9, <1>10
<1>12. \A v \in Upgrades : f[v] # Fresh(f)
    BY <1>4, <1>5, <1>10
<1>13. ASSUME NEW v \in Upgrades, NEW w \in Upgrades, g[v] # None, g[v] = g[w] PROVE v = w
  <2>1. \A x, y \in Upgrades : f[x] # None /\ f[x] = f[y] => x = y
    BY Zenon DEF Numbered
  <2>. QED
    BY <1>7, <1>12, <1>13, <2>1, Zenon
<1>. QED
    BY <1>6, <1>7, <1>11, <1>13, Zenon DEF Numbered, g

\* The upgrade a number was given to.
LEMMA UpgradeFacts ==
    ASSUME NEW f, Numbered(f), NEW u \in Upgrades, f[u] # None
    PROVE  Upgrade(f, f[u]) = u
    BY Zenon DEF Upgrade, Numbered

-----------------------------------------------------------------------------
(* What does not change for an upgrade whose state does not.               *)

SameTask(u) ==
    /\ task'[u] = task[u] /\ req'[u] = req[u] /\ id'[u] = id[u] /\ reads'[u] = reads[u]
    /\ reply'[u] = reply[u]
Same(u) == SameTask(u) /\ seen'[u] = seen[u]

\* Its records still to come, its numbers and what its Socket has emitted.
LEMMA SameFacts ==
    ASSUME NEW u, Same(u)
    PROVE  /\ TaskOf(u) => TaskOf(u)'
           /\ SeenOf(u) => SeenOf(u)'
           /\ \A w : ToCome(w, u) => ToCome(w, u)'
           /\ \A w : AsksFor(w, u) => AsksFor(w, u)'
<1>. USE DEF Same, SameTask
<1>1. TaskOf(u) => TaskOf(u)'
    BY DEF TaskOf
<1>2. SeenOf(u) => SeenOf(u)'
    BY Zenon DEF SeenOf, NoClose
<1>3. ASSUME NEW w, ToCome(w, u) PROVE ToCome(w, u)'
    BY <1>3, Zenon DEF ToCome, NoClose
<1>4. ASSUME NEW w, AsksFor(w, u) PROVE AsksFor(w, u)'
    BY <1>4, Zenon DEF AsksFor
<1>. QED
    BY <1>1, <1>2, <1>3, <1>4, Zenon

\* Its metadata in the stash.
LEMMA SameStash ==
    ASSUME NEW u, SameTask(u), Opens(u)' => Opens(u), StashOf(u),
           req[u] \in DOMAIN stash => req[u] \in DOMAIN stash' /\ stash'[req[u]] = stash[req[u]]
    PROVE  StashOf(u)'
<1>. HIDE DEF Opens
<1>. QED
    BY Zenon DEF StashOf, SameTask

\* Its Socket.
LEMMA SameStep ==
    ASSUME NEW u, SameTask(u), Opens(u)' <=> Opens(u), Closes(u)' <=> Closes(u), StepOf(u),
           (id[u] \in DOMAIN sockets') <=> (id[u] \in DOMAIN sockets),
           id[u] \in DOMAIN sockets => sockets'[id[u]] = sockets[id[u]]
    PROVE  StepOf(u)'
    BY Zenon DEF StepOf, SameTask

\* Steps that only move what is pending.
LEMMA Moves ==
    ASSUME IInv, TypeOK', Stream', BatchFacts', Pending' = Pending,
           UNCHANGED <<task, req, id, reads, reply, engine, sockets, stash, hooks, throws, seen>>
    PROVE  IInv'
<1>1. /\ Numbered(req) /\ Numbered(id) /\ TaskFacts /\ PendingFacts /\ SeenFacts /\ InOrder
      /\ SocketFacts /\ HookFacts /\ StashFacts /\ StepFacts
    BY Zenon DEF IInv
<1>2. \A u \in Upgrades : Same(u) /\ (Opens(u)' <=> Opens(u)) /\ (Closes(u)' <=> Closes(u))
    BY DEF Same, SameTask, Opens, Closes
<1>3. TaskFacts' /\ SeenFacts'
    BY <1>1, <1>2, SameFacts, Zenon DEF TaskFacts, SeenFacts
<1>4. PendingFacts'
  <2>. SUFFICES ASSUME NEW w \in Pending PROVE \E u \in Upgrades : AsksFor(w, u)' \/ ToCome(w, u)'
    BY Zenon DEF PendingFacts
  <2>1. PICK u \in Upgrades : AsksFor(w, u) \/ ToCome(w, u)
    BY <1>1, Zenon DEF PendingFacts
  <2>2. AsksFor(w, u)' \/ ToCome(w, u)'
    BY <1>2, <2>1, SameFacts, Zenon
  <2>. QED
    BY <2>2
<1>5. Numbered(req)' /\ Numbered(id)' /\ InOrder' /\ SocketFacts' /\ HookFacts'
  <2>1. Numbered(req)' /\ Numbered(id)'
    BY <1>1, Zenon
  <2>2. InOrder'
    BY <1>1, ZenonT(40) DEF InOrder
  <2>3. SocketFacts' /\ HookFacts'
    BY <1>1, Zenon DEF SocketFacts, HookFacts
  <2>. QED
    BY <2>1, <2>2, <2>3, Zenon
<1>6. StashFacts'
  <2>. SUFFICES ASSUME engine, NEW u \in Upgrades PROVE StashOf(u)'
    BY DEF StashFacts
  <2>1. StashOf(u) /\ SameTask(u) /\ (Opens(u)' => Opens(u))
    BY <1>1, <1>2, Zenon DEF StashFacts, Same
  <2>. QED
    BY <2>1, SameStash, Zenon
<1>7. StepFacts'
  <2>. SUFFICES ASSUME engine, throws = 0, NEW u \in Upgrades PROVE StepOf(u)'
    BY DEF StepFacts
  <2>1. StepOf(u) /\ SameTask(u) /\ (Opens(u)' <=> Opens(u)) /\ (Closes(u)' <=> Closes(u))
    BY <1>1, <1>2, Zenon DEF StepFacts, Same
  <2>. QED
    BY <2>1, SameStep, Zenon
<1>. QED
    BY <1>3, <1>4, <1>5, <1>6, <1>7, Zenon DEF IInv

-----------------------------------------------------------------------------
(* drain_loop and the callback.                                            *)

\* One more event in the batch.
LEMMA TakeType ==
    ASSUME TypeOK, queue # <<>>, Take
    PROVE  /\ queue' \in Seq(Events) /\ Len(queue') <= Capacity
           /\ batch' \in Seq(Events) /\ Len(batch') = Len(batch) + 1 /\ Len(batch) \in Nat
<1>1. queue \in Seq(Events) /\ batch \in Seq(Events) /\ Len(queue) <= Capacity /\ Capacity \in Nat
    BY BridgeAssumption, Zenon DEF TypeOK
<1>2. Head(queue) \in Events /\ queue' \in Seq(Events) /\ Len(queue') <= Capacity
    BY <1>1, TailFacts DEF Take
<1>3. batch' \in Seq(Events) /\ Len(batch') = Len(batch) + 1 /\ Len(batch) \in Nat
    BY <1>1, <1>2, AppendFacts, Zenon DEF Take
<1>. QED
    BY <1>2, <1>3, Zenon

\* The rest of the types, where only the way into the application changes.
WayType ==
    /\ queue \in Seq(Events) /\ batch \in Seq(Events)
    /\ tsfn \in Seq(Seq(Records)) /\ turn \in Seq(Records)
    /\ Len(queue) <= Capacity /\ Len(batch) <= Batch /\ Len(tsfn) <= TsfnBound
    /\ drain \in {"recv", "greedy", "fill", "flush", "last", "exited"}
    /\ resolved \in BOOLEAN

\* A step that only moves records along keeps the types if it keeps theirs.
LEMMA MovesType ==
    ASSUME TypeOK, WayType', UNCHANGED <<taskVars, dropped, senders, engine, sockets, stash, hooks,
                                         unsettled, throws, seen>>
    PROVE  TypeOK'
    BY Zenon DEF TypeOK, WayType, taskVars

\* The types of the queue, the batch and the callback queue, apart.
LEMMA TypeWay == ASSUME TypeOK PROVE WayType
    BY Zenon DEF TypeOK, WayType

\* Every step of the drain thread, the callback and the end of close().
LEMMA MovesKeep ==
    ASSUME IInv, DrainThread \/ OnFlush \/ Resolve
    PROVE  IInv'
<1>. USE DEF vars, taskVars, queueVars, drainVars, sdkVars
<1>1. TypeOK /\ Stream /\ WayType /\ BatchFacts
    BY TypeWay, Zenon DEF IInv
<1>2. Batch \in Nat \ {0} /\ TsfnBound \in Nat \ {0}
    BY BridgeAssumption, Zenon
<1>3. ASSUME queue # <<>>, Take, Len(batch) < Batch \/ batch = <<>>,
             drain' \in {"greedy", "fill", "flush", "last", "exited"},
             UNCHANGED <<taskVars, dropped, senders, tsfn, turn, sdkVars>>
      PROVE  IInv'
  <2>1. WayType'
    <3>1. /\ queue' \in Seq(Events) /\ Len(queue') <= Capacity
          /\ batch' \in Seq(Events) /\ Len(batch') = Len(batch) + 1 /\ Len(batch) \in Nat
      BY <1>1, <1>3, TakeType, Zenon
    <3>2. Len(batch') <= Batch
      BY <1>2, <1>3, <3>1
    <3>. QED
      BY <1>1, <1>3, <3>1, <3>2, Zenon DEF WayType
  <2>2. TypeOK'
    BY <1>1, <1>3, <2>1, MovesType, Zenon
  <2>3. Stream' /\ Pending' = Pending
    BY <1>1, <1>3, StreamTake, Zenon
  <2>4. BatchFacts'
    BY <1>3, Zenon DEF BatchFacts
  <2>. QED
    BY <1>3, <2>2, <2>3, <2>4, Moves, Zenon
<1>4. ASSUME drain' \in {"greedy", "fill", "flush", "last", "exited"},
             UNCHANGED <<taskVars, queueVars, batch, tsfn, turn, sdkVars>>
      PROVE  IInv'
  <2>1. WayType'
    BY <1>1, <1>4, Zenon DEF WayType
  <2>2. TypeOK'
    BY <1>1, <1>4, <2>1, MovesType, Zenon
  <2>3. Stream' /\ Pending' = Pending
    BY <1>1, <1>4, ZenonT(40) DEF Stream, Pending, Buffered
  <2>4. BatchFacts'
    BY <1>4 DEF BatchFacts
  <2>. QED
    BY <1>4, <2>2, <2>3, <2>4, Moves, Zenon
<1>5. ASSUME Recv PROVE IInv'
  <2>1. batch = <<>> \/ Len(batch) < Batch
    BY <1>1, <1>5 DEF Recv, BatchFacts
  <2>. QED
    BY <1>3, <1>5, <2>1 DEF Recv
<1>6. ASSUME TryRecv \/ Fill PROVE IInv'
  <2>1. drain' \in {"greedy", "fill"}
    BY <1>6 DEF TryRecv, Fill
  <2>. QED
    BY <1>3, <1>6, <2>1 DEF TryRecv, Fill
<1>7. ASSUME RecvNone \/ GreedyDone \/ FillDone PROVE IInv'
  <2>1. drain' \in {"greedy", "fill", "flush", "last", "exited"}
    BY <1>7, Zenon DEF RecvNone, GreedyDone, FillDone
  <2>. QED
    BY <1>4, <1>7, <2>1, Zenon DEF RecvNone, GreedyDone, FillDone
<1>8. ASSUME Flush PROVE IInv'
  <2>1. Stream' /\ Pending' = Pending /\ tsfn' \in Seq(Seq(Records))
    BY <1>1, <1>8, StreamFlush, Zenon DEF Flush
  <2>2. WayType'
    <3>1. batch' \in Seq(Events) /\ Len(batch') <= Batch
      <4>1. batch' = <<>> /\ <<>> \in Seq(Events) /\ Len(<<>>) = 0
        BY <1>8 DEF Flush
      <4>. QED
        BY <1>2, <4>1
    <3>2. Len(tsfn') <= TsfnBound
      <4>1. Len(tsfn') = Len(tsfn) + 1 /\ Len(tsfn) \in Nat /\ Len(tsfn) < TsfnBound
        <5>1. tsfn \in Seq(Seq(Records)) /\ Len(tsfn) < TsfnBound
              /\ tsfn' = Append(tsfn, [i \in DOMAIN batch |-> Encode(batch[i])])
          BY <1>1, <1>8, Zenon DEF WayType, Flush
        <5>. QED
          BY <5>1
      <4>. QED
        BY <1>2, <4>1
    <3>3. drain' \in {"recv", "exited"} /\ UNCHANGED <<queue, turn, resolved>>
      BY <1>8, Zenon DEF Flush
    <3>. QED
      BY <1>1, <2>1, <3>1, <3>2, <3>3, Zenon DEF WayType
  <2>3. TypeOK'
    BY <1>1, <1>8, <2>2, MovesType, Zenon DEF Flush
  <2>4. BatchFacts'
    BY <1>8, Zenon DEF BatchFacts, Flush
  <2>. QED
    BY <1>8, <2>1, <2>3, <2>4, Moves, Zenon DEF Flush
<1>9. ASSUME OnFlush PROVE IInv'
  <2>1. /\ Stream' /\ Pending' = Pending
        /\ turn' \in Seq(Records) /\ tsfn' \in Seq(Seq(Records)) /\ Len(tsfn') <= Len(tsfn)
    BY <1>1, <1>9, StreamTurn, Zenon DEF OnFlush
  <2>2. Len(tsfn') <= TsfnBound
    BY <1>1, <1>2, <2>1 DEF WayType
  <2>3. WayType'
    BY <1>1, <1>9, <2>1, <2>2, Zenon DEF WayType, OnFlush
  <2>4. TypeOK'
    BY <1>1, <1>9, <2>3, MovesType, Zenon DEF OnFlush
  <2>5. BatchFacts'
    BY <1>1, <1>9, Zenon DEF BatchFacts, OnFlush
  <2>. QED
    BY <1>9, <2>1, <2>4, <2>5, Moves, Zenon DEF OnFlush
<1>10. ASSUME Resolve PROVE IInv'
  <2>1. WayType'
    BY <1>1, <1>10, Zenon DEF WayType, Resolve
  <2>2. TypeOK'
    BY <1>1, <1>10, <2>1, MovesType, Zenon DEF Resolve
  <2>3. Stream' /\ Pending' = Pending
    <3>1. UNCHANGED <<turn, tsfn, batch, queue>>
      BY <1>10 DEF Resolve
    <3>. QED
      BY <1>1, <3>1, ZenonT(40) DEF Stream, Pending, Buffered
  <2>4. BatchFacts'
    BY <1>1, <1>10 DEF BatchFacts, Resolve
  <2>. QED
    BY <1>10, <2>2, <2>3, <2>4, Moves, Zenon DEF Resolve
<1>. QED
    BY <1>5, <1>6, <1>7, <1>8, <1>9, <1>10, Zenon DEF DrainThread

-----------------------------------------------------------------------------
(* Whose a pending record is.                                              *)

\* The four record kinds of buffers.rs differ.
LEMMA KindFacts == /\ KIND_TEXT # KIND_OPEN /\ KIND_TEXT # KIND_CLOSE /\ KIND_OPEN # KIND_CLOSE
                   /\ KIND_AUTHORIZE \notin {KIND_TEXT, KIND_OPEN, KIND_CLOSE}
    BY DEF KIND_TEXT, KIND_OPEN, KIND_CLOSE, KIND_AUTHORIZE

\* The fields of a record.
LEMMA CodeFacts ==
    /\ \A r : Encode(Authorize(r)).kind = KIND_AUTHORIZE /\ Encode(Authorize(r)).slot = r
    /\ \A c, r : Encode(Opened(c, r)).kind = KIND_OPEN /\ Encode(Opened(c, r)).slot = c
    /\ \A c, n : /\ Encode(Message(c, n)).kind = KIND_TEXT /\ Encode(Message(c, n)).slot = c
                 /\ Encode(Message(c, n)).payload[1] = n
    /\ \A c : Encode(Closed(c)).kind = KIND_CLOSE /\ Encode(Closed(c)).slot = c
    BY DEF Encode, Authorize, Opened, Message, Closed

\* A record that is still to come, by its kind.
LEMMA ToComeFacts ==
    ASSUME NEW w, NEW u, ToCome(w, u)
    PROVE  /\ w.slot = id[u] /\ w.kind \in {KIND_TEXT, KIND_OPEN, KIND_CLOSE}
           /\ w.kind = KIND_OPEN => w = Encode(Opened(id[u], req[u])) /\ seen[u] = <<>>
           /\ w.kind = KIND_TEXT => /\ w.payload[1] \in 1..reads[u]
                                    /\ w = Encode(Message(id[u], w.payload[1]))
                                    /\ \A i \in DOMAIN seen[u] : seen[u][i][2] < w.payload[1]
           /\ w.kind = KIND_CLOSE => w = Encode(Closed(id[u])) /\ task[u] # "live"
<1>1. CASE w = Encode(Opened(id[u], req[u])) /\ seen[u] = <<>>
  <2>1. w.kind = KIND_OPEN /\ w.slot = id[u]
    BY <1>1, CodeFacts
  <2>. QED
    BY <1>1, <2>1, KindFacts, Zenon
<1>2. ASSUME NEW n \in 1..reads[u], w = Encode(Message(id[u], n)),
             \A i \in DOMAIN seen[u] : seen[u][i][2] < n
      PROVE  /\ w.slot = id[u] /\ w.kind = KIND_TEXT /\ w.payload[1] = n
    BY <1>2, CodeFacts
<1>3. CASE \E n \in 1..reads[u] : /\ w = Encode(Message(id[u], n))
                                  /\ \A i \in DOMAIN seen[u] : seen[u][i][2] < n
  <2>1. PICK n \in 1..reads[u] : /\ w = Encode(Message(id[u], n))
                                 /\ \A i \in DOMAIN seen[u] : seen[u][i][2] < n
    BY <1>3, Zenon
  <2>2. w.slot = id[u] /\ w.kind = KIND_TEXT /\ w.payload[1] = n
    BY <1>2, <2>1, Zenon
  <2>3. w.kind # KIND_OPEN /\ w.kind # KIND_CLOSE
    BY <2>2, KindFacts, Zenon
  <2>. QED
    BY <2>1, <2>2, <2>3, Zenon
<1>4. CASE w = Encode(Closed(id[u])) /\ task[u] # "live"
  <2>1. w.kind = KIND_CLOSE /\ w.slot = id[u]
    BY <1>4, CodeFacts, Zenon
  <2>. QED
    BY <1>4, <2>1, KindFacts, Zenon
<1>. QED
    BY <1>1, <1>3, <1>4, Zenon DEF ToCome

\* A pending record of a connection is to come for the upgrade with its id.
LEMMA PendingWhose ==
    ASSUME PendingFacts, Numbered(id), NEW w \in Pending
    PROVE  /\ w.kind # KIND_AUTHORIZE =>
                /\ \E u \in Upgrades : ToCome(w, u)
                /\ \A u \in Upgrades : id[u] = w.slot => ToCome(w, u)
           /\ w.kind = KIND_AUTHORIZE => \E u \in Upgrades : AsksFor(w, u) /\ w.slot = req[u]
<1>1. PICK u \in Upgrades : AsksFor(w, u) \/ ToCome(w, u)
    BY Zenon DEF PendingFacts
<1>2. CASE AsksFor(w, u)
    BY <1>2, CodeFacts, Zenon DEF AsksFor
<1>3. CASE ToCome(w, u)
  <2>1. w.kind # KIND_AUTHORIZE /\ w.slot = id[u]
    BY <1>3, ToComeFacts, KindFacts, Zenon
  <2>2. id[u] # None
    BY <1>3, Zenon DEF ToCome
  <2>3. \A v \in Upgrades : id[v] = w.slot => v = u
    BY <2>1, <2>2, Zenon DEF Numbered
  <2>. QED
    BY <1>3, <2>1, <2>3, Zenon
<1>. QED
    BY <1>1, <1>2, <1>3, Zenon

-----------------------------------------------------------------------------
(* The steps of an upgrade's task.                                         *)

\* A step of the task of u emits the records E: what it must establish for u.
TaskStep(u, E) ==
    /\ Pending' = Pending \cup E
    /\ \A v \in Upgrades \ {u} : /\ SameTask(v)
                                 /\ Encode(Opened(id[v], req[v])) \notin E
                                 /\ Encode(Closed(id[v])) \notin E
    /\ \A w \in E : AsksFor(w, u)' \/ ToCome(w, u)'
    /\ \A w \in Pending : /\ AsksFor(w, u) => AsksFor(w, u)'
                          /\ ToCome(w, u) => ToCome(w, u)'
    /\ TaskOf(u)' /\ SeenOf(u)' /\ (engine => StashOf(u)') /\ (engine /\ throws = 0 => StepOf(u)')
    /\ (id[u] # None => id'[u] = id[u]) /\ (req[u] # None => req'[u] = req[u])
    /\ UNCHANGED <<engine, sockets, stash, hooks, throws, seen, drain, batch>>

\* A step of one connection's task, which appends at most one event of its own,
\* keeps the invariant.
LEMMA TaskKeep ==
    ASSUME IInv, TypeOK', Stream', Numbered(req'), Numbered(id'),
           NEW u \in Upgrades, NEW E, TaskStep(u, E)
    PROVE  IInv'
<1>1. /\ TypeOK /\ TaskFacts /\ PendingFacts /\ SeenFacts /\ InOrder
      /\ SocketFacts /\ HookFacts /\ StashFacts /\ StepFacts /\ BatchFacts
    BY Zenon DEF IInv
<1>2. UNCHANGED <<engine, sockets, stash, hooks, throws, seen, drain, batch>>
    BY Zenon DEF TaskStep
<1>3. \A v \in Upgrades : v # u => Same(v) /\ SameTask(v)
    BY <1>2, Zenon DEF TaskStep, Same
<1>4. ASSUME NEW v \in Upgrades, v # u
      PROVE  (Opens(v)' <=> Opens(v)) /\ (Closes(v)' <=> Closes(v))
  <2>1. /\ Encode(Opened(id[v], req[v])) \notin E /\ Encode(Closed(id[v])) \notin E
        /\ id'[v] = id[v] /\ req'[v] = req[v] /\ Pending' = Pending \cup E
    BY <1>4, Zenon DEF TaskStep, SameTask
  <2>. QED
    BY <2>1, Zenon DEF Opens, Closes
<1>5. TaskFacts'
    BY <1>1, <1>3, SameFacts, Zenon DEF TaskFacts, TaskStep
<1>6. SeenFacts'
    BY <1>1, <1>3, SameFacts, Zenon DEF SeenFacts, TaskStep
<1>7. PendingFacts'
  <2>. SUFFICES ASSUME NEW w \in Pending' PROVE \E v \in Upgrades : AsksFor(w, v)' \/ ToCome(w, v)'
    BY Zenon DEF PendingFacts
  <2>1. CASE w \in E
    BY <2>1, Zenon DEF TaskStep
  <2>2. CASE w \in Pending
    <3>1. PICK v \in Upgrades : AsksFor(w, v) \/ ToCome(w, v)
      BY <1>1, <2>2, Zenon DEF PendingFacts
    <3>2. AsksFor(w, v)' \/ ToCome(w, v)'
      <4>1. CASE v = u
        BY <2>2, <3>1, <4>1, Zenon DEF TaskStep
      <4>2. CASE v # u
        BY <1>3, <3>1, <4>2, SameFacts, Zenon
      <4>. QED
        BY <4>1, <4>2, Zenon
    <3>. QED
      BY <3>2, Zenon
  <2>. QED
    BY <2>1, <2>2, Zenon DEF TaskStep
<1>8. InOrder'
    BY <1>1, <1>2, ZenonT(40) DEF InOrder
<1>9. SocketFacts'
  <2>. SUFFICES ASSUME NEW c \in DOMAIN sockets
                PROVE  \E v \in Upgrades : id'[v] = c /\ seen[v] # <<>> /\ NoClose(seen[v])
    BY <1>2, Zenon DEF SocketFacts
  <2>1. PICK v \in Upgrades : id[v] = c /\ seen[v] # <<>> /\ NoClose(seen[v])
    BY <1>1, Zenon DEF SocketFacts
  <2>2. c # None
    BY <1>1, NumberFacts, Zenon DEF TypeOK
  <2>3. id'[v] = c
    BY <1>3, <2>1, <2>2, Zenon DEF TaskStep, SameTask
  <2>. QED
    BY <2>1, <2>3
<1>10. HookFacts'
  <2>. SUFFICES ASSUME NEW r \in hooks PROVE \E v \in Upgrades : req'[v] = r
    BY <1>2, Zenon DEF HookFacts
  <2>1. PICK v \in Upgrades : req[v] = r
    BY <1>1, Zenon DEF HookFacts
  <2>2. r # None
    BY <1>1, NumberFacts, Zenon DEF TypeOK
  <2>3. req'[v] = r
    BY <1>3, <2>1, <2>2, Zenon DEF TaskStep, SameTask
  <2>. QED
    BY <2>3, Zenon
<1>11. StashFacts'
  <2>. SUFFICES ASSUME engine, NEW v \in Upgrades PROVE StashOf(v)'
    BY <1>2, Zenon DEF StashFacts
  <2>1. CASE v = u
    BY <2>1, Zenon DEF TaskStep
  <2>2. CASE v # u
    <3>1. StashOf(v) /\ SameTask(v) /\ (Opens(v)' => Opens(v)) /\ UNCHANGED stash
      BY <1>1, <1>2, <1>3, <1>4, <2>2, Zenon DEF StashFacts
    <3>. QED
      BY <3>1, SameStash, Zenon
  <2>. QED
    BY <2>1, <2>2, Zenon
<1>12. StepFacts'
  <2>. SUFFICES ASSUME engine, throws = 0, NEW v \in Upgrades PROVE StepOf(v)'
    BY <1>2 DEF StepFacts
  <2>1. CASE v = u
    BY <2>1, Zenon DEF TaskStep
  <2>2. CASE v # u
    <3>1. /\ StepOf(v) /\ SameTask(v) /\ (Opens(v)' <=> Opens(v)) /\ (Closes(v)' <=> Closes(v))
          /\ UNCHANGED sockets
      BY <1>1, <1>2, <1>3, <1>4, <2>2, Zenon DEF StepFacts
    <3>. QED
      BY <3>1, SameStep, Zenon
  <2>. QED
    BY <2>1, <2>2, Zenon
<1>13. BatchFacts'
    BY <1>1, <1>2, Zenon DEF BatchFacts
<1>. QED
    BY <1>5, <1>6, <1>7, <1>8, <1>9, <1>10, <1>11, <1>12, <1>13, Zenon DEF IInv

\* The types, where only the task and the queue change.
Phases == {"upgrade", "await", "open", "live", "closed", "rejected", "dropped"}
TaskType ==
    /\ task \in [Upgrades -> Phases]
    /\ req \in [Upgrades -> {None} \cup Numbers] /\ id \in [Upgrades -> {None} \cup Numbers]
    /\ reads \in [Upgrades -> Nat] /\ \A u \in Upgrades : reads[u] <= MaxMsgs[u]
    /\ queue \in Seq(Events) /\ Len(queue) <= Capacity /\ dropped \in Nat

\* The types of what a connection task assigns, apart.
LEMMA TypeTask == ASSUME TypeOK PROVE TaskType
    BY Zenon DEF TypeOK, TaskType, Phases

\* A step of a connection task keeps the types if it keeps those it assigns.
LEMMA TaskStepType ==
    ASSUME TypeOK, TaskType', UNCHANGED <<reply, senders, drainVars, tsfn, turn, sdkVars>>
    PROVE  TypeOK'
    BY Zenon DEF TypeOK, TaskType, Phases, drainVars, sdkVars

\* A queue with room, and one more event.
LEMMA QueueType ==
    ASSUME TypeOK, NEW e \in Events, ~Full, queue' = Append(queue, e)
    PROVE  queue' \in Seq(Events) /\ Len(queue') <= Capacity
<1>1. queue \in Seq(Events) /\ Capacity \in Nat /\ Len(queue) < Capacity
  <2>1. queue \in Seq(Events) /\ Capacity \in Nat
    BY BridgeAssumption, Zenon DEF TypeOK
  <2>. QED
    BY <2>1 DEF Full
<1>. QED
    BY <1>1, AppendFacts

\* The task of u and its numbers, from the invariant.
LEMMA OfTask ==
    ASSUME IInv, NEW u \in Upgrades
    PROVE  /\ TypeOK /\ TaskType /\ Stream /\ PendingFacts /\ Numbered(req) /\ Numbered(id)
           /\ TaskOf(u) /\ SeenOf(u) /\ (engine => StashOf(u)) /\ (engine /\ throws = 0 => StepOf(u))
           /\ SocketFacts
    BY TypeTask, Zenon DEF IInv, TaskFacts, SeenFacts, StashFacts, StepFacts

\* Nobody else has the connection id of u.
LEMMA OtherIds ==
    ASSUME Numbered(id), NEW u \in Upgrades, id[u] # None, NEW v \in Upgrades, v # u
    PROVE  id[v] # id[u]
    BY Zenon DEF Numbered

\* authorize.
LEMMA EmitAuthorizeKeeps ==
    ASSUME FiniteFacts, IInv, NEW u \in Upgrades, EmitAuthorize(u)
    PROVE  IInv'
<1>. USE DEF drainVars, sdkVars
<1>0. PICK r, w : r = Fresh(req) /\ w = Encode(Authorize(r))
    OBVIOUS
<1>1. /\ TypeOK /\ TaskType /\ Stream /\ PendingFacts /\ Numbered(req) /\ Numbered(id)
      /\ TaskOf(u) /\ SeenOf(u)
    BY OfTask, Zenon
<1>2. /\ task[u] = "upgrade" /\ req' = [req EXCEPT ![u] = r] /\ ~Full
      /\ queue' = Append(queue, Authorize(r)) /\ UNCHANGED <<dropped, senders>>
      /\ task' = [task EXCEPT ![u] = "await"]
      /\ UNCHANGED <<id, reads, reply, drainVars, tsfn, turn, sdkVars>>
    BY <1>0, Zenon DEF EmitAuthorize, Control, Goto
<1>3. req[u] = None /\ id[u] = None /\ reply[u] = "none" /\ seen[u] = <<>>
    BY <1>1, <1>2, Zenon DEF TaskOf, SeenOf
<1>4. req \in [Upgrades -> {None} \cup Numbers] /\ task \in [Upgrades -> Phases]
    BY <1>1, Zenon DEF TaskType
<1>5. r \in Numbers /\ req' \in [Upgrades -> {None} \cup Numbers] /\ Numbered(req')
    BY <1>0, <1>1, <1>2, <1>3, <1>4, FreshFacts, Zenon
<1>6. Authorize(r) \in Events /\ r # None
    BY <1>5, NumberFacts DEF Events, Authorize
<1>7. /\ task' \in [Upgrades -> Phases] /\ task'[u] = "await" /\ req'[u] = r
      /\ \A v \in Upgrades : v # u => task'[v] = task[v] /\ req'[v] = req[v]
    BY <1>2, <1>4, Zenon DEF Phases
<1>8. w.kind = KIND_AUTHORIZE
    BY <1>0, CodeFacts, Zenon
<1>9. Before(Pending, {w})
    BY <1>8, Zenon DEF Before, Follows
<1>10. Stream' /\ Pending' = Pending \cup {w}
    BY <1>0, <1>1, <1>2, <1>6, <1>9, StreamEmit, Zenon
<1>11. TypeOK'
  <2>1. queue' \in Seq(Events) /\ Len(queue') <= Capacity
    BY <1>1, <1>2, <1>6, QueueType, Zenon
  <2>2. TaskType'
    BY <1>1, <1>2, <1>5, <1>7, <2>1, Zenon DEF TaskType
  <2>. QED
    BY <1>1, <1>2, <2>2, TaskStepType, Zenon
<1>12. TaskStep(u, {w})
  <2>1. ASSUME NEW v \in Upgrades \ {u}
        PROVE  SameTask(v) /\ Encode(Opened(id[v], req[v])) \notin {w} /\ Encode(Closed(id[v])) \notin {w}
    <3>1. SameTask(v)
      BY <1>2, <1>7, ZenonT(40) DEF SameTask
    <3>2. Encode(Opened(id[v], req[v])).kind # KIND_AUTHORIZE /\ Encode(Closed(id[v])).kind # KIND_AUTHORIZE
      BY CodeFacts, KindFacts
    <3>. QED
      BY <1>8, <3>1, <3>2, Zenon
  <2>2. AsksFor(w, u)'
    BY <1>0, <1>6, <1>7 DEF AsksFor
  <2>3. \A x : ~AsksFor(x, u) /\ ~ToCome(x, u)
    BY <1>3 DEF AsksFor, ToCome
  <2>4. TaskOf(u)' /\ SeenOf(u)'
    <3>1. TaskOf(u)'
      BY <1>2, <1>3, <1>6, <1>7, ZenonT(40) DEF TaskOf
    <3>2. SeenOf(u)'
      BY <1>2, <1>3, <1>7, SMTT(30) DEF SeenOf, NoClose
    <3>. QED
      BY <3>1, <3>2
  <2>5. StashOf(u)' /\ StepOf(u)'
    BY <1>2, <1>3, <1>7, Zenon DEF StashOf, StepOf
  <2>. QED
    BY <1>2, <1>3, <1>10, <2>1, <2>2, <2>3, <2>4, <2>5, Zenon DEF TaskStep
<1>. QED
  <2>1. Numbered(id')
    BY <1>1, <1>2, Zenon
  <2>. QED
    BY <1>5, <1>10, <1>11, <1>12, <2>1, TaskKeep, Zenon

\* The answer to an upgrade.
LEMMA AnsweredKeeps ==
    ASSUME FiniteFacts, IInv, NEW u \in Upgrades, Answered(u)
    PROVE  IInv'
<1>. USE DEF queueVars, drainVars, sdkVars
<1>1. /\ TypeOK /\ TaskType /\ Stream /\ PendingFacts /\ Numbered(req) /\ Numbered(id)
      /\ TaskOf(u) /\ SeenOf(u) /\ (engine => StashOf(u))
    BY OfTask, Zenon
<1>2. task[u] = "await" /\ UNCHANGED <<req, reads, reply, queueVars, drainVars, tsfn, turn, sdkVars>>
    BY Zenon DEF Answered
<1>3. req[u] # None /\ id[u] = None /\ seen[u] = <<>>
    BY <1>1, <1>2, Zenon DEF TaskOf, SeenOf
<1>4. id \in [Upgrades -> {None} \cup Numbers] /\ task \in [Upgrades -> Phases]
    BY <1>1, Zenon DEF TaskType
<1>5. /\ id' \in [Upgrades -> {None} \cup Numbers] /\ Numbered(id') /\ task' \in [Upgrades -> Phases]
      /\ \A v \in Upgrades : v # u => task'[v] = task[v] /\ id'[v] = id[v]
      /\ \/ reply[u] = "accept" /\ task'[u] = "open" /\ id'[u] # None
         \/ reply[u] # "accept" /\ task'[u] = "rejected" /\ id'[u] = None
  <2>1. CASE reply[u] = "accept"
    <3>1. id' = [id EXCEPT ![u] = Fresh(id)] /\ task' = [task EXCEPT ![u] = "open"]
      BY <2>1, Zenon DEF Answered, Goto
    <3>2. Fresh(id) \in Numbers /\ id' \in [Upgrades -> {None} \cup Numbers] /\ Numbered(id')
      BY <1>1, <1>3, <1>4, <3>1, FreshFacts, Zenon
    <3>3. Fresh(id) # None
      BY <3>2, NumberFacts
    <3>. QED
      BY <1>4, <2>1, <3>1, <3>2, <3>3, Zenon DEF Phases
  <2>2. CASE reply[u] # "accept"
    <3>1. id' = id /\ task' = [task EXCEPT ![u] = "rejected"]
      BY <2>2 DEF Answered, Goto
    <3>. QED
      BY <1>1, <1>3, <1>4, <2>2, <3>1 DEF Phases
  <2>. QED
    BY <2>1, <2>2, Zenon
<1>6. Stream' /\ Pending' = Pending
    BY <1>1, <1>2, ZenonT(40) DEF Stream, Pending, Buffered
<1>7. TypeOK'
  <2>1. TaskType'
    BY <1>1, <1>2, <1>5, Zenon DEF TaskType
  <2>. QED
    BY <1>1, <1>2, <2>1, TaskStepType
<1>8. TaskStep(u, {})
  <2>1. \A v \in Upgrades \ {u} : SameTask(v)
    BY <1>2, <1>5, Zenon DEF SameTask
  <2>2. \A x : (AsksFor(x, u) => AsksFor(x, u)') /\ ~ToCome(x, u)
    BY <1>2, <1>3, Zenon DEF AsksFor, ToCome
  <2>3. TaskOf(u)' /\ SeenOf(u)'
    <3>1. TaskOf(u)'
      BY <1>2, <1>3, <1>5, Zenon DEF TaskOf
    <3>2. SeenOf(u)'
      BY <1>2, <1>3, <1>5 DEF SeenOf, NoClose
    <3>. QED
      BY <3>1, <3>2
  <2>4. engine => StashOf(u)'
    BY <1>1, <1>2, <1>5, Zenon DEF StashOf
  <2>5. StepOf(u)'
    BY <1>5, Zenon DEF StepOf
  <2>. QED
    BY <1>2, <1>3, <1>6, <2>1, <2>2, <2>3, <2>4, <2>5, Zenon DEF TaskStep
<1>. QED
  <2>1. Numbered(req')
    BY <1>1, <1>2, Zenon
  <2>. QED
    BY <1>5, <1>6, <1>7, <1>8, <2>1, TaskKeep, Zenon

\* Records of u do not concern another upgrade.
LEMMA OtherRecords ==
    ASSUME Numbered(id), NEW u \in Upgrades, id[u] # None, NEW w, w.slot = id[u],
           NEW v \in Upgrades \ {u}
    PROVE  Encode(Opened(id[v], req[v])) \notin {w} /\ Encode(Closed(id[v])) \notin {w}
<1>1. id[v] # id[u]
    BY OtherIds, Zenon
<1>2. Encode(Opened(id[v], req[v])).slot = id[v] /\ Encode(Closed(id[v])).slot = id[v]
    BY CodeFacts, Zenon
<1>. QED
    BY <1>1, <1>2, Zenon

\* A record of u after everything pending of u comes after everything pending.
LEMMA BehindAll ==
    ASSUME PendingFacts, Numbered(id), NEW u \in Upgrades, NEW w, w.slot = id[u],
           \A x \in Pending : ToCome(x, u) => Follows(x, w)
    PROVE  Before(Pending, {w})
<1>. SUFFICES ASSUME NEW x \in Pending PROVE Follows(x, w)
    BY Zenon DEF Before
<1>1. CASE x.kind # KIND_AUTHORIZE /\ x.slot = w.slot
    BY <1>1, PendingWhose, Zenon
<1>2. CASE ~(x.kind # KIND_AUTHORIZE /\ x.slot = w.slot)
    BY <1>2, Zenon DEF Follows
<1>. QED
    BY <1>1, <1>2, Zenon

\* Opened.
LEMMA EmitOpenedKeeps ==
    ASSUME IInv, NEW u \in Upgrades, EmitOpened(u)
    PROVE  IInv'
<1>. USE DEF drainVars, sdkVars
<1>0. PICK c, r, w : c = id[u] /\ r = req[u] /\ w = Encode(Opened(c, r))
    OBVIOUS
<1>1. /\ TypeOK /\ TaskType /\ Stream /\ PendingFacts /\ Numbered(req) /\ Numbered(id)
      /\ TaskOf(u) /\ SeenOf(u) /\ (engine => StashOf(u)) /\ SocketFacts
    BY OfTask, Zenon
<1>2. /\ task[u] = "open" /\ ~Full
      /\ queue' = Append(queue, Opened(c, r)) /\ UNCHANGED <<dropped, senders>>
      /\ task' = [task EXCEPT ![u] = "live"]
      /\ UNCHANGED <<req, id, reads, reply, drainVars, tsfn, turn, sdkVars>>
    BY <1>0, Zenon DEF EmitOpened, Control, Goto
<1>3. c # None /\ r # None /\ reply[u] = "accept" /\ seen[u] = <<>>
    BY <1>0, <1>1, <1>2, Zenon DEF TaskOf, SeenOf
<1>4. /\ c \in {None} \cup Numbers /\ r \in {None} \cup Numbers
      /\ task \in [Upgrades -> Phases] /\ reads[u] \in Nat
    BY <1>0, <1>1, Zenon DEF TaskType
<1>5. Opened(c, r) \in Events
    BY <1>3, <1>4, ZenonT(40) DEF Events, Opened
<1>6. w.kind = KIND_OPEN /\ w.slot = c
    BY <1>0, CodeFacts
<1>7. /\ task' \in [Upgrades -> Phases] /\ task'[u] = "live"
      /\ \A v \in Upgrades : v # u => task'[v] = task[v]
    BY <1>2, <1>4, Zenon DEF Phases
<1>8. \A x : ~ToCome(x, u)
    BY <1>2, Zenon DEF ToCome
<1>9. Stream' /\ Pending' = Pending \cup {w}
  <2>1. Before(Pending, {w})
    BY <1>0, <1>1, <1>6, <1>8, BehindAll, Zenon
  <2>. QED
    BY <1>0, <1>1, <1>2, <1>5, <2>1, StreamEmit, Zenon
<1>10. TypeOK'
  <2>1. queue' \in Seq(Events) /\ Len(queue') <= Capacity
    BY <1>1, <1>2, <1>5, QueueType, Zenon
  <2>2. TaskType'
    BY <1>1, <1>2, <1>7, <2>1, Zenon DEF TaskType
  <2>. QED
    BY <1>1, <1>2, <2>2, TaskStepType, Zenon
<1>11. TaskStep(u, {w})
  <2>1. ASSUME NEW v \in Upgrades \ {u}
        PROVE  SameTask(v) /\ Encode(Opened(id[v], req[v])) \notin {w} /\ Encode(Closed(id[v])) \notin {w}
    <3>1. SameTask(v)
      BY <1>2, <1>7, Zenon DEF SameTask
    <3>2. Encode(Opened(id[v], req[v])) \notin {w} /\ Encode(Closed(id[v])) \notin {w}
      BY <1>0, <1>1, <1>3, <1>6, OtherRecords, ZenonT(40)
    <3>. QED
      BY <3>1, <3>2, Zenon
  <2>0. /\ seen'[u] = <<>> /\ id'[u] = c /\ req'[u] = r /\ reads'[u] = reads[u]
        /\ \A i \in DOMAIN <<>> : FALSE
    <3>1. \A i \in DOMAIN <<>> : FALSE
      OBVIOUS
    <3>. QED
      BY <1>0, <1>2, <1>3, <3>1, Zenon
  <2>2. ToCome(w, u)'
    BY <1>0, <1>3, <1>7, <2>0, ZenonT(40) DEF ToCome, NoClose
  <2>3. \A x : AsksFor(x, u) => AsksFor(x, u)'
    BY <1>2 DEF AsksFor
  <2>4. TaskOf(u)' /\ SeenOf(u)'
    <3>1. TaskOf(u)'
      BY <1>0, <1>2, <1>3, <1>7, Zenon DEF TaskOf
    <3>2. SeenOf(u)'
      BY <1>7, <2>0, ZenonT(40) DEF SeenOf, NoClose
    <3>. QED
      BY <3>1, <3>2
  <2>5. engine => StashOf(u)'
    BY <1>1, <1>2, <1>3, <1>7, Zenon DEF StashOf
  <2>6. StepOf(u)'
    <3>1. id[u] \notin DOMAIN sockets
      <4>. SUFFICES ASSUME id[u] \in DOMAIN sockets PROVE FALSE
        OBVIOUS
      <4>1. PICK v \in Upgrades : id[v] = id[u] /\ seen[v] # <<>>
        BY <1>1, Zenon DEF SocketFacts
      <4>. QED
        BY <1>0, <1>1, <1>3, <4>1, OtherIds, Zenon
    <3>2. Opens(u)'
      BY <1>0, <1>2, <1>9, Zenon DEF Opens
    <3>. QED
      BY <1>2, <1>7, <3>1, <3>2, Zenon DEF StepOf
  <2>. QED
    BY <1>2, <1>8, <1>9, <2>1, <2>2, <2>3, <2>4, <2>5, <2>6, Zenon DEF TaskStep
<1>. QED
  <2>1. Numbered(id') /\ Numbered(req')
    BY <1>1, <1>2, Zenon
  <2>. QED
    BY <1>9, <1>10, <1>11, <2>1, TaskKeep, Zenon

\* Closed.
LEMMA EmitClosedKeeps ==
    ASSUME IInv, NEW u \in Upgrades, EmitClosed(u)
    PROVE  IInv'
<1>. USE DEF drainVars, sdkVars
<1>0. PICK c, w : c = id[u] /\ w = Encode(Closed(c))
    OBVIOUS
<1>1. /\ TypeOK /\ TaskType /\ Stream /\ PendingFacts /\ Numbered(req) /\ Numbered(id)
      /\ TaskOf(u) /\ SeenOf(u) /\ (engine => StashOf(u)) /\ (engine /\ throws = 0 => StepOf(u))
    BY OfTask, Zenon
<1>2. /\ task[u] = "live" /\ ~Full
      /\ queue' = Append(queue, Closed(c)) /\ UNCHANGED <<dropped, senders>>
      /\ task' = [task EXCEPT ![u] = "closed"]
      /\ UNCHANGED <<req, id, reads, reply, drainVars, tsfn, turn, sdkVars>>
    BY <1>0, Zenon DEF EmitClosed, Control, Goto
<1>3. c # None /\ req[u] # None /\ reply[u] = "accept" /\ NoClose(seen[u])
    BY <1>0, <1>1, <1>2, Zenon DEF TaskOf, SeenOf
<1>4. c \in {None} \cup Numbers /\ task \in [Upgrades -> Phases]
    BY <1>0, <1>1, Zenon DEF TaskType
<1>5. Closed(c) \in Events
    BY <1>3, <1>4, Zenon DEF Events, Closed
<1>6. w.kind = KIND_CLOSE /\ w.slot = c
    BY <1>0, CodeFacts, Zenon
<1>7. /\ task' \in [Upgrades -> Phases] /\ task'[u] = "closed"
      /\ \A v \in Upgrades : v # u => task'[v] = task[v]
    BY <1>2, <1>4, Zenon DEF Phases
<1>8. Stream' /\ Pending' = Pending \cup {w}
  <2>1. ASSUME NEW x, ToCome(x, u) PROVE Follows(x, w)
    <3>1. x.kind # KIND_CLOSE
      BY <1>2, <2>1, ToComeFacts, Zenon
    <3>. QED
      BY <1>6, <3>1, KindFacts, Zenon DEF Follows
  <2>2. Before(Pending, {w})
    BY <1>0, <1>1, <1>6, <2>1, BehindAll, Zenon
  <2>. QED
    BY <1>0, <1>1, <1>2, <1>5, <2>2, StreamEmit, Zenon
<1>9. TypeOK'
  <2>1. queue' \in Seq(Events) /\ Len(queue') <= Capacity
    BY <1>1, <1>2, <1>5, QueueType, Zenon
  <2>2. TaskType'
    BY <1>1, <1>2, <1>7, <2>1, Zenon DEF TaskType
  <2>. QED
    BY <1>1, <1>2, <2>2, TaskStepType, Zenon
<1>10. TaskStep(u, {w})
  <2>1. ASSUME NEW v \in Upgrades \ {u}
        PROVE  SameTask(v) /\ Encode(Opened(id[v], req[v])) \notin {w} /\ Encode(Closed(id[v])) \notin {w}
    <3>1. SameTask(v)
      BY <1>2, <1>7, Zenon DEF SameTask
    <3>2. Encode(Opened(id[v], req[v])) \notin {w} /\ Encode(Closed(id[v])) \notin {w}
      BY <1>0, <1>1, <1>3, <1>6, OtherRecords, Zenon
    <3>. QED
      BY <3>1, <3>2
  <2>2. ToCome(w, u)'
    BY <1>0, <1>2, <1>3, <1>7, Zenon DEF ToCome
  <2>3. \A x : AsksFor(x, u) => AsksFor(x, u)'
    BY <1>2, Zenon DEF AsksFor
  <2>4. ASSUME NEW x, ToCome(x, u) PROVE ToCome(x, u)'
    BY <1>2, <1>7, <2>4, Zenon DEF ToCome
  <2>5. TaskOf(u)' /\ SeenOf(u)'
    <3>1. TaskOf(u)'
      BY <1>0, <1>2, <1>3, <1>7, Zenon DEF TaskOf
    <3>2. SeenOf(u)'
      BY <1>1, <1>2, <1>7, Zenon DEF SeenOf
    <3>. QED
      BY <3>1, <3>2
  <2>6. Opens(u)' <=> Opens(u)
    <3>1. Encode(Opened(id[u], req[u])).kind # w.kind
      BY <1>6, CodeFacts, KindFacts
    <3>. QED
      BY <1>2, <1>8, <3>1, ZenonT(40) DEF Opens
  <2>7. Closes(u)'
    BY <1>0, <1>2, <1>8 DEF Closes
  <2>8. engine => StashOf(u)'
    BY <1>1, <1>2, <1>7, <2>6, Zenon DEF StashOf
  <2>9. engine /\ throws = 0 => StepOf(u)'
    BY <1>1, <1>2, <1>7, <2>6, <2>7, Zenon DEF StepOf
  <2>. QED
    BY <1>2, <1>8, <2>1, <2>2, <2>3, <2>4, <2>5, <2>8, <2>9, ZenonT(40) DEF TaskStep
<1>. QED
  <2>1. Numbered(id') /\ Numbered(req')
    BY <1>1, <1>2, Zenon
  <2>. QED
    BY <1>8, <1>9, <1>10, <2>1, TaskKeep

\* A message, or one that finds the queue full.
LEMMA EmitMessageKeeps ==
    ASSUME IInv, NEW u \in Upgrades, EmitMessage(u)
    PROVE  IInv'
<1>. USE DEF drainVars, sdkVars
<1>0. PICK c, n, w : c = id[u] /\ n = reads[u] + 1 /\ w = Encode(Message(c, n))
    OBVIOUS
<1>1. /\ TypeOK /\ TaskType /\ Stream /\ PendingFacts /\ Numbered(req) /\ Numbered(id)
      /\ TaskOf(u) /\ SeenOf(u) /\ (engine => StashOf(u)) /\ (engine /\ throws = 0 => StepOf(u))
    BY OfTask, Zenon
<1>2. /\ task[u] = "live" /\ reads[u] < MaxMsgs[u] /\ reads' = [reads EXCEPT ![u] = n]
      /\ queue' = IF Full THEN queue ELSE Append(queue, Message(c, n))
      /\ dropped' = IF Full THEN dropped + 1 ELSE dropped
      /\ UNCHANGED <<task, req, id, reply, senders, drainVars, tsfn, turn, sdkVars>>
    BY <1>0, Zenon DEF EmitMessage, TryMessage
<1>3. c # None /\ NoClose(seen[u]) /\ \A i \in DOMAIN seen[u] : seen[u][i][2] <= reads[u]
    BY <1>0, <1>1, <1>2, Zenon DEF TaskOf, SeenOf
<1>4. /\ c \in {None} \cup Numbers /\ reads \in [Upgrades -> Nat] /\ reads[u] \in Nat
      /\ MaxMsgs[u] \in Nat /\ n \in Nat /\ reads[u] < n /\ n <= MaxMsgs[u]
  <2>1. c \in {None} \cup Numbers /\ reads \in [Upgrades -> Nat] /\ MaxMsgs[u] \in Nat
    BY <1>0, <1>1, BridgeAssumption, Zenon DEF TaskType
  <2>. QED
    BY <1>0, <1>2, <2>1
<1>5. Message(c, n) \in Events
    BY <1>3, <1>4, ZenonT(40) DEF Events, Message
<1>6. w.kind = KIND_TEXT /\ w.slot = c /\ w.payload[1] = n
    BY <1>0, CodeFacts
<1>7. /\ reads' \in [Upgrades -> Nat] /\ reads'[u] = n
      /\ \A v \in Upgrades : v # u => reads'[v] = reads[v]
    BY <1>2, <1>4, SMTT(30)
<1>8. TypeOK'
  <2>1. queue' \in Seq(Events) /\ Len(queue') <= Capacity /\ dropped' \in Nat
    <3>1. CASE Full
      BY <1>1, <1>2, <3>1 DEF TaskType
    <3>2. CASE ~Full
      BY <1>1, <1>2, <1>5, <3>2, QueueType, Zenon DEF TaskType
    <3>. QED
      BY <3>1, <3>2
  <2>2. \A v \in Upgrades : reads'[v] <= MaxMsgs[v]
    BY <1>1, <1>4, <1>7, Zenon DEF TaskType
  <2>3. TaskType'
    BY <1>1, <1>2, <1>7, <2>1, <2>2, Zenon DEF TaskType
  <2>. QED
    BY <1>1, <1>2, <2>3, TaskStepType, Zenon
<1>9. PICK E : E = IF Full THEN {} ELSE {w}
    BY Zenon
<1>10. Stream' /\ Pending' = Pending \cup E
  <2>1. CASE Full
    <3>1. UNCHANGED <<queue, batch, tsfn, turn>> /\ E = {}
      BY <1>2, <1>9, <2>1, Zenon
    <3>2. Stream' /\ Pending' = Pending
      BY <1>1, <3>1, ZenonT(40) DEF Stream, Pending, Buffered
    <3>. QED
      BY <3>1, <3>2
  <2>2. CASE ~Full
    <3>1. ASSUME NEW x, ToCome(x, u) PROVE Follows(x, w)
      <4>1. x.kind \in {KIND_TEXT, KIND_OPEN} /\ (x.kind = KIND_TEXT => x.payload[1] \in 1..reads[u])
        BY <1>2, <3>1, ToComeFacts, ZenonT(40)
      <4>2. x.kind = KIND_TEXT => x.payload[1] < w.payload[1]
        BY <1>4, <1>6, <4>1
      <4>. QED
        BY <1>6, <4>1, <4>2, KindFacts, Zenon DEF Follows
    <3>2. Before(Pending, {w})
      BY <1>0, <1>1, <1>6, <3>1, BehindAll, Zenon
    <3>3. queue' = Append(queue, Message(c, n)) /\ UNCHANGED <<batch, tsfn, turn>> /\ E = {w}
      BY <1>2, <1>9, <2>2, Zenon
    <3>. QED
      BY <1>0, <1>1, <1>5, <3>2, <3>3, StreamEmit, Zenon
  <2>. QED
    BY <2>1, <2>2
<1>11. TaskStep(u, E)
  <2>1. ASSUME NEW v \in Upgrades \ {u}
        PROVE  SameTask(v) /\ Encode(Opened(id[v], req[v])) \notin E /\ Encode(Closed(id[v])) \notin E
    <3>1. SameTask(v)
      BY <1>2, <1>7, Zenon DEF SameTask
    <3>2. Encode(Opened(id[v], req[v])) \notin {w} /\ Encode(Closed(id[v])) \notin {w}
      BY <1>0, <1>1, <1>3, <1>6, OtherRecords, Zenon
    <3>. QED
      BY <1>9, <3>1, <3>2, Zenon
  <2>2. ToCome(w, u)'
    <3>1. \A i \in DOMAIN seen[u] : seen[u][i][2] < n
      <4>1. \A i \in DOMAIN seen[u] : seen[u][i][2] \in Nat
        <5>1. seen[u] \in Seq(Emitted)
          BY <1>1, ZenonT(40) DEF TypeOK
        <5>. QED
          BY <5>1 DEF Emitted
      <4>. QED
        BY <1>3, <1>4, <4>1
    <3>2. n \in 1..reads'[u] /\ w = Encode(Message(id[u], n))
      BY <1>0, <1>4, <1>7
    <3>. QED
      BY <1>0, <1>2, <1>3, <3>1, <3>2, ZenonT(40) DEF ToCome
  <2>3. \A x : AsksFor(x, u) => AsksFor(x, u)'
    BY <1>2, Zenon DEF AsksFor
  <2>4. ASSUME NEW x, ToCome(x, u) PROVE ToCome(x, u)'
    <3>1. 1..reads[u] \subseteq 1..reads'[u]
      BY <1>4, <1>7
    <3>. QED
      BY <1>2, <2>4, <3>1, Zenon DEF ToCome
  <2>5. TaskOf(u)' /\ SeenOf(u)'
    <3>1. TaskOf(u)'
      BY <1>1, <1>2, ZenonT(40) DEF TaskOf
    <3>2. \A i \in DOMAIN seen[u] : seen[u][i][2] <= n
      <4>1. \A i \in DOMAIN seen[u] : seen[u][i][2] \in Nat
        <5>1. seen[u] \in Seq(Emitted)
          BY <1>1 DEF TypeOK
        <5>. QED
          BY <5>1 DEF Emitted
      <4>. QED
        BY <1>3, <1>4, <4>1, SMTT(30)
    <3>3. SeenOf(u)'
      BY <1>1, <1>2, <1>7, <3>2, Zenon DEF SeenOf
    <3>. QED
      BY <3>1, <3>3
  <2>6. (Opens(u)' <=> Opens(u)) /\ (Closes(u)' <=> Closes(u))
    <3>1. Encode(Opened(id[u], req[u])).kind # w.kind /\ Encode(Closed(id[u])).kind # w.kind
      BY <1>6, CodeFacts, KindFacts
    <3>2. Encode(Opened(id[u], req[u])) \notin E /\ Encode(Closed(id[u])) \notin E
      BY <1>9, <3>1, Zenon
    <3>. QED
      BY <1>2, <1>10, <3>2, ZenonT(40) DEF Opens, Closes
  <2>7. engine => StashOf(u)'
    BY <1>1, <1>2, <2>6, Zenon DEF StashOf
  <2>8. engine /\ throws = 0 => StepOf(u)'
    BY <1>1, <1>2, <2>6, Zenon DEF StepOf
  <2>9. \A x \in E : ToCome(x, u)'
    BY <1>9, <2>2, Zenon
  <2>. QED
    BY <1>2, <1>10, <2>1, <2>3, <2>4, <2>5, <2>7, <2>8, <2>9, ZenonT(40) DEF TaskStep
<1>. QED
  <2>1. Numbered(id') /\ Numbered(req')
    BY <1>1, <1>2, ZenonT(40)
  <2>. QED
    BY <1>8, <1>10, <1>11, <2>1, TaskKeep, Zenon

\* The end of the runtime and of every task in it.
LEMMA TeardownKeeps ==
    ASSUME IInv, Teardown
    PROVE  IInv'
<1>. USE DEF drainVars, sdkVars
<1>1. /\ TypeOK /\ TaskType /\ Stream /\ PendingFacts /\ Numbered(req) /\ Numbered(id)
      /\ TaskFacts /\ SeenFacts /\ InOrder /\ SocketFacts /\ HookFacts /\ BatchFacts
    BY TypeTask, Zenon DEF IInv
<1>2. /\ ~engine /\ senders' = FALSE
      /\ task' = [u \in Upgrades |->
                     IF task[u] \in {"rejected", "closed"} THEN task[u] ELSE "dropped"]
      /\ UNCHANGED <<req, id, reads, reply, queue, dropped, drainVars, tsfn, turn, sdkVars>>
    BY Zenon DEF Teardown
<1>3. task' \in [Upgrades -> Phases]
    BY <1>2, Zenon DEF Phases
<1>4. TypeOK'
  <2>1. /\ task' \in [Upgrades -> {"upgrade", "await", "open", "live", "closed", "rejected", "dropped"}]
        /\ senders' \in BOOLEAN
    BY <1>2, <1>3, Zenon DEF Phases
  <2>. QED
    BY <1>1, <1>2, <2>1, Zenon DEF TypeOK
<1>5. Stream' /\ Pending' = Pending
    BY <1>1, <1>2, ZenonT(40) DEF Stream, Pending, Buffered
<1>6. ASSUME NEW u \in Upgrades
      PROVE  \/ task'[u] = task[u] /\ task[u] \in {"rejected", "closed"}
             \/ task'[u] = "dropped"
    BY <1>2
<1>7. TaskFacts'
  <2>. SUFFICES ASSUME NEW u \in Upgrades PROVE TaskOf(u)'
    BY DEF TaskFacts
  <2>1. TaskOf(u)
    BY <1>1, Zenon DEF TaskFacts
  <2>. QED
    BY <1>2, <1>6, <2>1, Zenon DEF TaskOf
<1>8. SeenFacts'
  <2>. SUFFICES ASSUME NEW u \in Upgrades PROVE SeenOf(u)'
    BY DEF SeenFacts
  <2>1. SeenOf(u)
    BY <1>1, Zenon DEF SeenFacts
  <2>. QED
    BY <1>2, <1>6, <2>1, Zenon DEF SeenOf
<1>9. PendingFacts'
  <2>. SUFFICES ASSUME NEW w \in Pending PROVE \E u \in Upgrades : AsksFor(w, u)' \/ ToCome(w, u)'
    BY <1>5, Zenon DEF PendingFacts
  <2>1. PICK u \in Upgrades : AsksFor(w, u) \/ ToCome(w, u)
    BY <1>1, Zenon DEF PendingFacts
  <2>2. AsksFor(w, u) => AsksFor(w, u)'
    BY <1>2, Zenon DEF AsksFor
  <2>3. ToCome(w, u) => ToCome(w, u)'
    BY <1>2, <1>6, Zenon DEF ToCome
  <2>. QED
    BY <2>1, <2>2, <2>3, Zenon
<1>10. Numbered(req)' /\ Numbered(id)'
    BY <1>1, <1>2, Zenon
<1>11. InOrder'
    BY <1>1, <1>2, ZenonT(40) DEF InOrder
<1>12. SocketFacts' /\ HookFacts'
    BY <1>1, <1>2, Zenon DEF SocketFacts, HookFacts
<1>13. StashFacts' /\ StepFacts' /\ BatchFacts'
    BY <1>1, <1>2, Zenon DEF StashFacts, StepFacts, BatchFacts
<1>. QED
    BY <1>4, <1>5, <1>7, <1>8, <1>9, <1>10, <1>11, <1>12, <1>13, Zenon DEF IInv

-----------------------------------------------------------------------------
(* The dispatch of the records of a connection.                            *)

\* What the Socket of u has emitted is in order.
InOrderOf(u) ==
    \A i, j \in DOMAIN seen[u] : i < j =>
        /\ seen[u][1][1] = "connection" /\ seen[u][j][1] # "connection"
        /\ seen[u][i][1] # "close"
        /\ seen[u][j][1] = "message" => seen[u][i][2] < seen[u][j][2]

\* A record of u is dispatched: what that must establish for u.
SdkStep(u) ==
    /\ Dispatched /\ ToCome(Head(turn), u)
    /\ UNCHANGED <<task, req, id, reads, reply, engine, hooks, drain, batch>>
    /\ \A v \in Upgrades \ {u} : seen'[v] = seen[v]
    /\ \A x \in Pending' : ToCome(x, u) => ToCome(x, u)'
    /\ SeenOf(u)' /\ InOrderOf(u)'
    /\ \A c \in DOMAIN sockets' : c # id[u] => c \in DOMAIN sockets
    /\ \A c \in DOMAIN sockets : c # id[u] => c \in DOMAIN sockets' /\ sockets'[c] = sockets[c]
    /\ id[u] \in DOMAIN sockets' => seen'[u] # <<>> /\ NoClose(seen'[u])
    /\ engine => StashOf(u)'
    /\ \A r \in DOMAIN stash : r # req[u] => r \in DOMAIN stash' /\ stash'[r] = stash[r]
    /\ engine /\ throws' = 0 => throws = 0 /\ turn' = Tail(turn) /\ StepOf(u)'

\* A record dispatched by the SDK, which touches the entries of its own upgrade
\* only, keeps the invariant.
LEMMA SdkKeep ==
    ASSUME IInv, TypeOK', NEW u \in Upgrades, SdkStep(u)
    PROVE  IInv'
<1>0. PICK w : w = Head(turn)
    OBVIOUS
<1>1. /\ TypeOK /\ Stream /\ Numbered(req) /\ Numbered(id) /\ TaskFacts /\ PendingFacts /\ SeenFacts
      /\ InOrder /\ SocketFacts /\ HookFacts /\ StashFacts /\ StepFacts /\ BatchFacts
    BY Zenon DEF IInv
<1>2. Dispatched /\ ToCome(w, u) /\ id[u] # None /\ req[u] # None
  <2>1. Dispatched /\ ToCome(w, u)
    BY <1>0, Zenon DEF SdkStep
  <2>2. TaskOf(u)
    BY <1>1, Zenon DEF TaskFacts
  <2>. QED
    BY <2>1, <2>2, Zenon DEF ToCome, TaskOf
<1>3. UNCHANGED <<task, req, id, reads, reply, engine, hooks, drain, batch>>
    BY Zenon DEF SdkStep
<1>4. /\ Stream' /\ Pending' \subseteq Pending
      /\ turn' = Tail(turn) => Pending \subseteq Pending' \cup {w}
    BY <1>0, <1>1, <1>2, StreamDispatch, Zenon
<1>5. \A v \in Upgrades : v # u => Same(v)
    BY <1>3, Zenon DEF SdkStep, Same, SameTask
<1>6. \A v \in Upgrades : SameTask(v)
    BY <1>3, Zenon DEF SameTask
<1>7. ASSUME NEW v \in Upgrades, v # u
      PROVE  /\ Opens(v)' => Opens(v)
             /\ turn' = Tail(turn) => (Opens(v)' <=> Opens(v)) /\ (Closes(v)' <=> Closes(v))
  <2>1. w.slot = id[u]
    BY <1>2, ToComeFacts, Zenon
  <2>2. Encode(Opened(id[v], req[v])) \notin {w} /\ Encode(Closed(id[v])) \notin {w}
    BY <1>1, <1>2, <1>7, <2>1, OtherRecords, Zenon
  <2>. QED
    BY <1>3, <1>4, <2>2, Zenon DEF Opens, Closes
<1>8. TaskFacts'
    BY <1>1, <1>3, Zenon DEF TaskFacts, TaskOf
<1>9. SeenFacts'
    BY <1>1, <1>5, SameFacts, Zenon DEF SeenFacts, SdkStep
<1>10. PendingFacts'
  <2>. SUFFICES ASSUME NEW x \in Pending' PROVE \E v \in Upgrades : AsksFor(x, v)' \/ ToCome(x, v)'
    BY Zenon DEF PendingFacts
  <2>1. PICK v \in Upgrades : AsksFor(x, v) \/ ToCome(x, v)
    BY <1>1, <1>4, Zenon DEF PendingFacts
  <2>2. AsksFor(x, v) => AsksFor(x, v)'
    BY <1>3, Zenon DEF AsksFor
  <2>3. ToCome(x, v) => ToCome(x, v)'
    <3>1. CASE v = u
      BY <3>1, Zenon DEF SdkStep
    <3>2. CASE v # u
      BY <1>5, <3>2, SameFacts, Zenon
    <3>. QED
      BY <3>1, <3>2, Zenon
  <2>. QED
    BY <2>1, <2>2, <2>3, Zenon
<1>11. InOrder'
  <2>. SUFFICES ASSUME NEW v \in Upgrades PROVE InOrderOf(v)'
    BY Zenon DEF InOrder, InOrderOf
  <2>1. CASE v = u
    BY <2>1, Zenon DEF SdkStep
  <2>2. CASE v # u
    <3>1. InOrderOf(v) /\ seen'[v] = seen[v]
      BY <1>1, <1>5, <2>2, Zenon DEF InOrder, InOrderOf, Same
    <3>. QED
      BY <3>1, Zenon DEF InOrderOf
  <2>. QED
    BY <2>1, <2>2, Zenon
<1>12. SocketFacts'
  <2>. SUFFICES ASSUME NEW c \in DOMAIN sockets'
                PROVE  \E v \in Upgrades : id[v] = c /\ seen'[v] # <<>> /\ NoClose(seen'[v])
    BY <1>3, Zenon DEF SocketFacts
  <2>1. CASE c = id[u]
    BY <2>1, Zenon DEF SdkStep
  <2>2. CASE c # id[u]
    <3>1. c \in DOMAIN sockets
      BY <2>2, Zenon DEF SdkStep
    <3>2. PICK v \in Upgrades : id[v] = c /\ seen[v] # <<>> /\ NoClose(seen[v])
      BY <1>1, <3>1, Zenon DEF SocketFacts
    <3>3. seen'[v] = seen[v]
      BY <1>5, <2>2, <3>2, Zenon DEF Same
    <3>. QED
      BY <3>2, <3>3, Zenon
  <2>. QED
    BY <2>1, <2>2, Zenon
<1>13. HookFacts' /\ Numbered(req)' /\ Numbered(id)' /\ BatchFacts'
    BY <1>1, <1>3, Zenon DEF HookFacts, BatchFacts
<1>14. StashFacts'
  <2>. SUFFICES ASSUME engine, NEW v \in Upgrades PROVE StashOf(v)'
    BY <1>3, Zenon DEF StashFacts
  <2>1. CASE v = u
    BY <2>1, Zenon DEF SdkStep
  <2>2. CASE v # u
    <3>1. req[v] # req[u]
      BY <1>1, <1>2, <2>2, Zenon DEF Numbered
    <3>2. req[v] \in DOMAIN stash => req[v] \in DOMAIN stash' /\ stash'[req[v]] = stash[req[v]]
      BY <3>1, Zenon DEF SdkStep
    <3>3. StashOf(v) /\ SameTask(v) /\ (Opens(v)' => Opens(v))
      BY <1>1, <1>6, <1>7, <2>2, Zenon DEF StashFacts
    <3>. QED
      BY <3>2, <3>3, SameStash, Zenon
  <2>. QED
    BY <2>1, <2>2, Zenon
<1>15. StepFacts'
  <2>. SUFFICES ASSUME engine, throws' = 0, NEW v \in Upgrades PROVE StepOf(v)'
    BY <1>3, Zenon DEF StepFacts
  <2>0. throws = 0 /\ turn' = Tail(turn) /\ StepOf(u)'
    BY Zenon DEF SdkStep
  <2>1. CASE v = u
    BY <2>0, <2>1, Zenon
  <2>2. CASE v # u
    <3>1. id[v] # id[u]
      BY <1>1, <1>2, <2>2, OtherIds, Zenon
    <3>2. /\ (id[v] \in DOMAIN sockets') <=> (id[v] \in DOMAIN sockets)
          /\ id[v] \in DOMAIN sockets => sockets'[id[v]] = sockets[id[v]]
      BY <3>1, Zenon DEF SdkStep
    <3>3. StepOf(v) /\ SameTask(v) /\ (Opens(v)' <=> Opens(v)) /\ (Closes(v)' <=> Closes(v))
      BY <1>1, <1>6, <1>7, <2>0, <2>2, Zenon DEF StepFacts
    <3>. QED
      BY <3>2, <3>3, SameStep, Zenon
  <2>. QED
    BY <2>1, <2>2, Zenon
<1>. QED
    BY <1>4, <1>8, <1>9, <1>10, <1>11, <1>12, <1>13, <1>14, <1>15, Zenon DEF IInv

\* The types, where only the SDK and the answers change.
SdkType ==
    /\ reply \in [Upgrades -> {"none", "accept", "reject"}]
    /\ turn \in Seq(Records) /\ engine \in BOOLEAN
    /\ DOMAIN sockets \subseteq Numbers /\ DOMAIN stash \subseteq Numbers
    /\ hooks \subseteq Numbers /\ unsettled \subseteq Numbers
    /\ throws \in 0..MaxThrows /\ seen \in [Upgrades -> Seq(Emitted)]

\* The types of what the SDK assigns, apart.
LEMMA TypeSdk == ASSUME TypeOK PROVE SdkType
    BY Zenon DEF TypeOK, SdkType

\* A step of the SDK keeps the types if it keeps those it assigns.
LEMMA SdkStepType ==
    ASSUME TypeOK, SdkType', UNCHANGED <<task, req, id, reads, queueVars, drainVars, tsfn, resolved>>
    PROVE  TypeOK'
    BY Zenon DEF TypeOK, SdkType, queueVars, drainVars

\* A handler that returns or throws.
LEMMA HandledFacts ==
    ASSUME TypeOK, Handled
    PROVE  /\ turn' = Tail(turn) \/ turn' = <<>>
           /\ throws' \in 0..MaxThrows /\ (throws' = 0 => throws = 0 /\ turn' = Tail(turn))
<1>1. throws \in 0..MaxThrows /\ MaxThrows \in Nat
    BY BridgeAssumption, Zenon DEF TypeOK
<1>. QED
    BY <1>1 DEF Handled

\* The head of the flush, and whose it is.
LEMMA HeadFacts ==
    ASSUME IInv, Dispatched, Head(turn).kind # KIND_AUTHORIZE
    PROVE  \E u \in Upgrades : ToCome(Head(turn), u)
<1>1. TypeOK /\ Stream /\ PendingFacts /\ Numbered(id)
    BY Zenon DEF IInv
<1>2. Head(turn) \in Pending
    BY <1>1, StreamDispatch, Zenon
<1>. QED
    BY <1>1, <1>2, PendingWhose, Zenon

\* After a dispatched record w of u: what else of u is pending.
LEMMA AfterHead ==
    ASSUME IInv, Dispatched, NEW u \in Upgrades, NEW w, w = Head(turn), ToCome(w, u), NEW x \in Pending',
           ToCome(x, u)
    PROVE  /\ Pending' \subseteq Pending /\ x # w /\ x.kind # KIND_OPEN /\ w.kind # KIND_CLOSE
           /\ w.kind = KIND_TEXT /\ x.kind = KIND_TEXT => w.payload[1] < x.payload[1]
<1>1. TypeOK /\ Stream
    BY Zenon DEF IInv
<1>2. Before({w}, Pending') /\ Pending' \subseteq Pending
    BY <1>1, StreamDispatch, Zenon
<1>3. Follows(w, x)
    BY <1>2, Zenon DEF Before
<1>4. /\ w.slot = id[u] /\ w.kind \in {KIND_TEXT, KIND_OPEN, KIND_CLOSE}
      /\ w.kind = KIND_TEXT => w.payload[1] \in 1..reads[u]
    BY ToComeFacts, Zenon
<1>5. x.slot = id[u] /\ x.kind \in {KIND_TEXT, KIND_OPEN, KIND_CLOSE}
    BY ToComeFacts, Zenon
<1>6. /\ w.kind # KIND_CLOSE /\ x.kind # KIND_OPEN
      /\ w.kind = KIND_TEXT /\ x.kind = KIND_TEXT => w.payload[1] < x.payload[1]
    BY <1>3, <1>4, <1>5, KindFacts, Zenon DEF Follows
<1>7. x # w
  <2>. SUFFICES ASSUME x = w PROVE FALSE
    OBVIOUS
  <2>1. w.kind = KIND_TEXT
    BY <1>4, <1>6, Zenon
  <2>2. w.payload[1] \in 1..reads[u] /\ w.payload[1] < w.payload[1]
    BY <1>4, <1>6, <2>1, Zenon
  <2>. QED
    BY <2>2
<1>. QED
    BY <1>2, <1>6, <1>7, Zenon

\* Nothing else of an upgrade than what is to come for it is pending.
LEMMA StillPending ==
    ASSUME IInv, Dispatched, NEW u \in Upgrades, NEW w, w = Head(turn), ToCome(w, u)
    PROVE  /\ Encode(Opened(id[u], req[u])) \notin Pending'
           /\ w.kind = KIND_CLOSE => Encode(Closed(id[u])) \notin Pending'
           /\ turn' = Tail(turn) /\ w.kind # KIND_OPEN =>
                 (Encode(Opened(id[u], req[u])) \in Pending' <=> Opens(u))
           /\ turn' = Tail(turn) /\ w.kind # KIND_CLOSE =>
                 (Encode(Closed(id[u])) \in Pending' <=> Closes(u))
<1>. DEFINE o == Encode(Opened(id[u], req[u]))
            c == Encode(Closed(id[u]))
<1>1. TypeOK /\ Stream /\ PendingFacts /\ Numbered(id)
    BY Zenon DEF IInv
<1>2. Pending' \subseteq Pending /\ (turn' = Tail(turn) => Pending \subseteq Pending' \cup {w})
    BY <1>1, StreamDispatch, ZenonT(40)
<1>3. o.kind = KIND_OPEN /\ o.slot = id[u] /\ c.kind = KIND_CLOSE /\ c.slot = id[u]
    BY CodeFacts
<1>. HIDE DEF o, c
<1>4. ASSUME NEW x \in Pending', x.slot = id[u], x.kind # KIND_AUTHORIZE
      PROVE  x.kind # KIND_OPEN /\ w.kind # KIND_CLOSE
  <2>1. ToCome(x, u)
    BY <1>1, <1>2, <1>4, PendingWhose, Zenon
  <2>. QED
    BY <2>1, AfterHead
<1>5. o \notin Pending' /\ (w.kind = KIND_CLOSE => c \notin Pending')
    BY <1>3, <1>4, KindFacts, Zenon
<1>6. turn' = Tail(turn) /\ w.kind # KIND_OPEN => (o \in Pending' <=> o \in Pending)
    BY <1>2, <1>3, Zenon
<1>7. turn' = Tail(turn) /\ w.kind # KIND_CLOSE => (c \in Pending' <=> c \in Pending)
    BY <1>2, <1>3, Zenon
<1>. QED
    BY <1>5, <1>6, <1>7, Zenon DEF o, c, Opens, Closes

\* A record nothing comes of, for there is no Socket, or no engine any more.
LEMMA SkipKeeps ==
    ASSUME IInv, Dispatched, NEW u \in Upgrades, NEW w, w = Head(turn), ToCome(w, u),
           turn' = Tail(turn), UNCHANGED <<taskVars, queueVars, drainVars, tsfn, engine, sockets, stash,
                                           hooks, unsettled, resolved, throws, seen>>,
           engine => w.kind # KIND_OPEN /\ id[u] \notin DOMAIN sockets
    PROVE  IInv'
<1>. USE DEF taskVars, queueVars, drainVars
<1>1. /\ TypeOK /\ SdkType /\ Stream /\ InOrder /\ SocketFacts /\ TaskOf(u) /\ SeenOf(u) /\ Numbered(id)
      /\ (engine => StashOf(u)) /\ (engine /\ throws = 0 => StepOf(u))
    BY OfTask, TypeSdk, Zenon DEF IInv
<1>2. TypeOK'
  <2>1. turn' \in Seq(Records)
    BY <1>1, StreamDispatch, Zenon
  <2>2. SdkType'
    BY <1>1, <2>1, Zenon DEF SdkType
  <2>. QED
    BY <1>1, <2>2, SdkStepType, Zenon
<1>3. Same(u) /\ SameTask(u)
    BY Zenon DEF Same, SameTask
<1>4. SeenOf(u)' /\ \A x : ToCome(x, u) => ToCome(x, u)'
    BY <1>1, <1>3, SameFacts, Zenon
<1>5. InOrderOf(u)'
    BY <1>1, ZenonT(40) DEF InOrder, InOrderOf
<1>6. id[u] \in DOMAIN sockets => seen[u] # <<>> /\ NoClose(seen[u])
  <2>. SUFFICES ASSUME id[u] \in DOMAIN sockets PROVE seen[u] # <<>> /\ NoClose(seen[u])
    OBVIOUS
  <2>1. PICK v \in Upgrades : id[v] = id[u] /\ seen[v] # <<>> /\ NoClose(seen[v])
    BY <1>1, Zenon DEF SocketFacts
  <2>2. id[u] # None
    BY Zenon DEF ToCome
  <2>. QED
    BY <1>1, <2>1, <2>2, OtherIds, Zenon
<1>7. /\ Encode(Opened(id[u], req[u])) \notin Pending'
      /\ w.kind = KIND_CLOSE => Encode(Closed(id[u])) \notin Pending'
      /\ w.kind # KIND_OPEN => (Encode(Opened(id[u], req[u])) \in Pending' <=> Opens(u))
      /\ w.kind # KIND_CLOSE => (Encode(Closed(id[u])) \in Pending' <=> Closes(u))
    BY StillPending, Zenon
<1>8. ~Opens(u)' /\ (w.kind = KIND_CLOSE => ~Closes(u)')
      /\ (w.kind # KIND_OPEN => ~Opens(u)) /\ (w.kind # KIND_CLOSE => (Closes(u)' <=> Closes(u)))
    BY <1>7, Zenon DEF Opens, Closes
<1>9. engine => StashOf(u)'
    BY <1>1, <1>8, Zenon DEF StashOf
<1>10. engine /\ throws = 0 => StepOf(u)'
  <2>. SUFFICES ASSUME engine, throws = 0 PROVE StepOf(u)'
    OBVIOUS
  <2>1. StepOf(u) /\ id[u] \notin DOMAIN sockets /\ w.kind # KIND_OPEN
    BY <1>1, Zenon
  <2>2. CASE w.kind = KIND_CLOSE
    <3>1. task[u] # "live"
      BY <2>2, ToComeFacts, Zenon
    <3>. QED
      BY <1>8, <2>1, <2>2, <3>1, Zenon DEF StepOf
  <2>3. CASE w.kind # KIND_CLOSE
    BY <1>8, <2>1, <2>3, Zenon DEF StepOf
  <2>. QED
    BY <2>2, <2>3, ZenonT(40)
<1>11. SdkStep(u)
    BY <1>4, <1>5, <1>6, <1>9, <1>10, ZenonT(40) DEF SdkStep
<1>. QED
    BY <1>2, <1>11, SdkKeep, Zenon

\* The events t of a Socket are s and then e.
Longer(s, e, t) ==
    /\ t # <<>> /\ t[1][1] = IF s = <<>> THEN e[1] ELSE s[1][1]
    /\ \A i \in DOMAIN t : t[i] = e \/ (i \in DOMAIN s /\ t[i] = s[i])
    /\ \A i, j \in DOMAIN t : i < j => /\ i \in DOMAIN s /\ t[i] = s[i] /\ s # <<>>
                                       /\ \/ j \in DOMAIN s /\ t[j] = s[j]
                                          \/ j \notin DOMAIN s /\ t[j] = e
    /\ e[1] # "close" /\ NoClose(s) => NoClose(t)

\* One more event of a Socket.
LEMMA SeenAppend ==
    ASSUME NEW s \in Seq(Emitted), NEW e \in Emitted, NEW t, t = Append(s, e)
    PROVE  Longer(s, e, t)
<1>1. /\ t \in Seq(Emitted) /\ Len(s) \in Nat /\ Len(t) = Len(s) + 1
      /\ DOMAIN s = 1..Len(s) /\ DOMAIN t = 1..(Len(s) + 1)
      /\ \A i \in 1..Len(s) : t[i] = s[i]
      /\ t[Len(s) + 1] = e
    BY AppendFacts
<1>2. t # <<>> /\ (s = <<>> <=> Len(s) = 0)
    BY <1>1
<1>3. t[1] = IF s = <<>> THEN e ELSE s[1]
  <2>1. CASE s = <<>>
    BY <1>1, <1>2, <2>1
  <2>2. CASE s # <<>>
    <3>1. 1 \in 1..Len(s)
      BY <1>1, <1>2, <2>2
    <3>. QED
      BY <1>1, <2>2, <3>1, Zenon
  <2>. QED
    BY <2>1, <2>2, Zenon
<1>4. \A i \in DOMAIN t : (i \in DOMAIN s /\ t[i] = s[i]) \/ (i = Len(s) + 1 /\ i \notin DOMAIN s /\ t[i] = e)
    BY <1>1
<1>5. \A i, j \in DOMAIN t : i < j => i \in DOMAIN s /\ s # <<>>
    BY <1>1, <1>2
<1>6. e[1] # "close" /\ NoClose(s) => NoClose(t)
    BY <1>4, Zenon DEF NoClose
<1>. QED
    BY <1>1, <1>2, <1>3, <1>4, <1>5, <1>6, ZenonT(40) DEF Longer

\* An emission of the Socket of u, in place after what it has emitted.
LEMMA EmitsFacts ==
    ASSUME IInv, NEW u \in Upgrades, id[u] # None, NEW what \in {"connection", "message", "close"},
           NEW n \in Nat, Emits(id[u], what, n)
    PROVE  /\ seen' \in [Upgrades -> Seq(Emitted)] /\ seen'[u] = Append(seen[u], <<what, n>>)
           /\ \A v \in Upgrades \ {u} : seen'[v] = seen[v]
           /\ seen[u] \in Seq(Emitted) /\ <<what, n>> \in Emitted
<1>1. Numbered(id) /\ seen \in [Upgrades -> Seq(Emitted)]
    BY Zenon DEF IInv, TypeOK
<1>2. Upgrade(id, id[u]) = u
    BY <1>1, UpgradeFacts, Zenon
<1>3. seen' = [seen EXCEPT ![u] = Append(seen[u], <<what, n>>)]
    BY <1>2, Zenon DEF Emits
<1>4. <<what, n>> \in Emitted /\ seen[u] \in Seq(Emitted)
    BY <1>1, Zenon DEF Emitted
<1>5. Append(seen[u], <<what, n>>) \in Seq(Emitted)
    BY <1>4, AppendFacts, Zenon
<1>. QED
    BY <1>1, <1>3, <1>4, <1>5, Zenon

\* onOpen.
LEMMA OnOpenKeeps ==
    ASSUME IInv, OnOpen
    PROVE  IInv'
<1>. USE DEF taskVars, queueVars, drainVars
<1>0. PICK w : w = Head(turn)
    OBVIOUS
<1>1. /\ turn # <<>> /\ w.kind = KIND_OPEN
      /\ UNCHANGED <<taskVars, queueVars, drainVars, tsfn, engine, hooks, unsettled, resolved>>
    BY <1>0, Zenon DEF OnOpen
<1>2. TypeOK /\ SdkType /\ Stream
    BY TypeSdk, Zenon DEF IInv
<1>3. Dispatched
  <2>1. engine => turn' = Tail(turn) \/ turn' = <<>>
    BY <1>2, HandledFacts, Zenon DEF OnOpen
  <2>. QED
    BY <1>1, <2>1, Zenon DEF OnOpen, Dispatched
<1>4. PICK u \in Upgrades : ToCome(w, u)
    BY <1>0, <1>1, <1>3, HeadFacts, KindFacts, Zenon
<1>5. w = Encode(Opened(id[u], req[u])) /\ seen[u] = <<>> /\ w.slot = id[u]
    BY <1>1, <1>4, ToComeFacts, Zenon
<1>6. /\ TaskOf(u) /\ SeenOf(u) /\ (engine => StashOf(u)) /\ (engine /\ throws = 0 => StepOf(u))
    BY OfTask, Zenon
<1>7. id[u] # None /\ req[u] # None /\ task[u] \in {"live", "closed", "dropped"}
    BY <1>4, <1>6, Zenon DEF ToCome, TaskOf
<1>8. AuthReq(w) = req[u]
  <2>1. w.payload = <<req[u]>>
    BY <1>5, <1>7, EncodeFacts
  <2>. QED
    BY <2>1, AuthReqOf, Zenon
<1>9. CASE ~engine
  <2>1. turn' = Tail(turn) /\ UNCHANGED <<sockets, stash, throws, seen>>
    BY <1>9, Zenon DEF OnOpen
  <2>. QED
    BY <1>0, <1>1, <1>3, <1>4, <1>9, <2>1, SkipKeeps, ZenonT(40)
<1>10. CASE engine
  <2>1. /\ sockets' = Put(sockets, id[u], IF req[u] \in DOMAIN stash THEN stash[req[u]] ELSE None)
        /\ stash' = Without(stash, req[u])
        /\ Emits(id[u], "connection", 0) /\ Handled
    BY <1>0, <1>5, <1>8, <1>10, Zenon DEF OnOpen
  <2>2. throws' \in 0..MaxThrows /\ (throws' = 0 => throws = 0 /\ turn' = Tail(turn))
    BY <1>2, <2>1, HandledFacts, Zenon
  <2>3. /\ seen' \in [Upgrades -> Seq(Emitted)] /\ seen'[u] = Append(seen[u], <<"connection", 0>>)
        /\ \A v \in Upgrades \ {u} : seen'[v] = seen[v]
    BY <1>7, <2>1, EmitsFacts, ZenonT(40)
  <2>4. seen'[u] = << <<"connection", 0>> >>
    BY <1>5, <2>3
  <2>5. /\ DOMAIN sockets' = DOMAIN sockets \cup {id[u]}
        /\ \A c \in DOMAIN sockets : c # id[u] => sockets'[c] = sockets[c]
        /\ sockets'[id[u]] = IF req[u] \in DOMAIN stash THEN stash[req[u]] ELSE None
    BY <2>1, Zenon DEF Put
  <2>6. /\ DOMAIN stash' = DOMAIN stash \ {req[u]}
        /\ \A r \in DOMAIN stash : r # req[u] => stash'[r] = stash[r]
    BY <2>1, Zenon DEF Without
  <2>7. id[u] \in Numbers
    BY <1>2, <1>7, Zenon DEF TypeOK
  <2>8. TypeOK'
    <3>1. turn' \in Seq(Records)
      BY <1>2, <1>3, StreamDispatch, Zenon
    <3>2. DOMAIN sockets' \subseteq Numbers /\ DOMAIN stash' \subseteq Numbers
      BY <1>2, <2>5, <2>6, <2>7, Zenon DEF SdkType
    <3>3. SdkType'
      BY <1>1, <1>2, <2>2, <2>3, <3>1, <3>2, ZenonT(40) DEF SdkType
    <3>. QED
      BY <1>1, <1>2, <3>3, SdkStepType, Zenon
  <2>9. /\ seen'[u] # <<>> /\ NoClose(seen'[u]) /\ seen'[u][1][1] = "connection"
        /\ DOMAIN seen'[u] = {1} /\ seen'[u][1][2] = 0
    BY <2>4 DEF NoClose
  <2>10. reads[u] \in Nat
    BY <1>2, Zenon DEF TypeOK
  <2>11. ASSUME NEW x \in Pending', ToCome(x, u) PROVE ToCome(x, u)'
    <3>1. x.kind # KIND_OPEN
      BY <1>0, <1>3, <1>4, <2>11, AfterHead, Zenon
    <3>2. x.kind = KIND_TEXT => x.payload[1] \in 1..reads[u] /\ x = Encode(Message(id[u], x.payload[1]))
      BY <2>11, ToComeFacts, ZenonT(40)
    <3>3. x.kind = KIND_TEXT => \A j \in DOMAIN seen'[u] : seen'[u][j][2] < x.payload[1]
      BY <2>9, <2>10, <3>2
    <3>4. x.kind = KIND_CLOSE => x = Encode(Closed(id[u])) /\ task[u] # "live"
      BY <2>11, ToComeFacts, Zenon
    <3>5. x.kind \in {KIND_TEXT, KIND_CLOSE}
      BY <2>11, <3>1, ToComeFacts, ZenonT(40)
    <3>. QED
      BY <1>1, <1>7, <2>9, <3>2, <3>3, <3>4, <3>5, ZenonT(40) DEF ToCome
  <2>12. SeenOf(u)'
    BY <1>1, <1>7, <2>9, <2>10, SMTT(30) DEF SeenOf
  <2>13. InOrderOf(u)'
    BY <2>9 DEF InOrderOf
  <2>14. Encode(Opened(id[u], req[u])) \notin Pending'
         /\ (turn' = Tail(turn) => (Encode(Closed(id[u])) \in Pending' <=> Closes(u)))
    BY <1>0, <1>1, <1>3, <1>4, StillPending, KindFacts, ZenonT(40)
  <2>15. ~Opens(u)' /\ (turn' = Tail(turn) => (Closes(u)' <=> Closes(u)))
    BY <1>1, <2>14, Zenon DEF Opens, Closes
  <2>16. Opens(u)
    <3>1. w \in Pending
      BY <1>0, <1>2, <1>3, StreamDispatch, Zenon
    <3>. QED
      BY <1>5, <3>1, Zenon DEF Opens
  <2>17. task[u] \in {"live", "closed"} /\ reply[u] = "accept"
    BY <1>6, <1>7, <1>10, Zenon DEF StashOf, TaskOf
  <2>18. StashOf(u)'
    BY <1>1, <2>15, <2>17, Zenon DEF StashOf
  <2>19. throws' = 0 => StepOf(u)'
    <3>. SUFFICES ASSUME throws' = 0 PROVE StepOf(u)'
      OBVIOUS
    <3>1. StepOf(u) /\ StashOf(u)
      BY <1>6, <1>10, <2>2, Zenon
    <3>2. sockets'[id[u]] = u
      BY <2>5, <2>16, <2>17, <3>1, Zenon DEF StashOf
    <3>3. task[u] = "closed" => Closes(u)'
      BY <2>2, <2>15, <2>16, <2>17, <3>1, ZenonT(40) DEF StepOf
    <3>. QED
      BY <1>1, <2>5, <2>15, <3>2, <3>3, Zenon DEF StepOf
  <2>20. SdkStep(u)
    <3>1. /\ \A c \in DOMAIN sockets' : c # id[u] => c \in DOMAIN sockets
          /\ \A c \in DOMAIN sockets : c # id[u] => c \in DOMAIN sockets' /\ sockets'[c] = sockets[c]
          /\ \A r \in DOMAIN stash : r # req[u] => r \in DOMAIN stash' /\ stash'[r] = stash[r]
      BY <2>5, <2>6, Zenon
    <3>. QED
      BY <1>0, <1>1, <1>3, <1>4, <2>2, <2>3, <2>9, <2>11, <2>12, <2>13, <2>18, <2>19, <3>1, ZenonT(40)
         DEF SdkStep
  <2>. QED
    BY <2>8, <2>20, SdkKeep, Zenon
<1>. QED
    BY <1>9, <1>10, Zenon

\* A Socket is that of the upgrade with its id, which has emitted but not closed.
LEMMA SocketOf ==
    ASSUME IInv, NEW u \in Upgrades, id[u] # None, id[u] \in DOMAIN sockets
    PROVE  seen[u] # <<>> /\ NoClose(seen[u])
<1>1. SocketFacts /\ Numbered(id)
    BY Zenon DEF IInv
<1>2. PICK v \in Upgrades : id[v] = id[u] /\ seen[v] # <<>> /\ NoClose(seen[v])
    BY <1>1, Zenon DEF SocketFacts
<1>. QED
    BY <1>1, <1>2, OtherIds, Zenon

\* onMessage.
LEMMA OnMessageKeeps ==
    ASSUME IInv, OnMessage
    PROVE  IInv'
<1>. USE DEF taskVars, queueVars, drainVars
<1>0. PICK w, n : w = Head(turn) /\ n = w.payload[1]
    OBVIOUS
<1>1. /\ turn # <<>> /\ w.kind = KIND_TEXT
      /\ UNCHANGED <<taskVars, queueVars, drainVars, tsfn, engine, sockets, stash, hooks, unsettled,
                     resolved>>
    BY <1>0, Zenon DEF OnMessage
<1>2. TypeOK /\ SdkType /\ Stream /\ InOrder
    BY TypeSdk, Zenon DEF IInv
<1>3. Dispatched
  <2>1. w.slot \in DOMAIN sockets => turn' = Tail(turn) \/ turn' = <<>>
    BY <1>0, <1>2, HandledFacts, Zenon DEF OnMessage
  <2>. QED
    BY <1>0, <1>1, <2>1, Zenon DEF OnMessage, Dispatched
<1>4. PICK u \in Upgrades : ToCome(w, u)
    BY <1>0, <1>1, <1>3, HeadFacts, KindFacts, Zenon
<1>5. /\ w.slot = id[u] /\ n \in 1..reads[u]
      /\ \A j \in DOMAIN seen[u] : seen[u][j][2] < n
    BY <1>0, <1>1, <1>4, ToComeFacts, ZenonT(40)
<1>6. /\ TaskOf(u) /\ SeenOf(u) /\ (engine => StashOf(u)) /\ (engine /\ throws = 0 => StepOf(u))
    BY OfTask, Zenon
<1>7. id[u] # None /\ reads[u] \in Nat /\ n \in Nat /\ n <= reads[u]
  <2>1. id[u] # None /\ reads[u] \in Nat
    BY <1>2, <1>4, Zenon DEF ToCome, TypeOK
  <2>. QED
    BY <1>5, <2>1
<1>8. CASE id[u] \notin DOMAIN sockets
  <2>1. turn' = Tail(turn) /\ UNCHANGED <<throws, seen>>
    BY <1>0, <1>5, <1>8, Zenon DEF OnMessage
  <2>. QED
    BY <1>0, <1>1, <1>3, <1>4, <1>8, <2>1, SkipKeeps, KindFacts, ZenonT(40)
<1>9. CASE id[u] \in DOMAIN sockets
  <2>1. Emits(id[u], "message", n) /\ Handled
    BY <1>0, <1>5, <1>9, Zenon DEF OnMessage
  <2>2. throws' \in 0..MaxThrows /\ (throws' = 0 => throws = 0 /\ turn' = Tail(turn))
    BY <1>2, <2>1, HandledFacts, Zenon
  <2>3. /\ seen' \in [Upgrades -> Seq(Emitted)] /\ seen'[u] = Append(seen[u], <<"message", n>>)
        /\ \A v \in Upgrades \ {u} : seen'[v] = seen[v]
        /\ seen[u] \in Seq(Emitted) /\ <<"message", n>> \in Emitted
    BY <1>7, <2>1, EmitsFacts, Zenon
  <2>4. TypeOK'
    <3>1. turn' \in Seq(Records)
      BY <1>2, <1>3, StreamDispatch, Zenon
    <3>2. SdkType'
      BY <1>1, <1>2, <2>2, <2>3, <3>1, Zenon DEF SdkType
    <3>. QED
      BY <1>1, <1>2, <3>2, SdkStepType, Zenon
  <2>5. seen[u] # <<>> /\ NoClose(seen[u])
    BY <1>7, <1>9, SocketOf, Zenon
  <2>. DEFINE S == seen[u]
              T == seen'[u]
              e == <<"message", n>>
  <2>6. /\ T # <<>> /\ T[1][1] = S[1][1]
        /\ \A j \in DOMAIN T : T[j] = e \/ (j \in DOMAIN S /\ T[j] = S[j])
        /\ \A a, b \in DOMAIN T : a < b => /\ a \in DOMAIN S /\ T[a] = S[a]
                                           /\ \/ b \in DOMAIN S /\ T[b] = S[b]
                                              \/ b \notin DOMAIN S /\ T[b] = e
        /\ NoClose(T)
    <3>1. e[1] = "message"
      OBVIOUS
    <3>2. /\ S \in Seq(Emitted) /\ e \in Emitted /\ T = Append(S, e) /\ S # <<>> /\ NoClose(S)
      BY <2>3, <2>5, Zenon
    <3>3. Longer(S, e, T)
      BY <3>2, SeenAppend, Zenon
    <3>. HIDE DEF S, T, e
    <3>. QED
      BY <3>1, <3>2, <3>3, Zenon DEF Longer
  <2>7. e[1] = "message" /\ e[2] = n
    OBVIOUS
  <2>8. \A j \in DOMAIN S : S[j][2] < n /\ S[j][2] <= reads[u] /\ S[j][2] \in Nat
    <3>1. \A j \in DOMAIN S : S[j][2] \in Nat
      BY <2>3 DEF Emitted
    <3>. QED
      BY <1>5, <1>7, <3>1
  <2>. HIDE DEF S, T, e
  <2>9. S[1][1] = "connection" /\ task[u] \in {"live", "closed", "dropped"}
    BY <1>6, <2>5, Zenon DEF SeenOf, S
  <2>10. ASSUME NEW x \in Pending', ToCome(x, u) PROVE ToCome(x, u)'
    <3>1. x.kind # KIND_OPEN /\ (x.kind = KIND_TEXT => n < x.payload[1])
      BY <1>0, <1>1, <1>3, <1>4, <2>10, AfterHead, ZenonT(40)
    <3>2. x.kind = KIND_TEXT => x.payload[1] \in 1..reads[u] /\ x = Encode(Message(id[u], x.payload[1]))
      BY <2>10, ToComeFacts, Zenon
    <3>3. x.kind = KIND_TEXT => \A j \in DOMAIN T : T[j][2] < x.payload[1]
      BY <1>7, <2>6, <2>7, <2>8, <3>1, <3>2, SMTT(30)
    <3>4. x.kind = KIND_CLOSE => x = Encode(Closed(id[u])) /\ task[u] # "live"
      BY <2>10, ToComeFacts, Zenon
    <3>5. x.kind \in {KIND_TEXT, KIND_CLOSE}
      BY <2>10, <3>1, ToComeFacts, Zenon
    <3>. QED
      BY <1>1, <1>7, <2>6, <2>9, <3>2, <3>3, <3>4, <3>5, ZenonT(40) DEF ToCome, T
  <2>11. SeenOf(u)'
    <3>1. \A j \in DOMAIN T : T[j][2] <= reads[u]
      BY <1>7, <2>6, <2>7, <2>8, Zenon
    <3>. QED
      BY <1>1, <1>7, <2>6, <2>9, <3>1, ZenonT(40) DEF SeenOf, T
  <2>12. InOrderOf(u)'
    <3>1. ASSUME NEW a \in DOMAIN T, NEW b \in DOMAIN T, a < b
          PROVE  /\ T[1][1] = "connection" /\ T[b][1] # "connection"
                 /\ T[a][1] # "close"
                 /\ T[b][1] = "message" => T[a][2] < T[b][2]
      <4>1. T[1][1] = "connection" /\ a \in DOMAIN S /\ T[a] = S[a] /\ T[a][1] # "close"
        BY <2>6, <2>9, <3>1, Zenon DEF NoClose
      <4>2. CASE b \in DOMAIN S /\ T[b] = S[b]
        <5>1. InOrderOf(u)
          BY <1>2, Zenon DEF InOrder, InOrderOf
        <5>. QED
          BY <3>1, <4>1, <4>2, <5>1, Zenon DEF InOrderOf, S
      <4>3. CASE T[b] = e
        BY <2>7, <2>8, <4>1, <4>3, Zenon
      <4>. QED
        BY <2>6, <3>1, <4>2, <4>3, Zenon
    <3>. QED
      BY <3>1, Zenon DEF InOrderOf, T
  <2>13. Encode(Opened(id[u], req[u])) \notin Pending'
         /\ (turn' = Tail(turn) => /\ Encode(Opened(id[u], req[u])) \in Pending' <=> Opens(u)
                                   /\ Encode(Closed(id[u])) \in Pending' <=> Closes(u))
    BY <1>0, <1>1, <1>3, <1>4, StillPending, KindFacts, ZenonT(40)
  <2>14. ~Opens(u)' /\ (turn' = Tail(turn) => (Opens(u)' <=> Opens(u)) /\ (Closes(u)' <=> Closes(u)))
    BY <1>1, <2>13, Zenon DEF Opens, Closes
  <2>15. SameTask(u)
    BY <1>1, Zenon DEF SameTask
  <2>16. engine => StashOf(u)'
    BY <1>1, <1>6, <2>14, <2>15, SameStash, Zenon
  <2>17. engine /\ throws' = 0 => StepOf(u)'
    BY <1>1, <1>6, <2>2, <2>14, <2>15, SameStep, ZenonT(40)
  <2>18. SdkStep(u)
    BY <1>0, <1>1, <1>3, <1>4, <2>2, <2>3, <2>6, <2>10, <2>11, <2>12, <2>16, <2>17, ZenonT(40)
       DEF SdkStep, T
  <2>. QED
    BY <2>4, <2>18, SdkKeep
<1>. QED
    BY <1>8, <1>9, Zenon

\* onClose.
LEMMA OnCloseKeeps ==
    ASSUME IInv, OnClose
    PROVE  IInv'
<1>. USE DEF taskVars, queueVars, drainVars
<1>0. PICK w : w = Head(turn)
    OBVIOUS
<1>1. /\ turn # <<>> /\ w.kind = KIND_CLOSE
      /\ UNCHANGED <<taskVars, queueVars, drainVars, tsfn, engine, stash, hooks, unsettled, resolved>>
    BY <1>0, Zenon DEF OnClose
<1>2. TypeOK /\ SdkType /\ Stream /\ InOrder
    BY TypeSdk, Zenon DEF IInv
<1>3. Dispatched
  <2>1. w.slot \in DOMAIN sockets => turn' = Tail(turn) \/ turn' = <<>>
    BY <1>0, <1>2, HandledFacts, Zenon DEF OnClose
  <2>. QED
    BY <1>0, <1>1, <2>1, Zenon DEF OnClose, Dispatched
<1>4. PICK u \in Upgrades : ToCome(w, u)
    BY <1>0, <1>1, <1>3, HeadFacts, KindFacts, ZenonT(40)
<1>5. w.slot = id[u] /\ w = Encode(Closed(id[u])) /\ task[u] # "live"
    BY <1>1, <1>4, ToComeFacts, ZenonT(40)
<1>6. /\ TaskOf(u) /\ SeenOf(u) /\ (engine => StashOf(u)) /\ (engine /\ throws = 0 => StepOf(u))
    BY OfTask, Zenon
<1>7. id[u] # None /\ task[u] \in {"closed", "dropped"} /\ reads[u] \in Nat
    BY <1>2, <1>4, <1>5, ZenonT(40) DEF ToCome, TypeOK
<1>8. CASE id[u] \notin DOMAIN sockets
  <2>1. turn' = Tail(turn) /\ UNCHANGED <<sockets, throws, seen>>
    BY <1>0, <1>5, <1>8, ZenonT(40) DEF OnClose
  <2>. QED
    BY <1>0, <1>1, <1>3, <1>4, <1>8, <2>1, SkipKeeps, KindFacts, ZenonT(40)
<1>9. CASE id[u] \in DOMAIN sockets
  <2>1. sockets' = Without(sockets, id[u]) /\ Emits(id[u], "close", 0) /\ Handled
    BY <1>0, <1>5, <1>9, Zenon DEF OnClose
  <2>2. throws' \in 0..MaxThrows /\ (throws' = 0 => throws = 0 /\ turn' = Tail(turn))
    BY <1>2, <2>1, HandledFacts, Zenon
  <2>3. /\ seen' \in [Upgrades -> Seq(Emitted)] /\ seen'[u] = Append(seen[u], <<"close", 0>>)
        /\ \A v \in Upgrades \ {u} : seen'[v] = seen[v]
        /\ seen[u] \in Seq(Emitted) /\ <<"close", 0>> \in Emitted
    BY <1>7, <2>1, EmitsFacts, Zenon
  <2>4. /\ DOMAIN sockets' = DOMAIN sockets \ {id[u]}
        /\ \A c \in DOMAIN sockets : c # id[u] => sockets'[c] = sockets[c]
    BY <2>1, Zenon DEF Without
  <2>5. TypeOK'
    <3>1. turn' \in Seq(Records)
      BY <1>2, <1>3, StreamDispatch
    <3>2. DOMAIN sockets' \subseteq Numbers
      BY <1>2, <2>4, Zenon DEF SdkType
    <3>3. SdkType'
      BY <1>1, <1>2, <2>2, <2>3, <3>1, <3>2, ZenonT(40) DEF SdkType
    <3>. QED
      BY <1>1, <1>2, <3>3, SdkStepType, Zenon
  <2>6. seen[u] # <<>> /\ NoClose(seen[u])
    BY <1>7, <1>9, SocketOf, Zenon
  <2>. DEFINE S == seen[u]
              T == seen'[u]
              e == <<"close", 0>>
  <2>7. Longer(S, e, T)
    BY <2>3, SeenAppend, Zenon
  <2>8. e[1] = "close" /\ e[2] = 0
    OBVIOUS
  <2>. HIDE DEF S, T, e
  <2>9. S # <<>> /\ S[1][1] = "connection" /\ NoClose(S) /\ \A j \in DOMAIN S : S[j][2] <= reads[u]
    BY <1>6, <2>6, Zenon DEF SeenOf, S
  <2>10. ASSUME NEW x \in Pending', ToCome(x, u) PROVE ToCome(x, u)'
    BY <1>0, <1>1, <1>3, <1>4, <2>10, AfterHead, ZenonT(40)
  <2>11. T # <<>> /\ T[1][1] = "connection"
    BY <2>7, <2>9, Zenon DEF Longer
  <2>12. SeenOf(u)'
    <3>1. \A j \in DOMAIN T : T[j][2] <= reads[u]
      BY <1>7, <2>7, <2>8, <2>9, SMTT(30) DEF Longer
    <3>. QED
      BY <1>1, <1>7, <2>11, <3>1, ZenonT(40) DEF SeenOf, T
  <2>13. InOrderOf(u)'
    <3>1. ASSUME NEW a \in DOMAIN T, NEW b \in DOMAIN T, a < b
          PROVE  /\ T[1][1] = "connection" /\ T[b][1] # "connection"
                 /\ T[a][1] # "close"
                 /\ T[b][1] = "message" => T[a][2] < T[b][2]
      <4>1. a \in DOMAIN S /\ T[a] = S[a] /\ ((b \in DOMAIN S /\ T[b] = S[b]) \/ T[b] = e)
        BY <2>7, <3>1 DEF Longer
      <4>2. T[a][1] # "close"
        BY <2>9, <4>1, Zenon DEF NoClose
      <4>3. CASE b \in DOMAIN S /\ T[b] = S[b]
        <5>1. InOrderOf(u)
          BY <1>2, Zenon DEF InOrder, InOrderOf
        <5>. QED
          BY <2>11, <3>1, <4>1, <4>2, <4>3, <5>1, ZenonT(40) DEF InOrderOf, S
      <4>4. CASE T[b] = e
        BY <2>8, <2>11, <4>2, <4>4, Zenon
      <4>. QED
        BY <4>1, <4>3, <4>4, SMTT(30)
    <3>. QED
      BY <3>1, Zenon DEF InOrderOf, T
  <2>14. Encode(Opened(id[u], req[u])) \notin Pending' /\ Encode(Closed(id[u])) \notin Pending'
    BY <1>0, <1>1, <1>3, <1>4, StillPending, Zenon
  <2>15. ~Opens(u)' /\ ~Closes(u)'
    BY <1>1, <2>14, Zenon DEF Opens, Closes
  <2>16. SameTask(u)
    BY <1>1, Zenon DEF SameTask
  <2>17. engine => StashOf(u)'
    BY <1>1, <1>6, <2>15, <2>16, SameStash, Zenon
  <2>18. StepOf(u)'
    BY <1>1, <1>7, <2>4, <2>15, Zenon DEF StepOf
  <2>19. SdkStep(u)
    BY <1>0, <1>1, <1>3, <1>4, <2>2, <2>3, <2>4, <2>10, <2>12, <2>13, <2>17, <2>18, ZenonT(40) DEF SdkStep
  <2>. QED
    BY <2>5, <2>19, SdkKeep
<1>. QED
    BY <1>8, <1>9

-----------------------------------------------------------------------------
(* The hooks, and close().                                                 *)

\* Steps that leave the tasks and the events of every Socket as they are.
LEMMA QuietKeep ==
    ASSUME IInv, TypeOK', Stream', Pending' \subseteq Pending, HookFacts', StashFacts', StepFacts',
           SocketFacts',
           UNCHANGED <<task, req, id, reads, seen, drain, batch>>,
           \A u \in Upgrades : TaskOf(u)'
    PROVE  IInv'
<1>1. /\ Numbered(req) /\ Numbered(id) /\ PendingFacts /\ SeenFacts /\ InOrder /\ BatchFacts
    BY Zenon DEF IInv
<1>2. Numbered(req)' /\ Numbered(id)' /\ InOrder' /\ BatchFacts'
    BY <1>1, ZenonT(40) DEF Numbered, Given, InOrder, BatchFacts
<1>3. SeenFacts'
    BY <1>1, Zenon DEF SeenFacts, SeenOf, NoClose
<1>4. \A w : \A u \in Upgrades : /\ ToCome(w, u) => ToCome(w, u)'
                                 /\ AsksFor(w, u) => AsksFor(w, u)'
    BY ZenonT(40) DEF ToCome, AsksFor, NoClose
<1>5. PendingFacts'
    BY <1>1, <1>4, Zenon DEF PendingFacts
<1>6. TaskFacts'
    BY Zenon DEF TaskFacts
<1>. QED
    BY <1>2, <1>3, <1>5, <1>6, Zenon DEF IInv

\* #handleAuthorize.
LEMMA OnAuthorizeKeeps ==
    ASSUME IInv, OnAuthorize
    PROVE  IInv'
<1>. USE DEF taskVars, queueVars, drainVars
<1>0. PICK w : w = Head(turn)
    OBVIOUS
<1>1. /\ turn # <<>> /\ w.kind = KIND_AUTHORIZE /\ turn' = Tail(turn)
      /\ hooks' \subseteq hooks \cup {w.slot}
      /\ UNCHANGED <<taskVars, queueVars, drainVars, tsfn, engine, sockets, stash, unsettled,
                     resolved, throws, seen>>
    BY <1>0, Zenon DEF OnAuthorize
<1>2. /\ TypeOK /\ SdkType /\ Stream /\ PendingFacts /\ Numbered(id) /\ HookFacts /\ SocketFacts
      /\ StashFacts /\ StepFacts /\ TaskFacts
    BY TypeSdk, Zenon DEF IInv
<1>3. Dispatched
    BY <1>1, Zenon DEF Dispatched
<1>4. /\ Stream' /\ turn' \in Seq(Records) /\ w \in Records /\ w \in Pending
      /\ Pending' \subseteq Pending /\ Pending \subseteq Pending' \cup {w}
    BY <1>0, <1>1, <1>2, <1>3, StreamDispatch, Zenon
<1>5. PICK u \in Upgrades : w.slot = req[u]
    BY <1>1, <1>2, <1>4, PendingWhose, Zenon
<1>6. HookFacts'
    BY <1>1, <1>2, <1>5, Zenon DEF HookFacts
<1>7. TypeOK'
  <2>1. w.slot \in Numbers
    BY <1>4, Zenon DEF Records
  <2>2. SdkType'
    <3>1. hooks' \subseteq Numbers
      BY <1>1, <1>2, <2>1, Zenon DEF SdkType
    <3>. QED
      BY <1>1, <1>2, <1>4, <3>1, Zenon DEF SdkType
  <2>. QED
    BY <1>1, <1>2, <2>2, SdkStepType, Zenon
<1>8. \A v \in Upgrades : SameTask(v) /\ (Opens(v)' <=> Opens(v)) /\ (Closes(v)' <=> Closes(v))
  <2>. SUFFICES ASSUME NEW v \in Upgrades
                PROVE  SameTask(v) /\ (Opens(v)' <=> Opens(v)) /\ (Closes(v)' <=> Closes(v))
    BY Zenon
  <2>1. Encode(Opened(id[v], req[v])) # w /\ Encode(Closed(id[v])) # w
    <3>1. Encode(Opened(id[v], req[v])).kind = KIND_OPEN /\ Encode(Closed(id[v])).kind = KIND_CLOSE
      BY CodeFacts, SMTT(30)
    <3>. QED
      BY <1>1, <3>1, KindFacts, Zenon
  <2>. QED
    BY <1>1, <1>4, <2>1, Zenon DEF SameTask, Opens, Closes
<1>9. StashFacts'
  <2>1. ASSUME engine, NEW v \in Upgrades PROVE StashOf(v)'
    BY <1>1, <1>2, <1>8, <2>1, SameStash, Zenon DEF StashFacts
  <2>. QED
    BY <1>1, <2>1, Zenon DEF StashFacts
<1>10. StepFacts'
  <2>1. ASSUME engine, throws = 0, NEW v \in Upgrades PROVE StepOf(v)'
    BY <1>1, <1>2, <1>8, <2>1, SameStep, Zenon DEF StepFacts
  <2>. QED
    BY <1>1, <2>1, Zenon DEF StepFacts
<1>11. SocketFacts'
    BY <1>1, <1>2, ZenonT(40) DEF SocketFacts, NoClose
<1>12. \A v \in Upgrades : TaskOf(v)'
    BY <1>1, <1>2, Zenon DEF TaskFacts, TaskOf
<1>. QED
    BY <1>1, <1>4, <1>6, <1>7, <1>9, <1>10, <1>11, <1>12, QuietKeep, Zenon

\* A hook settles: what it accepts is stashed before its task hears of it.
LEMMA HookSettlesKeeps ==
    ASSUME IInv, NEW r \in Numbers, HookSettles(r)
    PROVE  IInv'
<1>. USE DEF queueVars, drainVars
<1>1. /\ r \in hooks /\ hooks' = hooks \ {r}
      /\ UNCHANGED <<task, req, id, reads, queueVars, drainVars, tsfn, turn, engine, sockets,
                     resolved, throws, seen>>
    BY DEF HookSettles
<1>2. /\ TypeOK /\ SdkType /\ Stream /\ Numbered(req) /\ HookFacts /\ SocketFacts
      /\ StashFacts /\ StepFacts /\ TaskFacts
    BY TypeSdk, Zenon DEF IInv
<1>3. PICK u \in Upgrades : req[u] = r
    BY <1>1, <1>2, Zenon DEF HookFacts
<1>4. r # None
    BY NumberFacts, Zenon
<1>5. Upgrade(req, r) = u
    BY <1>2, <1>3, <1>4, UpgradeFacts, Zenon
<1>6. PICK answer \in {"accept", "reject"} :
         /\ stash' = IF answer = "accept" THEN Put(stash, r, u) ELSE stash
         /\ reply' = IF engine /\ task[u] = "await" THEN [reply EXCEPT ![u] = answer] ELSE reply
         /\ unsettled' = IF engine THEN unsettled ELSE unsettled \cup {r}
    BY <1>5, Zenon DEF HookSettles, ResolveAuthorize
<1>7. reply \in [Upgrades -> {"none", "accept", "reject"}]
    BY <1>2, Zenon DEF SdkType
<1>8. /\ reply' \in [Upgrades -> {"none", "accept", "reject"}]
      /\ \A v \in Upgrades \ {u} : reply'[v] = reply[v]
      /\ reply'[u] = reply[u] \/ (task[u] = "await" /\ reply'[u] = answer)
    BY <1>6, <1>7, Zenon
<1>9. /\ answer = "accept" => r \in DOMAIN stash' /\ stash'[r] = u
      /\ DOMAIN stash' \subseteq DOMAIN stash \cup {r}
      /\ \A k \in DOMAIN stash : k # r \/ answer # "accept" => k \in DOMAIN stash' /\ stash'[k] = stash[k]
    BY <1>6, Zenon DEF Put
<1>10. TypeOK'
  <2>1. DOMAIN stash' \subseteq Numbers /\ hooks' \subseteq Numbers /\ unsettled' \subseteq Numbers
    BY <1>1, <1>2, <1>6, <1>9, Zenon DEF SdkType
  <2>2. SdkType'
    BY <1>1, <1>2, <1>8, <2>1, Zenon DEF SdkType
  <2>. QED
    BY <1>1, <1>2, <2>2, SdkStepType, Zenon
<1>11. Stream' /\ Pending' = Pending
    BY <1>1, <1>2, ZenonT(40) DEF Stream, Pending, Buffered
<1>12. \A v \in Upgrades : (Opens(v)' <=> Opens(v)) /\ (Closes(v)' <=> Closes(v))
    BY <1>1, <1>11, Zenon DEF Opens, Closes
<1>13. \A v \in Upgrades : TaskOf(v)'
  <2>. SUFFICES ASSUME NEW v \in Upgrades PROVE TaskOf(v)'
    OBVIOUS
  <2>1. TaskOf(v) /\ (reply'[v] = reply[v] \/ task[v] = "await")
    BY <1>2, <1>8, Zenon DEF TaskFacts
  <2>. QED
    BY <1>1, <2>1, Zenon DEF TaskOf
<1>14. StashFacts'
  <2>. SUFFICES ASSUME engine, NEW v \in Upgrades PROVE StashOf(v)'
    BY <1>1, Zenon DEF StashFacts
  <2>1. StashOf(v)
    BY <1>2, Zenon DEF StashFacts
  <2>2. CASE v = u
    <3>1. CASE answer = "accept"
      BY <1>1, <1>3, <1>9, <2>1, <2>2, <3>1, ZenonT(40) DEF StashOf
    <3>2. CASE answer = "reject"
      <4>1. reply'[u] = "accept" => reply[u] = "accept"
        BY <1>8, <3>2, Zenon
      <4>. QED
        BY <1>1, <1>9, <1>12, <2>1, <2>2, <3>2, <4>1, ZenonT(40) DEF StashOf
    <3>. QED
      BY <3>1, <3>2, Zenon
  <2>3. CASE v # u
    <3>1. req[v] # r
      BY <1>2, <1>3, <1>4, <2>3, Zenon DEF Numbered
    <3>. QED
      BY <1>1, <1>8, <1>9, <1>12, <2>1, <2>3, <3>1, ZenonT(40) DEF StashOf
  <2>. QED
    BY <2>2, <2>3, Zenon
<1>15. StepFacts'
    BY <1>1, <1>2, <1>12, Zenon DEF StepFacts, StepOf
<1>16. SocketFacts'
    BY <1>1, <1>2, Zenon DEF SocketFacts, NoClose
<1>17. HookFacts'
    BY <1>1, <1>2, Zenon DEF HookFacts
<1>. QED
    BY <1>1, <1>10, <1>11, <1>13, <1>14, <1>15, <1>16, <1>17, QuietKeep

\* close() takes the engine and empties the maps of the SDK.
LEMMA CloseKeeps ==
    ASSUME IInv, Close
    PROVE  IInv'
<1>. USE DEF taskVars, queueVars, drainVars
<1>1. /\ engine' = FALSE /\ sockets' = <<>> /\ stash' = <<>>
      /\ UNCHANGED <<taskVars, queueVars, drainVars, tsfn, turn, hooks, unsettled, resolved,
                     throws, seen>>
    BY Zenon DEF Close
<1>2. TypeOK /\ SdkType /\ Stream /\ HookFacts /\ TaskFacts
    BY TypeSdk, Zenon DEF IInv
<1>3. DOMAIN sockets' = {} /\ DOMAIN stash' = {}
    BY <1>1
<1>4. TypeOK'
  <2>1. engine' \in BOOLEAN
    BY <1>1, Zenon
  <2>2. SdkType'
    BY <1>1, <1>2, <1>3, <2>1, Zenon DEF SdkType
  <2>. QED
    BY <1>1, <1>2, <2>2, SdkStepType, Zenon
<1>5. Stream' /\ Pending' = Pending
    BY <1>1, <1>2, ZenonT(40) DEF Stream, Pending, Buffered
<1>6. StashFacts' /\ StepFacts'
    BY <1>1, Zenon DEF StashFacts, StepFacts
<1>7. SocketFacts'
    BY <1>3, Zenon DEF SocketFacts
<1>8. HookFacts'
    BY <1>1, <1>2, Zenon DEF HookFacts
<1>9. \A v \in Upgrades : TaskOf(v)'
    BY <1>1, <1>2, Zenon DEF TaskFacts, TaskOf
<1>. QED
    BY <1>1, <1>4, <1>5, <1>6, <1>7, <1>8, <1>9, QuietKeep, ZenonT(40)

-----------------------------------------------------------------------------
(* The invariant, and what follows from it.                                *)

\* Before the first upgrade nothing is on its way and there is no Socket.
LEMMA InitIInv ==
    ASSUME FiniteFacts, Init
    PROVE  IInv
<1>. USE DEF Init
<1>1. TypeOK
  <2>1. /\ queue \in Seq(Events) /\ batch \in Seq(Events) /\ tsfn \in Seq(Seq(Records))
        /\ turn \in Seq(Records) /\ Len(queue) = 0 /\ Len(batch) = 0 /\ Len(tsfn) = 0
    BY SMTT(30)
  <2>2. 0 <= Capacity /\ 0 <= Batch /\ 0 <= TsfnBound /\ 0 \in 0..MaxThrows
    BY BridgeAssumption
  <2>3. \A u \in Upgrades : 0 <= MaxMsgs[u]
    BY BridgeAssumption
  <2>4. seen \in [Upgrades -> Seq(Emitted)] /\ DOMAIN sockets = {} /\ DOMAIN stash = {}
    OBVIOUS
  <2>5. /\ task \in [Upgrades -> {"upgrade", "await", "open", "live", "closed", "rejected",
                                  "dropped"}]
        /\ req \in [Upgrades -> {None} \cup Numbers] /\ id \in [Upgrades -> {None} \cup Numbers]
        /\ reads \in [Upgrades -> Nat] /\ \A u \in Upgrades : reads[u] <= MaxMsgs[u]
        /\ reply \in [Upgrades -> {"none", "accept", "reject"}]
    BY <2>3, Zenon
  <2>6. /\ Len(queue) <= Capacity /\ Len(batch) <= Batch /\ Len(tsfn) <= TsfnBound
        /\ dropped \in Nat /\ throws \in 0..MaxThrows
        /\ drain \in {"recv", "greedy", "fill", "flush", "last", "exited"}
    BY <2>1, <2>2, Zenon
  <2>7. engine \in BOOLEAN /\ senders \in BOOLEAN /\ resolved \in BOOLEAN
    BY Zenon
  <2>8. /\ DOMAIN sockets \subseteq Numbers /\ DOMAIN stash \subseteq Numbers
        /\ hooks \subseteq Numbers /\ unsettled \subseteq Numbers
    BY <2>4, Zenon
  <2>. HIDE DEF Init
  <2>. QED
    BY <2>1, <2>4, <2>5, <2>6, <2>7, <2>8, ZenonT(40) DEF TypeOK
<1>2. /\ Of(turn) = {} /\ Coded(batch) = {} /\ Coded(queue) = {} /\ Buffered = {}
      /\ DOMAIN tsfn = {} /\ DOMAIN sockets = {}
      /\ Asc(turn) /\ AscCoded(batch) /\ AscCoded(queue)
  <2>1. DOMAIN tsfn = {} /\ DOMAIN sockets = {}
    OBVIOUS
  <2>2. Buffered = {}
    BY <2>1, Zenon DEF Buffered
  <2>. QED
    BY <2>1, <2>2, HoldsNothing, Zenon
<1>3. Stream
    BY <1>2, Zenon DEF Stream, Before
<1>4. Pending = {}
    BY <1>2, Zenon DEF Pending
<1>5. Numbered(req) /\ Numbered(id)
  <2>. SUFFICES ASSUME NEW f, f = [u \in Upgrades |-> None] PROVE Numbered(f)
    OBVIOUS
  <2>1. Given(f) \in SUBSET Upgrades /\ IsFiniteSet(Upgrades)
    BY BridgeAssumption, Zenon DEF Given
  <2>2. Cardinality(Given(f)) \in Nat
    BY <2>1, FinSubset, FinCount, Zenon
  <2>. QED
    BY <2>2 DEF Numbered, None
<1>6. TaskFacts
    BY Zenon DEF TaskFacts, TaskOf
<1>7. PendingFacts /\ HookFacts /\ SocketFacts /\ BatchFacts
    BY <1>2, <1>4, Zenon DEF PendingFacts, HookFacts, SocketFacts, BatchFacts
<1>8. \A u \in Upgrades : seen[u] = <<>> /\ DOMAIN seen[u] = {}
    OBVIOUS
<1>9. SeenFacts /\ InOrder
    BY <1>8, Zenon DEF SeenFacts, SeenOf, NoClose, InOrder
<1>10. \A u \in Upgrades : task[u] = "upgrade" /\ reply[u] = "none"
    OBVIOUS
<1>11. StashFacts /\ StepFacts
    BY <1>10, Zenon DEF StashFacts, StashOf, StepFacts, StepOf
<1>. QED
    BY <1>1, <1>3, <1>5, <1>6, <1>7, <1>9, <1>11, ZenonT(40) DEF IInv

\* Every step of a task, of the drain thread, of the JS thread and of close().
LEMMA NextIInv ==
    ASSUME FiniteFacts, IInv, [Next]_vars
    PROVE  IInv'
<1>1. ASSUME NEW u \in Upgrades, Task(u) PROVE IInv'
    BY <1>1, EmitAuthorizeKeeps, AnsweredKeeps, EmitOpenedKeeps, EmitMessageKeeps, EmitClosedKeeps, Zenon
       DEF Task
<1>2. ASSUME Dispatch PROVE IInv'
    BY <1>2, MovesKeep, OnOpenKeeps, OnMessageKeeps, OnCloseKeeps, OnAuthorizeKeeps, Zenon DEF Dispatch
<1>3. CASE UNCHANGED vars
  <2>. USE DEF vars, taskVars, queueVars, drainVars, sdkVars
  <2>1. UNCHANGED <<queue, batch, tsfn, turn, drain, resolved, taskVars, dropped, senders>>
        /\ UNCHANGED sdkVars
    BY <1>3, Zenon
  <2>0. TypeOK /\ WayType /\ Stream /\ BatchFacts
    BY TypeWay, Zenon DEF IInv
  <2>2. TypeOK'
    <3>1. WayType'
      BY <2>0, <2>1, Zenon DEF WayType
    <3>. QED
      BY <2>0, <2>1, <3>1, MovesType, Zenon
  <2>3. Stream' /\ Pending' = Pending
    BY <2>0, <2>1, ZenonT(40) DEF Stream, Pending, Buffered
  <2>4. BatchFacts'
    BY <2>0, <2>1, Zenon DEF BatchFacts
  <2>. QED
    BY <2>1, <2>2, <2>3, <2>4, Moves, Zenon
<1>. QED
    BY <1>1, <1>2, <1>3, MovesKeep, HookSettlesKeeps, CloseKeeps, TeardownKeeps, ZenonT(40) DEF Next

\* An event is on its way if its record is pending, where the record tells it.
LEMMA WayFacts ==
    ASSUME TypeOK, NEW e, \A f \in Events : Encode(f) = Encode(e) => f = e
    PROVE  OnItsWay(e) <=> Encode(e) \in Pending
<1>1. \A s \in {queue, batch} : \A i \in DOMAIN s : s[i] \in Events
  <2>1. queue \in Seq(Events) /\ batch \in Seq(Events)
    BY Zenon DEF TypeOK
  <2>. QED
    BY <2>1
<1>2. InQueue(e) <=> Encode(e) \in Coded(batch) \cup Coded(queue)
    BY <1>1, Zenon DEF InQueue, Coded
<1>3. Encode(e) \in Buffered <=> \E b \in DOMAIN tsfn : Encode(e) \in Of(tsfn[b])
    BY Zenon DEF Buffered
<1>4. InBuffer(Encode(e)) <=> Encode(e) \in Of(turn) \cup Buffered
    BY <1>3, Zenon DEF InBuffer, Of
<1>. QED
    BY <1>2, <1>4, Zenon DEF OnItsWay, Pending

\* The SDK is in step with the engine.
LEMMA InStep ==
    ASSUME IInv
    PROVE  SdkInStep
<1>. SUFFICES ASSUME engine, throws = 0, NEW u \in Upgrades
              PROVE  LET wentLive == task[u] \in {"live", "closed"} /\ ~OnItsWay(Opened(id[u], req[u]))
                         wentAway == task[u] = "closed" /\ ~OnItsWay(Closed(id[u]))
                     IN  /\ (id[u] \in DOMAIN sockets) <=> (wentLive /\ ~wentAway)
                         /\ id[u] \in DOMAIN sockets => sockets[id[u]] = u
    BY Zenon DEF SdkInStep
<1>1. TypeOK /\ TaskOf(u) /\ SeenOf(u) /\ StashOf(u) /\ StepOf(u)
    BY OfTask, Zenon
<1>2. CASE task[u] \in {"live", "closed"}
  <2>1. req[u] \in Numbers
    BY <1>1, <1>2, Zenon DEF TaskOf, TypeOK
  <2>2. OnItsWay(Opened(id[u], req[u])) <=> Opens(u)
    BY <1>1, <2>1, EncodeTells, WayFacts, Zenon DEF Opens
  <2>3. OnItsWay(Closed(id[u])) <=> Closes(u)
    BY <1>1, <2>1, EncodeTells, WayFacts, Zenon DEF Closes
  <2>. QED
    BY <1>1, <1>2, <2>2, <2>3, ZenonT(40) DEF StepOf
<1>3. CASE task[u] \notin {"live", "closed"}
  <2>1. ASSUME id[u] \in DOMAIN sockets PROVE FALSE
    <3>1. id[u] # None
      BY <1>1, <2>1, NumberFacts, ZenonT(40) DEF TypeOK
    <3>2. seen[u] # <<>>
      BY <2>1, <3>1, SocketOf, Zenon
    <3>. QED
      BY <1>1, <1>3, <3>2, Zenon DEF SeenOf, StashOf
  <2>. QED
    BY <1>3, <2>1, Zenon
<1>. QED
    BY <1>2, <1>3, Zenon

-----------------------------------------------------------------------------
(* The theorems.                                                           *)

INSTANCE FiniteSetTheorems

\* The facts about finite sets hold.
LEMMA FiniteFactsHold == FiniteFacts
<1>1. \A S : IsFiniteSet(S) => Cardinality(S) \in Nat
    BY FS_CardinalityType, Zenon
<1>2. \A S : \A T \in SUBSET S : IsFiniteSet(S) => IsFiniteSet(T) /\ Cardinality(T) <= Cardinality(S)
    BY FS_Subset, Zenon
<1>3. \A S, x : IsFiniteSet(S) /\ x \notin S =>
           IsFiniteSet(S \cup {x}) /\ Cardinality(S \cup {x}) = Cardinality(S) + 1
    BY FS_AddElement, ZenonT(40)
<1>4. \A S : \A x \in S : IsFiniteSet(S) =>
           IsFiniteSet(S \ {x}) /\ Cardinality(S \ {x}) = Cardinality(S) - 1
    BY FS_RemoveElement, ZenonT(40)
<1>. QED
    BY <1>1, <1>2, <1>3, <1>4, ZenonT(40) DEF FiniteFacts

\* The invariant holds along every behaviour.
THEOREM Invariance == Spec => []IInv
<1>1. Init => IInv
    BY InitIInv, FiniteFactsHold, ZenonT(40)
<1>2. IInv /\ [Next]_vars => IInv'
    BY NextIInv, FiniteFactsHold, ZenonT(40)
<1>. QED
    BY <1>1, <1>2, PTL DEF Spec

\* Every variable of the bridge and the SDK keeps its type, and the queue, the
\* batch and the callback queue stay within their capacities.
THEOREM TypeCorrect == Spec => []TypeOK
<1>1. IInv => TypeOK
    BY ZenonT(40) DEF IInv
<1>. QED
    BY <1>1, Invariance, PTL

\* Whatever is batched, dropped, thrown or closed in between, a Socket emits
\* connection first and once, messages in the order they were read, and close
\* last and once.
THEOREM EmissionOrder == Spec => []InOrder
<1>1. IInv => InOrder
    BY ZenonT(40) DEF IInv
<1>. QED
    BY <1>1, Invariance, PTL

\* Until close() or a throwing handler there is a Socket exactly for the
\* connections whose Opened has been dispatched and whose Closed has not, and it
\* carries the metadata its own hook returned.
THEOREM InStepWithEngine == Spec => []SdkInStep
<1>1. IInv => SdkInStep
    BY InStep, Zenon
<1>. QED
    BY <1>1, Invariance, PTL
=============================================================================
