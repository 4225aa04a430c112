---------------------- MODULE BackgroundNotifier_proofs ---------------------
(***************************************************************************)
(* For every capacity and number of messages: what the notifier accepts is *)
(* tried once, in order, and the thread returns after the last of it.      *)
(***************************************************************************)
EXTENDS BackgroundNotifier, SequenceTheorems, TLAPS

\* How far the messages reach in the queue: up to its end, until the sentinel
\* is put, and then up to the sentinel, until the worker has taken that.
Books ==
    /\ main \in {"trade", "flush_stop", "flush_close", "put"} =>
         /\ worker # "returned"
         /\ Taken + Len(queue) = accepted
    /\ main \in {"join", "exited"} =>
         IF worker = "returned"
         THEN Len(attempted) = accepted /\ queue = <<>>
         ELSE Taken + Len(queue) = accepted + 1
    /\ main = "exited" /\ "join" \notin gaveUp => worker = "returned"

Inv == TypeOK /\ NothingLost /\ Books

LEMMA InitInv == Init => Inv
BY NotifierAssumption
DEF Init, Inv, TypeOK, NothingLost, Books, Taken, Sentinel, MainSteps

\* An item put behind the others.
LEMMA PutKeeps ==
    ASSUME Inv, NEW n \in Nat, queue' = Append(queue, n)
    PROVE  /\ queue' \in Seq(Nat)
           /\ Len(queue') = Len(queue) + 1
           /\ DOMAIN queue = 1..Len(queue)
           /\ DOMAIN queue' = 1..(Len(queue) + 1)
           /\ \A i \in 1..Len(queue) : queue'[i] = queue[i]
           /\ queue'[Len(queue) + 1] = n
BY AppendProperties DEF Inv, TypeOK

LEMMA NotifyInv == ASSUME Inv, Notify PROVE Inv'
<1> USE DEF Inv, Sentinel
<1>1. CASE UNCHANGED <<queue, accepted>>
    BY <1>1 DEF TypeOK, NothingLost, Books, Taken, Notify
<1>2. CASE /\ Len(queue) < MaxQueue
           /\ queue' = Append(queue, accepted + 1)
           /\ accepted' = accepted + 1
           /\ UNCHANGED dropped
  <2>1. accepted + 1 \in Nat
    BY DEF TypeOK
  <2>2. Len(queue') = Len(queue) + 1 /\ queue' \in Seq(Nat)
    BY <1>2, <2>1, PutKeeps
  <2>3. TypeOK'
    BY <1>2, <2>1, <2>2, NotifierAssumption DEF TypeOK, Notify
  <2>4. Taken' = Taken /\ Taken \in Nat /\ Taken + Len(queue) = accepted
    BY DEF Taken, Notify, Books, TypeOK
  <2>5. NothingLost'
    <3>1. ASSUME NEW i \in DOMAIN queue'
          PROVE  queue'[i] = IF Taken + i <= accepted + 1 THEN Taken + i ELSE Sentinel
      <4>1. /\ i \in 1..Len(queue) \/ i = Len(queue) + 1
            /\ Len(queue) \in Nat
            /\ \A j \in 1..Len(queue) : queue'[j] = queue[j] /\ j \in DOMAIN queue
            /\ queue'[Len(queue) + 1] = accepted + 1
        BY <1>2, <2>1, <3>1, PutKeeps DEF TypeOK
      <4>2. CASE i \in 1..Len(queue)
        <5>1. queue'[i] = Taken + i
            BY <2>4, <4>1, <4>2 DEF NothingLost, TypeOK
        <5> QED
            BY <2>4, <4>1, <4>2, <5>1 DEF TypeOK
      <4>3. CASE i = Len(queue) + 1
        <5>1. Taken + i = accepted + 1
            BY <2>4, <4>1, <4>3
        <5>2. Taken + i <= accepted + 1
            BY <2>1, <5>1
        <5>3. queue'[i] = accepted + 1
            BY <4>1, <4>3
        <5> QED
            BY <5>1, <5>2, <5>3
      <4> QED
        BY <4>1, <4>2, <4>3
    <3>2. UNCHANGED <<attempted, worker, held>>
        BY DEF Notify
    <3>3. Taken' + Len(queue') >= accepted'
        BY <1>2, <2>2, <2>4 DEF TypeOK
    <3> QED
        BY <1>2, <2>4, <3>1, <3>2, <3>3 DEF NothingLost
  <2>6. Books'
    <3>1. UNCHANGED <<worker, main, attempted, gaveUp>> /\ main = "trade"
        BY DEF Notify
    <3>2. Taken' + Len(queue') = accepted'
        BY <1>2, <2>2, <2>4 DEF TypeOK
    <3> QED
        BY <3>1, <3>2 DEF Books
  <2> QED
    BY <2>3, <2>5, <2>6
<1> QED
    BY <1>1, <1>2 DEF Notify

LEMMA GetInv == ASSUME Inv, Get PROVE Inv'
<1> USE DEF Inv, Sentinel
<1>1. /\ Len(queue) \in Nat
      /\ DOMAIN queue = 1..Len(queue)
      /\ queue # <<>>
      /\ Len(queue) >= 1
      /\ Head(queue) = queue[1]
    BY DEF Get, TypeOK
<1>2. /\ queue' \in Seq(Nat)
      /\ Len(queue') = Len(queue) - 1
      /\ DOMAIN queue' = 1..(Len(queue) - 1)
      /\ \A i \in 1..(Len(queue) - 1) : queue'[i] = queue[i + 1]
      /\ Head(queue) \in Nat
    BY <1>1, HeadTailProperties DEF Get, TypeOK
<1>3. Taken = Len(attempted) /\ Taken \in Nat
    BY DEF Get, Taken, TypeOK
<1>4. Head(queue) = IF Taken + 1 <= accepted THEN Taken + 1 ELSE 0
    BY <1>1 DEF NothingLost
<1>5. TypeOK'
    BY <1>1, <1>2, NotifierAssumption DEF TypeOK, Get
<1>6. CASE Taken + 1 <= accepted
  <2>1. worker' = "send" /\ held' = Taken + 1 /\ Taken' = Taken + 1
    BY <1>3, <1>4, <1>6 DEF Get, Taken
  <2>2. NothingLost'
    <3>1. ASSUME NEW i \in DOMAIN queue'
          PROVE  queue'[i] = IF Taken + 1 + i <= accepted THEN Taken + 1 + i ELSE 0
      <4>1. /\ i \in 1..(Len(queue) - 1)
            /\ i + 1 \in DOMAIN queue
            /\ queue'[i] = queue[i + 1]
        BY <1>1, <1>2
      <4>2. queue[i + 1] = IF Taken + (i + 1) <= accepted THEN Taken + (i + 1) ELSE 0
        BY <4>1 DEF NothingLost
      <4>3. Taken + (i + 1) = Taken + 1 + i
        BY <1>1, <1>3, <4>1
      <4> QED
        BY <4>1, <4>2, <4>3
    <3>2. UNCHANGED <<attempted, accepted>>
        BY DEF Get
    <3>3. Taken' + Len(queue') >= accepted'
        BY <1>1, <1>2, <1>3, <2>1, <3>2 DEF NothingLost, Get, TypeOK
    <3> QED
        BY <2>1, <3>1, <3>2, <3>3 DEF NothingLost
  <2>3. Books'
    <3>1. UNCHANGED <<attempted, accepted, main, gaveUp>>
        BY DEF Get
    <3>2. Taken' + Len(queue') = Taken + Len(queue)
        BY <1>1, <1>2, <1>3, <2>1
    <3>3. worker = "get" /\ main # "exited"
        BY DEF Get
    <3> QED
        BY <2>1, <3>1, <3>2, <3>3 DEF Books
  <2> QED
    BY <1>5, <2>2, <2>3
<1>7. CASE ~(Taken + 1 <= accepted)
  <2>1. worker' = "returned" /\ Taken' = Taken
    BY <1>3, <1>4, <1>7 DEF Get, Taken
  <2>2. Taken = accepted /\ Len(queue) = 1 /\ main \in {"join", "exited"}
    BY <1>1, <1>3, <1>7 DEF Books, Get, TypeOK, MainSteps
  <2>3. queue' = <<>>
    BY <1>2, <2>2
  <2> QED
    BY <1>3, <1>5, <2>1, <2>2, <2>3 DEF NothingLost, Books, Get, TypeOK
<1> QED
    BY <1>6, <1>7

LEMMA SendInv == ASSUME Inv, NEW ok \in BOOLEAN, Send(ok) PROVE Inv'
BY DEF Inv, TypeOK, NothingLost, Books, Taken, Sentinel, MainSteps, Send

LEMMA MainInv == ASSUME Inv, Main PROVE Inv'
<1> USE DEF Inv
<1>1. Taken' = Taken
    BY DEF Main, Stop, Flushed, PutSentinel, Joined, TimeOut, Advance, Taken
<1>2. CASE UNCHANGED queue
  <2>1. TypeOK' /\ NothingLost'
    BY <1>1, <1>2
    DEF Main, Stop, Flushed, PutSentinel, Joined, TimeOut, Advance, NextStep,
        MainSteps, TypeOK, NothingLost
  <2>2. Books'
    BY <1>1, <1>2
    DEF Main, Stop, Flushed, Joined, PutSentinel, TimeOut, Advance, NextStep,
        MainSteps, TypeOK, Books
  <2> QED
    BY <2>1, <2>2
<1>3. CASE PutSentinel
  <2>1. Taken \in Nat /\ Taken + Len(queue) = accepted /\ main' = "join"
    BY <1>3 DEF PutSentinel, Advance, NextStep, Books, Taken, TypeOK
  <2>2. queue' = Append(queue, 0)
    BY <1>3 DEF PutSentinel, Sentinel
  <2>3. TypeOK'
    BY <1>3, <2>1, <2>2, PutKeeps, NotifierAssumption
    DEF PutSentinel, Advance, TypeOK, MainSteps
  <2>4. NothingLost'
    <3>1. ASSUME NEW i \in DOMAIN queue'
          PROVE  queue'[i] = IF Taken + i <= accepted THEN Taken + i ELSE 0
      <4>1. /\ i \in 1..Len(queue) \/ i = Len(queue) + 1
            /\ Len(queue) \in Nat
            /\ \A j \in 1..Len(queue) : queue'[j] = queue[j] /\ j \in DOMAIN queue
            /\ queue'[Len(queue) + 1] = 0
        BY <2>2, <3>1, PutKeeps DEF TypeOK
      <4>2. CASE i \in 1..Len(queue)
        BY <4>1, <4>2 DEF NothingLost, Sentinel
      <4>3. CASE i = Len(queue) + 1
        BY <2>1, <4>1, <4>3 DEF TypeOK
      <4> QED
        BY <4>1, <4>2, <4>3
    <3>2. UNCHANGED <<attempted, accepted, worker, held>>
        BY <1>3 DEF PutSentinel, Advance
    <3>3. Len(queue') = Len(queue) + 1
        BY <2>2, PutKeeps
    <3>4. Taken' + Len(queue') >= accepted'
        BY <1>1, <2>1, <3>2, <3>3 DEF TypeOK
    <3> QED
        BY <1>1, <3>1, <3>2, <3>4 DEF NothingLost, Sentinel
  <2>5. Books'
    BY <1>1, <1>3, <2>1, <2>2, PutKeeps DEF Books, PutSentinel, Advance, TypeOK
  <2> QED
    BY <2>3, <2>4, <2>5
<1> QED
    BY <1>2, <1>3 DEF Main, Stop, Flushed, Joined, TimeOut

THEOREM NotifierInvariance == Spec => []Inv
<1>1. Inv /\ [Next]_vars => Inv'
  <2> SUFFICES ASSUME Inv, [Next]_vars PROVE Inv'
    OBVIOUS
  <2>1. CASE UNCHANGED vars
    BY <2>1 DEF vars, Inv, TypeOK, NothingLost, Books, Taken
  <2> QED
    BY <2>1, NotifyInv, GetInv, SendInv, MainInv DEF Next, Worker, Exited
<1> QED
    BY InitInv, <1>1, PTL DEF Spec

\* Accepted messages are tried once and in order (notifier.py:135-156).
THEOREM InOrder == Spec => []NothingLost
<1>1. Inv => NothingLost
    BY DEF Inv
<1> QED
    BY NotifierInvariance, <1>1, PTL

\* The thread returns after the last accepted message (notifier.py:149-150).
THEOREM LastReturn == Spec => []ReturnsLast
<1>1. Inv => ReturnsLast
    BY DEF Inv, Books, ReturnsLast, TypeOK, MainSteps
<1> QED
    BY NotifierInvariance, <1>1, PTL

\* A process whose join did not time out has tried them all
\* (notifier.py:165-168).
THEOREM AllBeforeExit == Spec => []ExitAfterAll
<1>1. Inv => ExitAfterAll
    BY DEF Inv, Books, ExitAfterAll
<1> QED
    BY NotifierInvariance, <1>1, PTL

============================================================================
