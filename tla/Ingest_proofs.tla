---------------------------- MODULE Ingest_proofs ----------------------------
(***************************************************************************)
(* What holds of the ingest for any targets, look-back and slack, whatever *)
(* bars the exchange has and whichever end it answers from.                *)
(***************************************************************************)
EXTENDS Ingest, FiniteSetTheorems, TLAPS

\* While a request is out: its target, and times that had closed.
Asking ==
    recon = "fetch" =>
        /\ turn \in DOMAIN Targets
        /\ missing # {}
        /\ missing \subseteq Window

\* Whatever was sent has closed.
Sent == \A m \in inbox : m.t < now

Inv == TypeOK /\ Asking /\ Sent /\ OnlyClosedStored

----------------------------------------------------------------------------
LEMMA TargetsAre ==
    /\ DOMAIN Targets = 1..Len(Targets)
    /\ Len(Targets) \in Nat
    /\ \A i \in DOMAIN Targets : Targets[i] \in Symbols
BY IngestAssumption DEF Symbols

LEMMA InitInv == Init => Inv
<1> SUFFICES ASSUME Init PROVE Inv
    OBVIOUS
<1> USE IngestAssumption
<1>1. now = Lookback /\ now \in 0..MaxTime
    BY DEF Init
<1>2. bars \in [Symbols -> SUBSET (0..now)]
    BY DEF Init
<1>3. \A s \in Symbols : table[s] \subseteq [t : 0..(now - 1), closed : {TRUE}]
    BY DEF Init
<1>4. table \in [Symbols -> SUBSET Records]
  <2>1. 0..(now - 1) \subseteq Int
    BY <1>1
  <2>2. [t : 0..(now - 1), closed : {TRUE}] \subseteq Records
    BY <2>1 DEF Records
  <2> QED
    BY <2>2 DEF Init
<1>5. OnlyClosedStored
    BY <1>3 DEF OnlyClosedStored
<1>6. 1 \in 1..(Len(Targets) + 1) /\ 0 \in 0..now
    BY <1>1, TargetsAre
<1>7. TypeOK
    BY <1>1, <1>2, <1>4, <1>6 DEF Init, TypeOK
<1>8. Asking /\ Sent
    BY DEF Init, Asking, Sent
<1> QED
    BY <1>5, <1>7, <1>8 DEF Inv

----------------------------------------------------------------------------
\* Rows that are written replace rows, and are closed if they are all closed.
LEMMA UpsertIs ==
    ASSUME NEW rows \in SUBSET Records, NEW new \in SUBSET Records
    PROVE  /\ Upsert(rows, new) \subseteq Records
           /\ (\A r \in rows \cup new : r.closed) =>
                \A r \in Upsert(rows, new) : r.closed
           /\ \A r \in new : r.t \in {x.t : x \in Upsert(rows, new)}
BY DEF Upsert

LEMMA TickKeeps ==
    ASSUME Inv, NEW listed \in SUBSET Symbols, Tick(listed)
    PROVE  Inv'
<1> USE IngestAssumption DEF Inv, pass
<1>1. now' = now + 1 /\ now' \in 0..MaxTime /\ now \in Nat
    BY DEF Tick, TypeOK
<1>2. bars' \in [Symbols -> SUBSET (0..now')]
  <2>1. ASSUME NEW s \in Symbols
        PROVE  (IF s \in listed THEN bars[s] \cup {now + 1} ELSE bars[s])
                    \in SUBSET (0..now')
    <3>1. bars[s] \subseteq 0..now
        BY DEF TypeOK
    <3> QED
        BY <1>1, <3>1
  <2> QED
    BY <2>1 DEF Tick
<1>3. inbox' \subseteq Messages /\ Sent'
  <2>1. inbox \subseteq Messages
    BY DEF TypeOK
  <2>2. ASSUME NEW m \in inbox' PROVE m \in Messages /\ m.t < now + 1
    <3>1. m \in inbox \/ (m \in Messages /\ m.t = now)
        BY DEF Tick
    <3>2. m \in Messages /\ m.t \in Int
        BY <2>1, <3>1 DEF Messages
    <3> QED
        BY <1>1, <3>1, <3>2 DEF Sent
  <2> QED
    BY <1>1, <2>2 DEF Sent
<1>4. passNow' \in 0..now'
    BY <1>1 DEF Tick, TypeOK
<1>5. UNCHANGED <<order, table, alive, stop, link, streaming, recon, turn, missing, passNow>>
    BY DEF Tick
<1>6. TypeOK'
    BY <1>1, <1>2, <1>3, <1>4, <1>5 DEF TypeOK
<1>7. Asking' /\ OnlyClosedStored'
    BY <1>5 DEF Asking, OnlyClosedStored, Window
<1> QED
    BY <1>3, <1>6, <1>7

\* The process ends, or starts, or is told to stop.
LEMMA ProcessKeeps ==
    ASSUME Inv, Start \/ Die \/ SetStop \/ Exit
    PROVE  Inv'
<1> USE IngestAssumption DEF Inv, exchange
<1>1. UNCHANGED <<now, bars, order, table>>
    BY DEF Start, Die, SetStop, Exit
<1>2. CASE Die \/ Exit
  <2>1. End
    BY <1>2 DEF Die, Exit
  <2>2. 1 \in 1..(Len(Targets) + 1) /\ 0 \in 0..now
    BY TargetsAre DEF TypeOK
  <2>3. TypeOK'
    BY <1>1, <2>1, <2>2 DEF TypeOK, End
  <2>4. Asking' /\ Sent' /\ OnlyClosedStored'
    BY <1>1, <2>1 DEF End, Asking, Sent, OnlyClosedStored
  <2> QED
    BY <2>3, <2>4
<1>3. CASE Start \/ SetStop
  <2>1. UNCHANGED <<session, pass>> /\ alive' \in BOOLEAN /\ stop' \in BOOLEAN
    BY <1>3 DEF Start, SetStop, TypeOK
  <2>2. TypeOK'
    BY <1>1, <2>1 DEF TypeOK, session, pass
  <2>3. Asking' /\ Sent' /\ OnlyClosedStored'
    BY <1>1, <2>1 DEF Asking, Sent, OnlyClosedStored, session, pass, Window
  <2> QED
    BY <2>2, <2>3
<1> QED
    BY <1>2, <1>3

LEMMA SessionKeeps ==
    ASSUME Inv, Connect \/ Disconnect
    PROVE  Inv'
<1> USE DEF Inv, exchange, pass
<1>1. /\ UNCHANGED <<now, bars, order, table, alive, stop, streaming>>
      /\ UNCHANGED <<recon, passNow, turn, missing>>
      /\ link' \in BOOLEAN /\ inbox' \subseteq inbox
    BY DEF Connect, Disconnect
<1>2. TypeOK'
    BY <1>1 DEF TypeOK
<1>3. Asking' /\ Sent' /\ OnlyClosedStored'
    BY <1>1 DEF Asking, Sent, OnlyClosedStored, Window
<1> QED
    BY <1>2, <1>3

\* Rows of one symbol are written, all of them closed.
LEMMA WriteKeeps ==
    ASSUME Inv, NEW s \in Symbols, NEW new \in SUBSET Records,
           \A r \in new : r.closed,
           table' = [table EXCEPT ![s] = Upsert(@, new)]
    PROVE  /\ table' \in [Symbols -> SUBSET Records]
           /\ OnlyClosedStored'
           /\ \A r \in new : r.t \in Stored(s)'
<1> USE DEF Inv
<1>1. table \in [Symbols -> SUBSET Records]
    BY DEF TypeOK
<1>2. table[s] \in SUBSET Records /\ \A r \in table[s] : r.closed
    BY <1>1 DEF OnlyClosedStored
<1>3. /\ Upsert(table[s], new) \subseteq Records
      /\ \A r \in Upsert(table[s], new) : r.closed
      /\ \A r \in new : r.t \in {x.t : x \in Upsert(table[s], new)}
    BY <1>2, UpsertIs
<1>4. /\ table'[s] = Upsert(table[s], new)
      /\ \A x \in Symbols : x # s => table'[x] = table[x]
    BY <1>1
<1> QED
    BY <1>1, <1>3, <1>4 DEF OnlyClosedStored, Stored

LEMMA ReceiveKeeps ==
    ASSUME Inv, NEW m \in inbox, Receive(m)
    PROVE  Inv'
<1> USE DEF Inv, exchange, pass
<1>1. /\ UNCHANGED <<now, bars, order, alive, stop>>
      /\ UNCHANGED <<recon, passNow, turn, missing>>
      /\ inbox' \subseteq inbox
    BY DEF Receive
<1>2. /\ table' \in [Symbols -> SUBSET Records] /\ OnlyClosedStored'
      /\ link' \in BOOLEAN /\ streaming' \in BOOLEAN
  <2>1. CASE stop
    BY <2>1 DEF Receive, TypeOK, OnlyClosedStored
  <2>2. CASE ~stop
    <3> DEFINE new == {[t |-> m.t, closed |-> m.t < now]}
    <3>1. m \in Messages /\ m.t < now
        BY DEF TypeOK, Sent
    <3>2. m.sym \in Symbols /\ m.t \in Int
        BY <3>1 DEF Messages
    <3>3. new \in SUBSET Records /\ \A r \in new : r.closed
      <4>1. (m.t < now) \in BOOLEAN /\ (m.t < now) = TRUE
        BY <3>1
      <4>2. [t |-> m.t, closed |-> m.t < now] \in Records
        BY <3>2, <4>1 DEF Records
      <4>3. [t |-> m.t, closed |-> m.t < now].closed
        BY <4>1
      <4> QED
        BY <4>2, <4>3
    <3>4. table' = [table EXCEPT ![m.sym] = Upsert(@, new)]
        BY <2>2 DEF Receive
    <3>5. table' \in [Symbols -> SUBSET Records] /\ OnlyClosedStored'
        BY <3>2, <3>3, <3>4, WriteKeeps
    <3> QED
        BY <2>2, <3>5 DEF Receive, TypeOK
  <2> QED
    BY <2>1, <2>2
<1>3. TypeOK'
    BY <1>1, <1>2 DEF TypeOK
<1>4. Asking' /\ Sent'
    BY <1>1 DEF Asking, Sent, Window
<1> QED
    BY <1>2, <1>3, <1>4

----------------------------------------------------------------------------
\* Beginning, ending and giving up a pass.
LEMMA PassKeeps ==
    ASSUME Inv, BeginPass \/ Fail \/ EndPass \/ StopReconciling
    PROVE  Inv'
<1> USE IngestAssumption DEF Inv, exchange, session
<1>1. /\ UNCHANGED <<now, bars, order, table, alive, stop, link, inbox, streaming>>
      /\ recon' \in {"wait", "pass", "done"}
    BY DEF BeginPass, Fail, EndPass, StopReconciling
<1>2. 1 \in 1..(Len(Targets) + 1) /\ 0 \in 0..now /\ now \in 0..now
    BY TargetsAre DEF TypeOK
<1>3. passNow' \in 0..now /\ turn' \in 1..(Len(Targets) + 1) /\ missing' \in SUBSET Int
    BY <1>2 DEF TypeOK, BeginPass, Fail, EndPass, StopReconciling
<1>4. TypeOK'
    BY <1>1, <1>3 DEF TypeOK
<1>5. Asking' /\ Sent' /\ OnlyClosedStored'
    BY <1>1 DEF Asking, Sent, OnlyClosedStored
<1> QED
    BY <1>4, <1>5

LEMMA LookKeeps ==
    ASSUME Inv, NEW s \in Symbols, Look(s)
    PROVE  Inv'
<1> USE DEF Inv, exchange, session
<1>1. /\ UNCHANGED <<now, bars, order, table, alive, stop, link, inbox, streaming, passNow>>
      /\ turn \in DOMAIN Targets /\ recon = "pass"
    BY DEF Look
<1>2. Missing(s) \subseteq Window /\ Window \subseteq Int
    BY DEF Missing, Window
<1>3. turn + 1 \in 1..(Len(Targets) + 1)
    BY <1>1, TargetsAre DEF TypeOK
<1>4. CASE Missing(s) = {}
  <2>1. turn' = turn + 1 /\ recon' = "pass" /\ missing' = missing
    BY <1>1, <1>4 DEF Look
  <2>2. TypeOK'
    BY <1>1, <1>3, <2>1 DEF TypeOK
  <2>3. Asking' /\ Sent' /\ OnlyClosedStored'
    BY <1>1, <2>1 DEF Asking, Sent, OnlyClosedStored
  <2> QED
    BY <2>2, <2>3
<1>5. CASE Missing(s) # {}
  <2>1. turn' = turn /\ recon' = "fetch" /\ missing' = Missing(s)
    BY <1>1, <1>5 DEF Look
  <2>2. TypeOK'
    BY <1>1, <1>2, <2>1 DEF TypeOK
  <2>3. Window' = Window
    BY <1>1 DEF Window
  <2>4. Asking' /\ Sent' /\ OnlyClosedStored'
    BY <1>1, <1>2, <1>5, <2>1, <2>3 DEF Asking, Sent, OnlyClosedStored
  <2> QED
    BY <2>2, <2>4
<1> QED
    BY <1>4, <1>5

\* The rows a page gives.
Rows(page) == {[t |-> t, closed |-> t < now] : t \in page \cap missing}

\* What was missing had closed, and so has what is written of an answer.
LEMMA RowsClosed ==
    ASSUME Inv, recon = "fetch", NEW page
    PROVE  /\ Rows(page) \in SUBSET Records
           /\ \A r \in Rows(page) : r.closed
           /\ \A t \in page \cap missing : \E r \in Rows(page) : r.t = t
<1>1. passNow \in Nat /\ now \in Nat /\ passNow <= now /\ Lookback \in Nat
    BY IngestAssumption DEF Inv, TypeOK
<1>2. ASSUME NEW t \in missing PROVE t \in Int /\ t < now
  <2>1. t \in (passNow - Lookback)..(passNow - 1)
    BY DEF Inv, Asking, Window
  <2> QED
    BY <1>1, <2>1
<1>3. ASSUME NEW t \in missing
      PROVE  [t |-> t, closed |-> t < now] \in Records /\ (t < now) = TRUE
  <2>1. (t < now) \in BOOLEAN /\ t \in Int
    BY <1>2
  <2> QED
    BY <1>2, <2>1 DEF Records
<1>4. ASSUME NEW t \in page \cap missing
      PROVE  \E r \in Rows(page) : r.t = t
  <2>1. [t |-> t, closed |-> t < now] \in Rows(page)
    BY DEF Rows
  <2> QED
    BY <2>1
<1>5. ASSUME NEW r \in Rows(page)
      PROVE  r \in Records /\ r.closed
  <2>1. PICK t \in page \cap missing : r = [t |-> t, closed |-> t < now]
    BY DEF Rows
  <2>2. r.closed = (t < now)
    BY <2>1
  <2> QED
    BY <1>3, <2>1, <2>2
<1> QED
    BY <1>4, <1>5

LEMMA FillKeeps ==
    ASSUME Inv, NEW s \in Symbols, Fill(s)
    PROVE  Inv'
<1> USE DEF Inv, exchange, session
<1>1. /\ UNCHANGED <<now, bars, order, alive, stop, link, inbox, streaming, passNow>>
      /\ recon = "fetch" /\ recon' = "pass" /\ turn' = turn + 1 /\ missing' = {}
    BY DEF Fill
<1>2. PICK page \in Answers(s) :
        table' = [table EXCEPT ![s] = Upsert(@, Rows(page))]
    BY DEF Fill, Rows
<1>3. Rows(page) \in SUBSET Records /\ \A r \in Rows(page) : r.closed
    BY <1>1, RowsClosed
<1>4. table' \in [Symbols -> SUBSET Records] /\ OnlyClosedStored'
    BY <1>2, <1>3, WriteKeeps
<1>5. turn + 1 \in 1..(Len(Targets) + 1)
    BY <1>1, TargetsAre DEF Asking, TypeOK
<1>6. TypeOK'
    BY <1>1, <1>4, <1>5 DEF TypeOK
<1>7. Asking' /\ Sent'
    BY <1>1 DEF Asking, Sent
<1> QED
    BY <1>4, <1>6, <1>7

----------------------------------------------------------------------------
(***************************************************************************)
(* The inductive invariant: types, what a request that is out asks for,    *)
(* what the stream has been sent, and OnlyClosedStored, through drops,     *)
(* failures, stops and restarts (stream/ingest.py, stream/reconciler.py).  *)
(***************************************************************************)
THEOREM IngestInvariant == Spec => []Inv
<1>1. ASSUME Inv, [Next]_vars PROVE Inv'
  <2>1. ASSUME NEW listed \in SUBSET Symbols, Tick(listed) PROVE Inv'
    BY <1>1, <2>1, TickKeeps
  <2>2. CASE Start \/ Die \/ SetStop \/ Exit
    BY <1>1, <2>2, ProcessKeeps
  <2>3. CASE Connect \/ Disconnect
    BY <1>1, <2>3, SessionKeeps
  <2>4. ASSUME NEW m \in inbox, Receive(m) PROVE Inv'
    BY <1>1, <2>4, ReceiveKeeps
  <2>5. CASE BeginPass \/ Fail \/ EndPass \/ StopReconciling
    BY <1>1, <2>5, PassKeeps
  <2>6. ASSUME NEW s \in Symbols, Look(s) PROVE Inv'
    BY <1>1, <2>6, LookKeeps
  <2>7. ASSUME NEW s \in Symbols, Fill(s) PROVE Inv'
    BY <1>1, <2>7, FillKeeps
  <2>8. CASE UNCHANGED vars
    <3>1. TypeOK'
        BY <1>1, <2>8 DEF Inv, vars, TypeOK
    <3>2. Asking' /\ Sent' /\ OnlyClosedStored'
        BY <1>1, <2>8 DEF Inv, vars, Asking, Sent, OnlyClosedStored, Window
    <3> QED
        BY <3>1, <3>2 DEF Inv
  <2> QED
    BY <1>1, <2>1, <2>2, <2>3, <2>4, <2>5, <2>6, <2>7, <2>8
       DEF Next, Reconciling, Streaming
<1> QED
    BY <1>1, InitInv, PTL DEF Spec

(***************************************************************************)
(* No bar in progress is ever stored, however passes, messages and the     *)
(* clock interleave (stream/bybit_ws.py:4-5, stream/reconciler.py:6-7).    *)
(***************************************************************************)
THEOREM ClosedBarsStored == Spec => []OnlyClosedStored
<1>1. Inv => OnlyClosedStored
    BY DEF Inv
<1> QED
    BY <1>1, IngestInvariant, PTL

----------------------------------------------------------------------------
\* The missing time at the end the answer comes from is in the answer: the
\* answer would otherwise lie within the one bar past it.
LEMMA AnswerHasTheEnd ==
    ASSUME Inv, recon = "fetch", NEW s \in Symbols, NEW page \in Answers(s),
           NEW g \in missing, g \in bars[s], AtTheEnd(g)
    PROVE  g \in page
<1> SUFFICES ASSUME g \notin page PROVE FALSE
    OBVIOUS
<1>1. /\ passNow \in Nat /\ Lookback \in Nat /\ now \in Nat
      /\ Extra \in Nat /\ Extra >= 1
    BY IngestAssumption DEF Inv, TypeOK
<1>2. missing \subseteq (passNow - Lookback)..(passNow - 1)
    BY DEF Inv, Asking, Window
<1>3. IsFiniteSet(missing) /\ missing \subseteq Int
  <2>1. passNow - Lookback \in Int /\ passNow - 1 \in Int
    BY <1>1
  <2>2. IsFiniteSet((passNow - Lookback)..(passNow - 1))
    BY <2>1, FS_Interval
  <2>3. IsFiniteSet(missing)
    BY <1>2, <2>2, FS_Subset
  <2> QED
    BY <1>2, <2>3
<1>4. Cardinality(missing) \in Nat /\ Cardinality(missing) # 0
    BY <1>3, FS_CardinalityType, FS_EmptySet
<1>5. Limit \in Nat /\ Limit >= 2
    BY <1>1, <1>4 DEF Limit
<1>6. bars[s] \subseteq Int
    BY DEF Inv, TypeOK
<1>7. g \in Asked(s)
    BY <1>3 DEF Asked
<1>8. /\ page \subseteq Asked(s) /\ Cardinality(page) = Limit
      /\ \A a \in page : IF order = "oldest" THEN a < g ELSE g < a
    BY <1>7 DEF Answers
<1>9. ASSUME NEW a \in page
      PROVE  order = "newest" /\ a = g + 1
  <2>1. PICK lo \in missing : lo <= a
    BY <1>8 DEF Asked
  <2>2. PICK hi \in missing : a <= hi + 1
    BY <1>8 DEF Asked
  <2>3. a \in Int /\ g \in Int /\ lo \in Int /\ hi \in Int
    BY <1>3, <1>6, <1>8 DEF Asked
  <2>4. order \in {"oldest", "newest"}
    BY DEF Inv, TypeOK
  <2>5. CASE order = "oldest"
    <3>1. g <= lo /\ a < g
        BY <1>8, <2>5 DEF AtTheEnd
    <3> QED
        BY <2>1, <2>3, <3>1
  <2>6. CASE order = "newest"
    <3>1. hi <= g /\ g < a
        BY <1>8, <2>6 DEF AtTheEnd
    <3> QED
        BY <2>2, <2>3, <2>6, <3>1
  <2> QED
    BY <2>4, <2>5, <2>6
<1>10. page \subseteq {g + 1}
    BY <1>9
<1>11. Cardinality(page) <= 1
  <2>1. IsFiniteSet({g + 1}) /\ Cardinality({g + 1}) = 1
    BY FS_Singleton
  <2> QED
    BY <1>10, <2>1, FS_Subset
<1> QED
    BY <1>5, <1>8, <1>11

(***************************************************************************)
(* A request that is answered closes the gap at the end the answer comes   *)
(* from, if the exchange has that bar (stream/reconciler.py:88-94), for    *)
(* every look-back and every slack of at least one bar.                    *)
(***************************************************************************)
THEOREM FillsClose == Spec => FillClosesAGap
<1> DEFINE Closes ==
        recon = "fetch" /\ recon' = "pass" =>
          \A s \in Symbols : s = Targets[turn] =>
            \A g \in missing \cap bars[s] : AtTheEnd(g) => g \in Stored(s)'
<1>1. ASSUME Inv, [Next]_vars PROVE [Closes]_vars
  <2> SUFFICES ASSUME recon = "fetch", recon' = "pass",
                      NEW s \in Symbols, s = Targets[turn],
                      NEW g \in missing \cap bars[s], AtTheEnd(g)
               PROVE  g \in Stored(s)'
    OBVIOUS
  <2>1. PICK x \in Symbols : Fill(x)
    <3>1. /\ ~ \E listed \in SUBSET Symbols : Tick(listed)
          /\ ~(Start \/ Die \/ SetStop \/ Exit \/ Connect \/ Disconnect)
          /\ ~ \E m \in inbox : Receive(m)
        BY DEF Tick, Start, Die, SetStop, Exit, End, Connect, Disconnect, Receive, pass
    <3>2. ~(BeginPass \/ Fail \/ EndPass \/ StopReconciling)
        BY DEF BeginPass, Fail, EndPass, StopReconciling
    <3>3. ~ \E y \in Symbols : Look(y)
        BY DEF Look
    <3>4. ~ UNCHANGED vars
        BY DEF vars
    <3> QED
        BY <1>1, <3>1, <3>2, <3>3, <3>4 DEF Next, Reconciling, Streaming
  <2>2. x = s
    BY <2>1 DEF Fill
  <2>3. PICK page \in Answers(s) :
          table' = [table EXCEPT ![s] = Upsert(@, Rows(page))]
    BY <2>1, <2>2 DEF Fill, Rows
  <2>4. g \in page
    BY <1>1, AnswerHasTheEnd
  <2>5. /\ Rows(page) \in SUBSET Records
        /\ \A r \in Rows(page) : r.closed
        /\ \E r \in Rows(page) : r.t = g
    BY <1>1, <2>4, RowsClosed
  <2>6. \A r \in Rows(page) : r.t \in Stored(s)'
    BY <1>1, <2>3, <2>5, WriteKeeps
  <2> QED
    BY <2>5, <2>6
<1> QED
    BY <1>1, IngestInvariant, PTL DEF Spec, FillClosesAGap

=============================================================================
