------------------------- MODULE PaperEngine_proofs -------------------------
(***************************************************************************)
(* What holds of the paper engine for every set of symbols and targets,    *)
(* every number of restarts and every place a process may die.             *)
(*                                                                         *)
(* No invariant of PaperEngine is inductive as it stands: that a symbol has*)
(* one order, say, rests on which symbols of the bar in hand have had their*)
(* turn and on what state.json holds.  The parts below say this, and their *)
(* conjunction with TypeOK (Inv) is preserved by every step.               *)
(*                                                                         *)
(* First comes what both modules need of RiskManager, then the gates alone *)
(* (DrawdownGates), then the engine.                                       *)
(***************************************************************************)
EXTENDS PaperEngine, DrawdownGates, SequenceTheorems, TLAPS

\* The key of a bar's period is a number, so it is not NoKey.
LEMMA PeriodOfType ==
    ASSUME NEW p \in Periods, NEW t \in Nat
    PROVE  PeriodOf(p, t) \in Nat /\ PeriodOf(p, t) \in Int
<1>1. PeriodLen[p] \in Nat \ {0}
    BY RiskAssumption
<1> QED
    BY <1>1, Z3 DEF PeriodOf

\* Later closes lie in the same or a later period: mre/risk.py compares keys
\* for equality only, and a period once left does not come back.
LEMMA PeriodOfMonotone ==
    ASSUME NEW p \in Periods, NEW t \in Nat, NEW u \in Nat, t <= u
    PROVE  PeriodOf(p, t) <= PeriodOf(p, u)
<1>1. PeriodLen[p] \in Nat \ {0}
    BY RiskAssumption
<1> QED
    BY <1>1, Z3 DEF PeriodOf

\* A lower close breaches what a higher one breaches below the same mark, and
\* a higher mark makes any close a breach that a lower one makes one.
LEMMA BreachMonotone ==
    ASSUME NEW p \in Periods, NEW low \in Int, NEW high \in Int, NEW e \in Int,
           low <= high, Breach(p, low, e)
    PROVE  Breach(p, high, e)
<1>1. LimitPermille[p] \in 1..999
    BY RiskAssumption
<1> QED
    BY <1>1, Z3 DEF Breach

\* No close breaches a limit below itself.
LEMMA NoSelfBreach ==
    ASSUME NEW p \in Periods, NEW e \in Int
    PROVE  ~Breach(p, e, e)
<1>1. LimitPermille[p] \in 1..999
    BY RiskAssumption
<1> QED
    BY <1>1, Z3 DEF Breach

\* update keeps the fields of the manager in their types.
LEMMA RiskUpdateType ==
    ASSUME NEW r \in RiskState, NEW t \in Nat, NEW e \in Int
    PROVE  RiskUpdate(r, t, e) \in RiskState
BY PeriodOfType DEF RiskUpdate, RiskState, NewMark, Higher

LEMMA RiskInitType == RiskInit \in RiskState
BY RiskAssumption DEF RiskInit, RiskState, NoKey

-----------------------------------------------------------------------------
\* The curve is in order of time, and the manager's keys are those of its
\* last close.
Synced ==
    /\ curve = <<>> => gate = RiskInit
    /\ curve # <<>> =>
         \A p \in Periods : gate.key[p] = PeriodOf(p, curve[Len(curve)].t)
    /\ \A i \in DOMAIN curve : curve[i].t <= curve[Len(curve)].t

GateInv == GatesType /\ Synced /\ MarkIsPeriodHigh /\ HaltedIffPeriodDrawdown

LEMMA GateInit == GatesInit => GateInv
BY RiskInitType
DEF GatesInit, GateInv, GatesType, Synced, MarkIsPeriodHigh, HaltedIffPeriodDrawdown,
    RiskInit, Points

\* What a close appends and what it leaves, in the terms of the invariant.
Appended(t, e) ==
    /\ curve' \in Seq(Points)
    /\ Len(curve) \in Nat
    /\ DOMAIN curve = 1..Len(curve)
    /\ DOMAIN curve' = 1..(Len(curve) + 1)
    /\ Len(curve') = Len(curve) + 1
    /\ curve'[Len(curve) + 1].t = t
    /\ curve'[Len(curve) + 1].e = e
    /\ \A i \in 1..Len(curve) : curve'[i] = curve[i]
    /\ \A i \in 1..Len(curve) : curve[i].t \in Nat /\ curve[i].e \in Int

LEMMA CloseAppends ==
    ASSUME GatesType, NEW t \in Nat, NEW e \in Int, Close(t, e)
    PROVE  Appended(t, e)
<1>1. [t |-> t, e |-> e] \in Points
    BY DEF Points
<1>2. curve \in Seq(Points) /\ curve' = Append(curve, [t |-> t, e |-> e])
    BY DEF GatesType, Close
<1>3. \A i \in 1..Len(curve) : curve[i] \in Points
    BY <1>2
<1> QED
    BY <1>1, <1>2, <1>3, AppendProperties DEF Points, Appended

\* A close outside the current period of a layer is outside every period the
\* curve has seen.
LEMMA NewPeriodIsNew ==
    ASSUME GatesType, Synced, NEW t \in Nat, NEW e \in Int, Close(t, e),
           NEW p \in Periods, PeriodOf(p, t) # gate.key[p],
           NEW i \in 1..Len(curve)
    PROVE  PeriodOf(p, curve[i].t) # PeriodOf(p, t)
<1> DEFINE last == curve[Len(curve)].t
<1>0. Appended(t, e)
    BY CloseAppends
<1>1. /\ Len(curve) \in DOMAIN curve
      /\ i \in DOMAIN curve
      /\ curve # <<>>
    BY <1>0 DEF Appended
<1>2. curve[i].t \in Nat /\ last \in Nat
    BY <1>0, <1>1 DEF Appended
<1>6. curve[i].t <= last /\ last <= t
    BY <1>1 DEF Synced, Close
<1>3. gate.key[p] = PeriodOf(p, last)
    BY <1>1 DEF Synced
<1>4. /\ PeriodOf(p, curve[i].t) <= PeriodOf(p, last)
      /\ PeriodOf(p, last) <= PeriodOf(p, t)
    BY <1>2, <1>6, PeriodOfMonotone, Zenon
<1>5. /\ PeriodOf(p, curve[i].t) \in Int
      /\ PeriodOf(p, last) \in Int
      /\ PeriodOf(p, t) \in Int
    BY <1>2, PeriodOfType, Zenon
<1> QED
    BY <1>3, <1>4, <1>5

LEMMA CloseSynced ==
    ASSUME GatesType, Synced, NEW t \in Nat, NEW e \in Int, Close(t, e)
    PROVE  Synced'
<1>0. Appended(t, e)
    BY CloseAppends
<1>1. curve' # <<>>
    BY <1>0 DEF Appended
<1>2. \A p \in Periods : gate'.key[p] = PeriodOf(p, t)
    BY DEF Close, RiskUpdate
<1>3. \A i \in DOMAIN curve' : curve'[i].t <= t
    BY <1>0 DEF Close, Appended
<1> QED
    BY <1>0, <1>1, <1>2, <1>3 DEF Synced, Appended

LEMMA CloseMark ==
    ASSUME GateInv, NEW t \in Nat, NEW e \in Int, Close(t, e)
    PROVE  MarkIsPeriodHigh'
<1> DEFINE n == Len(curve) + 1
           Now(p, i) == PeriodOf(p, curve'[i].t) = PeriodOf(p, t)
<1> SUFFICES ASSUME NEW p \in Periods
             PROVE  /\ \A i \in DOMAIN curve' :
                          Now(p, i) => curve'[i].e <= gate'.hwm[p]
                    /\ \E i \in DOMAIN curve' :
                          Now(p, i) /\ curve'[i].e = gate'.hwm[p]
    BY DEF MarkIsPeriodHigh, InPeriod, Close, RiskUpdate
<1> USE DEF GateInv
<1>0. Appended(t, e)
    BY CloseAppends
<1>1. /\ gate'.hwm[p] = NewMark(gate, p, t, e)
      /\ gate.hwm[p] \in Int
    BY DEF Close, RiskUpdate, GatesType, RiskState
<1>4. Now(p, n) /\ n \in DOMAIN curve' /\ curve'[n].e = e
    BY <1>0 DEF Appended
<1>5. \A i \in DOMAIN curve' : i = n \/ i \in 1..Len(curve)
    BY <1>0 DEF Appended
<1>6. \A i \in 1..Len(curve) : i \in DOMAIN curve' /\ curve'[i] = curve[i]
    BY <1>0 DEF Appended
<1>2. CASE PeriodOf(p, t) # gate.key[p]
  <2>1. \A i \in 1..Len(curve) : ~Now(p, i)
    BY <1>2, <1>6, NewPeriodIsNew
  <2> QED
    BY <1>1, <1>2, <1>4, <1>5, <2>1 DEF NewMark
<1>3. CASE PeriodOf(p, t) = gate.key[p]
  <2>1. curve # <<>>
    <3>1. PeriodOf(p, t) # NoKey
        BY PeriodOfType DEF NoKey
    <3> QED
        BY <1>3, <3>1 DEF Synced, RiskInit
  <2>2. gate'.hwm[p] = Higher(gate.hwm[p], e)
    BY <1>1, <1>3 DEF NewMark
  <2>3. \A i \in 1..Len(curve) : Now(p, i) <=> InPeriod(p, i)
    BY <1>3, <1>6 DEF InPeriod
  <2>4. DOMAIN curve = 1..Len(curve) /\ \A i \in 1..Len(curve) : curve[i].e \in Int
    BY <1>0 DEF Appended
  <2>5. /\ \A i \in 1..Len(curve) : InPeriod(p, i) => curve[i].e <= gate.hwm[p]
        /\ \E i \in 1..Len(curve) : InPeriod(p, i) /\ curve[i].e = gate.hwm[p]
    BY <2>1, <2>4, Zenon DEF MarkIsPeriodHigh
  <2>6. gate'.hwm[p] >= e /\ gate'.hwm[p] >= gate.hwm[p]
        /\ gate'.hwm[p] \in {e, gate.hwm[p]} /\ gate'.hwm[p] \in Int
    BY <1>1, <2>2 DEF Higher
  <2>7. ASSUME NEW i \in DOMAIN curve', Now(p, i) PROVE curve'[i].e <= gate'.hwm[p]
    <3>1. CASE i = n
        BY <1>4, <2>6, <3>1
    <3>2. CASE i \in 1..Len(curve)
      <4>1. curve'[i].e = curve[i].e /\ curve[i].e <= gate.hwm[p] /\ curve[i].e \in Int
        BY <1>6, <2>3, <2>4, <2>5, <2>7, <3>2
      <4> QED
        BY <1>1, <2>6, <4>1
    <3> QED
        BY <1>5, <3>1, <3>2
  <2>8. \E i \in DOMAIN curve' : Now(p, i) /\ curve'[i].e = gate'.hwm[p]
    <3>1. CASE gate'.hwm[p] = e
        BY <1>4, <3>1
    <3>2. CASE gate'.hwm[p] = gate.hwm[p]
        BY <1>6, <2>3, <2>5, <3>2
    <3> QED
        BY <2>6, <3>1, <3>2
  <2> QED
    BY <2>7, <2>8
<1> QED
    BY <1>2, <1>3

LEMMA CloseHalted ==
    ASSUME GateInv, NEW t \in Nat, NEW e \in Int, Close(t, e)
    PROVE  HaltedIffPeriodDrawdown'
<1> DEFINE Drawdown(p) == \E i, j \in DOMAIN curve' :
                            /\ i <= j
                            /\ PeriodOf(p, curve'[i].t) = PeriodOf(p, t)
                            /\ PeriodOf(p, curve'[j].t) = PeriodOf(p, t)
                            /\ Breach(p, curve'[i].e, curve'[j].e)
           n == Len(curve) + 1
<1> SUFFICES ASSUME NEW p \in Periods
             PROVE  p \in gate'.reasons <=> Drawdown(p)
    BY DEF HaltedIffPeriodDrawdown, InPeriod, Close, RiskUpdate
<1> USE DEF GateInv
<1>0. Appended(t, e)
    BY CloseAppends
<1>1. /\ gate'.key[p] = PeriodOf(p, t)
      /\ p \in gate'.reasons <=>
            \/ p \in gate.reasons /\ PeriodOf(p, t) = gate.key[p]
            \/ Breach(p, NewMark(gate, p, t, e), e)
      /\ gate.hwm[p] \in Int
    BY DEF Close, RiskUpdate, GatesType, RiskState
<1>2. ~Breach(p, e, e)
    BY NoSelfBreach
<1>3. CASE PeriodOf(p, t) # gate.key[p]
  <2>1. p \notin gate'.reasons
    BY <1>1, <1>2, <1>3 DEF NewMark
  <2>2. \A i \in 1..Len(curve) : PeriodOf(p, curve'[i].t) # PeriodOf(p, t)
    BY <1>1, <1>3, NewPeriodIsNew, <1>0 DEF Appended, InPeriod
  <2>3. ~Drawdown(p)
    BY <1>2, <2>2, <1>0 DEF Appended
  <2> QED
    BY <2>1, <2>3
<1>4. CASE PeriodOf(p, t) = gate.key[p]
  <2>1. curve # <<>>
    <3>1. PeriodOf(p, t) # NoKey
        BY PeriodOfType DEF NoKey
    <3> QED
        BY <1>4, <3>1 DEF Synced, RiskInit
  <2>2. NewMark(gate, p, t, e) = Higher(gate.hwm[p], e)
    BY <1>4 DEF NewMark
  <2>3. \A i \in 1..Len(curve) : (PeriodOf(p, curve'[i].t) = PeriodOf(p, t)) <=> InPeriod(p, i)
    BY <1>1, <1>4, <1>0 DEF Appended, InPeriod
  <2>4. PeriodOf(p, curve'[n].t) = PeriodOf(p, t) /\ n \in DOMAIN curve' /\ curve'[n].e = e
    BY <1>1, <1>0 DEF Appended, InPeriod
  <2>5. /\ \A i \in 1..Len(curve) : InPeriod(p, i) => curve[i].e <= gate.hwm[p]
        /\ \E i \in 1..Len(curve) : InPeriod(p, i) /\ curve[i].e = gate.hwm[p]
    <3>1. DOMAIN curve = 1..Len(curve)
        BY <1>0 DEF Appended
    <3> QED
        BY <2>1, <3>1, Zenon DEF MarkIsPeriodHigh
  <2>6. ASSUME p \in gate.reasons PROVE Drawdown(p)
    <3>1. PICK i \in DOMAIN curve, j \in DOMAIN curve :
                /\ i <= j
                /\ InPeriod(p, i)
                /\ InPeriod(p, j)
                /\ Breach(p, curve[i].e, curve[j].e)
        BY <2>6, Zenon DEF HaltedIffPeriodDrawdown
    <3>2. /\ i \in 1..Len(curve) /\ j \in 1..Len(curve)
          /\ i \in DOMAIN curve' /\ j \in DOMAIN curve'
          /\ curve'[i] = curve[i] /\ curve'[j] = curve[j]
        BY <3>1, <1>0 DEF Appended
    <3> QED
        BY <2>3, <3>1, <3>2
  <2>7. ASSUME Breach(p, NewMark(gate, p, t, e), e) PROVE Drawdown(p)
    <3>1. Breach(p, gate.hwm[p], e)
        BY <1>1, <1>2, <2>2, <2>7 DEF Higher
    <3>2. PICK i \in 1..Len(curve) : InPeriod(p, i) /\ curve[i].e = gate.hwm[p]
        BY <2>5
    <3> QED
      <4>1. i \in DOMAIN curve' /\ curve'[i] = curve[i] /\ i <= n
        BY <1>0 DEF Appended
      <4>2. PeriodOf(p, curve'[i].t) = PeriodOf(p, t)
        BY <2>3, <3>2
      <4>3. Breach(p, curve'[i].e, curve'[n].e)
        BY <2>4, <3>1, <3>2, <4>1
      <4> QED
        BY <2>4, <4>1, <4>2, <4>3
  <2>8. ASSUME Drawdown(p) PROVE p \in gate'.reasons
    <3>1. PICK i \in DOMAIN curve', j \in DOMAIN curve' :
                /\ i <= j
                /\ PeriodOf(p, curve'[i].t) = PeriodOf(p, t)
                /\ PeriodOf(p, curve'[j].t) = PeriodOf(p, t)
                /\ Breach(p, curve'[i].e, curve'[j].e)
        BY <2>8
    <3>2. CASE j # n
      <4>1. /\ i \in 1..Len(curve) /\ j \in 1..Len(curve)
            /\ InPeriod(p, i) /\ InPeriod(p, j)
            /\ Breach(p, curve[i].e, curve[j].e)
        BY <2>3, <3>1, <3>2, <1>0 DEF Appended
      <4> QED
        BY <1>1, <1>4, <3>1, <4>1, <1>0 DEF Appended, HaltedIffPeriodDrawdown
    <3>3. CASE j = n
      <4>1. i \in 1..Len(curve) /\ curve'[i] = curve[i] /\ curve[i].e \in Int
        BY <1>2, <2>4, <3>1, <3>3, <1>0 DEF Appended
      <4>2. InPeriod(p, i) /\ Breach(p, curve[i].e, e)
        BY <2>3, <2>4, <3>1, <3>3, <4>1
      <4>3. curve[i].e <= Higher(gate.hwm[p], e) /\ Higher(gate.hwm[p], e) \in Int
        BY <1>1, <2>5, <4>1, <4>2 DEF Higher
      <4> QED
        BY <1>1, <2>2, <4>1, <4>2, <4>3, BreachMonotone
    <3> QED
        BY <3>2, <3>3
  <2> QED
    BY <1>1, <1>4, <2>6, <2>7, <2>8
<1> QED
    BY <1>3, <1>4

\* For every curve: the mark of a layer is the highest close of its period,
\* and the layer is halted exactly when that period holds a drawdown over its
\* limit (mre/risk.py:62-98).
THEOREM GatesCorrect ==
    GatesSpec => [](MarkIsPeriodHigh /\ HaltedIffPeriodDrawdown)
<1>1. GatesInit => GateInv
    BY GateInit
<1>2. GateInv /\ [GatesNext]_gateVars => GateInv'
  <2> SUFFICES ASSUME GateInv, [GatesNext]_gateVars PROVE GateInv'
    OBVIOUS
  <2>1. ASSUME NEW t \in 0..LastClose, NEW e \in Closes, Close(t, e)
        PROVE  GateInv'
    <3>1. t \in Nat /\ e \in Int
        BY GatesAssumption
    <3>2. GatesType'
        BY <2>1, <3>1, CloseAppends, RiskUpdateType DEF Appended, GateInv, GatesType, Close
    <3> QED
        BY <2>1, <3>1, <3>2, CloseSynced, CloseMark, CloseHalted DEF GateInv
  <2>2. CASE UNCHANGED gateVars
    BY <2>2 DEF gateVars, GateInv, GatesType, Synced, MarkIsPeriodHigh,
            HaltedIffPeriodDrawdown, InPeriod
  <2> QED
    BY <2>1, <2>2 DEF GatesNext
<1>3. GateInv => MarkIsPeriodHigh /\ HaltedIffPeriodDrawdown
    BY DEF GateInv
<1> QED
    BY <1>1, <1>2, <1>3, PTL DEF GatesSpec

\* For every curve, the mark a layer measures its drawdown from is the highest
\* close of the layer's current period, restored or rolled over as it may be
\* (mre/risk.py:62-74).
THEOREM MarksCorrect == GatesSpec => []MarkIsPeriodHigh
BY GatesCorrect, PTL

-----------------------------------------------------------------------------
\* Which variables mean something in which phase of a bar.
Phases ==
    /\ todo \subseteq syms
    /\ pc = "idle" => syms = {} /\ fills = {} /\ unwritten = {}
    /\ pc # "idle" => syms # {}
    /\ pc = "decide" => fills = {}
    /\ \A a, b \in unwritten : a = b
    /\ \A ev \in unwritten : pc = IF ev.kind = "fill" THEN "open" ELSE "decide"

\* At most one order a symbol, in the queue and in state.json, and none for a
\* symbol that is past its open and not yet at its decision.
Queues ==
    /\ \A s \in Symbols : \A a, b \in pending[s] : a = b /\ a.sym = s
    /\ \A s \in Symbols : \A a, b \in snap.pending[s] : a = b /\ a.sym = s
    /\ \A a, b \in fills : a = b
    /\ \A o \in fills : o.sym \in syms \ todo
    /\ pc = "open" => \A s \in syms \ todo : pending[s] = {}
    /\ pc = "decide" => \A s \in todo : pending[s] = {}

\* No order is stamped later than the close of its symbol's last bar.
Stamps ==
    /\ \A s \in syms : feed[s] = now
    /\ pc # "idle" => \A s \in Symbols : feed[s] <= now
    /\ \A s \in Symbols :
         \A o \in pending[s] \cup snap.pending[s] : o.t <= feed[s] + 1
    /\ pc = "open" => \A s \in todo : \A o \in pending[s] : o.t <= now
    /\ NoLookAhead

\* An order is decided before it may fill: its decision line is written, or
\* being written.
Decisions ==
    /\ \A s \in Symbols : \A o \in pending[s] :
         \/ Id(o) \in decided
         \/ \E ev \in unwritten : ev.kind = "decision" /\ Id(o) = Id(ev.order)
    /\ \A s \in Symbols : \A o \in snap.pending[s] : Id(o) \in decided
    /\ \A o \in fills : Id(o) \in decided
    /\ \A ev \in Fills : Id(ev.order) \in decided
    /\ FillsWereDecided

Inv == TypeOK /\ Phases /\ Queues /\ Stamps /\ Decisions /\ PositionsMatchJournal

----------------------------------------------------------------------------
LEMMA InitInv == Init => Inv
<1> SUFFICES ASSUME Init PROVE Inv
    OBVIOUS
<1>1. TypeOK
  <2>1. /\ equity \in Int
        /\ armed \in BOOLEAN
        /\ NoKey \in Int
    BY EngineAssumption, RiskAssumption DEF Init, NoKey
  <2>2. risk \in RiskState
    BY RiskInitType DEF Init
  <2>3. /\ NoPending \in [Symbols -> SUBSET Orders]
        /\ Flat \in [Symbols -> Int]
    BY DEF NoPending, Flat
  <2> QED
    BY <2>1, <2>2, <2>3 DEF Init, TypeOK
<1>2. Phases /\ Queues /\ Stamps /\ Decisions /\ PositionsMatchJournal
    BY DEF Init, Phases, Queues, Stamps, NoLookAhead, Decisions, Fills, Flat,
           NoPending, FillsWereDecided, PositionsMatchJournal
<1> QED
    BY <1>1, <1>2 DEF Inv

LEMMA DeltaOrderType ==
    ASSUME TypeOK, NEW s \in Symbols, NEW target \in Targets
    PROVE  DeltaOrder(s, target) \in Orders
BY EngineAssumption DEF TypeOK, DeltaOrder, Orders, Halted

LEMMA TypeStep == TypeOK /\ [Next]_vars => TypeOK'
<1> SUFFICES ASSUME TypeOK, [Next]_vars PROVE TypeOK'
    OBVIOUS
<1> USE DEF TypeOK, market, files
<1>1. ASSUME NEW S \in SUBSET Symbols, NEW t \in 0..MaxTime, DeliverGroup(S, t)
      PROVE  TypeOK'
    BY <1>1, EngineAssumption DEF DeliverGroup
<1>2. ASSUME NEW s \in Symbols, ProcessOpen(s) PROVE TypeOK'
    BY <1>2 DEF ProcessOpen
<1>3. ASSUME NEW o \in fills, SettleFill(o) PROVE TypeOK'
    BY <1>3 DEF SettleFill, Events, Orders
<1>4. ASSUME NEW ev \in unwritten, WriteFillLine(ev.order) PROVE TypeOK'
    BY <1>4 DEF WriteFillLine, Events, Orders, Id
<1>5. ASSUME NEW ev \in unwritten, WriteDecisionLine(ev.order) PROVE TypeOK'
    BY <1>5 DEF WriteDecisionLine, Events, Orders, Id
<1>6. ASSUME NEW worth \in Equities \cup {equity}, MarkClose(worth) PROVE TypeOK'
  <2>1. worth \in Int /\ now + 1 \in Nat
    BY EngineAssumption
  <2>2. risk' \in RiskState
    BY <1>6, <2>1, RiskUpdateType DEF MarkClose
  <2>3. risk'.reasons \subseteq Periods
    BY <2>2 DEF RiskState
  <2>4. \A p \in risk'.reasons : PeriodOf(p, now + 1) \in Int
    BY <2>1, <2>3, PeriodOfType
  <2>5. kill' \subseteq Reasons
    BY <1>6, <2>3 DEF MarkClose, SyncDrawdownHalt, Reasons
  <2>6. halts' \subseteq Nat \X Periods \X Int
    <3>1. halts' = halts \cup
              {<<starts, p, PeriodOf(p, now + 1)>> : p \in risk'.reasons}
        BY <1>6, Zenon DEF MarkClose
    <3>2. \A p \in risk'.reasons :
              <<starts, p, PeriodOf(p, now + 1)>> \in Nat \X Periods \X Int
        BY <2>3, <2>4
    <3> QED
        BY <3>1, <3>2
  <2> QED
    BY <1>6, <2>1, <2>2, <2>5, <2>6 DEF MarkClose
<1>7. ASSUME NEW s \in Symbols, JournalOnly(s) PROVE TypeOK'
    BY <1>7 DEF JournalOnly, Deciding
<1>8. ASSUME NEW s \in Symbols, NEW target \in Targets, Hold(s, target)
      PROVE  TypeOK'
    BY <1>8 DEF Hold, Deciding
<1>9. ASSUME NEW s \in Symbols, NEW target \in Targets, QueueOrder(s, target)
      PROVE  TypeOK'
    BY <1>9, DeltaOrderType DEF QueueOrder, Deciding, Events
<1>10. CASE SnapshotState
    BY <1>10 DEF SnapshotState
<1>11. CASE CheckStaleness
    BY <1>11 DEF CheckStaleness, Reasons
<1>12. ASSUME NEW a \in Armings, Restart(a) PROVE TypeOK'
    BY <1>12, EngineAssumption, RiskInitType DEF Restart, RestoredOrders
<1>13. CASE UNCHANGED vars
    BY <1>13 DEF vars, memory
<1> QED
    BY <1>1, <1>2, <1>3, <1>4, <1>5, <1>6, <1>7, <1>8, <1>9, <1>10, <1>11,
       <1>12, <1>13 DEF Next, Step

LEMMA PhasesStep == TypeOK /\ Phases /\ [Next]_vars => Phases'
<1> SUFFICES ASSUME TypeOK, Phases, [Next]_vars PROVE Phases'
    OBVIOUS
<1> USE DEF TypeOK, Phases, Written, market, files
<1>1. ASSUME NEW S \in SUBSET Symbols, NEW t \in 0..MaxTime, DeliverGroup(S, t)
      PROVE  Phases'
    BY <1>1 DEF DeliverGroup
<1>2. ASSUME NEW s \in Symbols, ProcessOpen(s) PROVE Phases'
    BY <1>2 DEF ProcessOpen
<1>3. ASSUME NEW o \in fills, SettleFill(o) PROVE Phases'
    BY <1>3 DEF SettleFill
<1>4. ASSUME NEW ev \in unwritten, WriteFillLine(ev.order) PROVE Phases'
    BY <1>4 DEF WriteFillLine
<1>5. ASSUME NEW ev \in unwritten, WriteDecisionLine(ev.order) PROVE Phases'
    BY <1>5 DEF WriteDecisionLine
<1>6. ASSUME NEW worth \in Equities \cup {equity}, MarkClose(worth) PROVE Phases'
    BY <1>6 DEF MarkClose
<1>7. ASSUME NEW s \in Symbols, JournalOnly(s) PROVE Phases'
    BY <1>7 DEF JournalOnly, Deciding
<1>8. ASSUME NEW s \in Symbols, NEW target \in Targets, Hold(s, target)
      PROVE  Phases'
    BY <1>8 DEF Hold, Deciding
<1>9. ASSUME NEW s \in Symbols, NEW target \in Targets, QueueOrder(s, target)
      PROVE  Phases'
    BY <1>9 DEF QueueOrder, Deciding
<1>10. CASE SnapshotState
    BY <1>10 DEF SnapshotState
<1>11. CASE CheckStaleness
    BY <1>11 DEF CheckStaleness
<1>12. ASSUME NEW a \in Armings, Restart(a) PROVE Phases'
    BY <1>12 DEF Restart
<1>13. CASE UNCHANGED vars
    BY <1>13 DEF vars, memory
<1> QED
    BY <1>1, <1>2, <1>3, <1>4, <1>5, <1>6, <1>7, <1>8, <1>9, <1>10, <1>11,
       <1>12, <1>13 DEF Next, Step

LEMMA QueuesStep == TypeOK /\ Phases /\ Queues /\ [Next]_vars => Queues'
<1> SUFFICES ASSUME TypeOK, Phases, Queues, [Next]_vars
             PROVE  Queues'
    OBVIOUS
<1> USE DEF TypeOK, Phases, Queues, Written, Orders, market, files
<1>1. ASSUME NEW S \in SUBSET Symbols, NEW t \in 0..MaxTime, DeliverGroup(S, t)
      PROVE  Queues'
    BY <1>1 DEF DeliverGroup
<1>2. ASSUME NEW s \in Symbols, ProcessOpen(s) PROVE Queues'
    BY <1>2 DEF ProcessOpen
<1>3. ASSUME NEW o \in fills, SettleFill(o) PROVE Queues'
    BY <1>3 DEF SettleFill
<1>4. ASSUME NEW ev \in unwritten, WriteFillLine(ev.order) PROVE Queues'
    BY <1>4 DEF WriteFillLine
<1>5. ASSUME NEW ev \in unwritten, WriteDecisionLine(ev.order) PROVE Queues'
    BY <1>5 DEF WriteDecisionLine
<1>6. ASSUME NEW worth \in Equities \cup {equity}, MarkClose(worth)
      PROVE  Queues'
    BY <1>6 DEF MarkClose
<1>7. ASSUME NEW s \in Symbols, JournalOnly(s) PROVE Queues'
    BY <1>7 DEF JournalOnly, Deciding
<1>8. ASSUME NEW s \in Symbols, NEW target \in Targets, Hold(s, target)
      PROVE  Queues'
    BY <1>8 DEF Hold, Deciding
<1>9. ASSUME NEW s \in Symbols, NEW target \in Targets, QueueOrder(s, target)
      PROVE  Queues'
    BY <1>9 DEF QueueOrder, Deciding, DeltaOrder
<1>10. CASE SnapshotState
    BY <1>10 DEF SnapshotState
<1>11. CASE CheckStaleness
    BY <1>11 DEF CheckStaleness
<1>12. ASSUME NEW a \in Armings, Restart(a) PROVE Queues'
    BY <1>12 DEF Restart, RestoredOrders
<1>13. CASE UNCHANGED vars
    BY <1>13 DEF vars, memory
<1> QED
    BY <1>1, <1>2, <1>3, <1>4, <1>5, <1>6, <1>7, <1>8, <1>9, <1>10, <1>11,
       <1>12, <1>13 DEF Next, Step

LEMMA StampsStep == TypeOK /\ Phases /\ Queues /\ Stamps /\ [Next]_vars => Stamps'
<1> SUFFICES ASSUME TypeOK, Phases, Queues, Stamps, [Next]_vars
             PROVE  Stamps'
    OBVIOUS
<1> USE DEF TypeOK, Phases, Queues, Stamps, NoLookAhead, Written, Orders, market, files
<1>1. ASSUME NEW S \in SUBSET Symbols, NEW t \in 0..MaxTime, DeliverGroup(S, t)
      PROVE  Stamps'
    BY <1>1 DEF DeliverGroup
<1>2. ASSUME NEW s \in Symbols, ProcessOpen(s) PROVE Stamps'
    BY <1>2 DEF ProcessOpen
<1>3. ASSUME NEW o \in fills, SettleFill(o) PROVE Stamps'
    BY <1>3 DEF SettleFill
<1>4. ASSUME NEW ev \in unwritten, WriteFillLine(ev.order) PROVE Stamps'
    BY <1>4 DEF WriteFillLine
<1>5. ASSUME NEW ev \in unwritten, WriteDecisionLine(ev.order) PROVE Stamps'
    BY <1>5 DEF WriteDecisionLine
<1>6. ASSUME NEW worth \in Equities \cup {equity}, MarkClose(worth)
      PROVE  Stamps'
    BY <1>6 DEF MarkClose
<1>7. ASSUME NEW s \in Symbols, JournalOnly(s) PROVE Stamps'
    BY <1>7 DEF JournalOnly, Deciding
<1>8. ASSUME NEW s \in Symbols, NEW target \in Targets, Hold(s, target)
      PROVE  Stamps'
    BY <1>8 DEF Hold, Deciding
<1>9. ASSUME NEW s \in Symbols, NEW target \in Targets, QueueOrder(s, target)
      PROVE  Stamps'
    BY <1>9 DEF QueueOrder, Deciding, DeltaOrder
<1>10. CASE SnapshotState
    BY <1>10 DEF SnapshotState
<1>11. CASE CheckStaleness
    BY <1>11 DEF CheckStaleness
<1>12. ASSUME NEW a \in Armings, Restart(a) PROVE Stamps'
    BY <1>12 DEF Restart, RestoredOrders
<1>13. CASE UNCHANGED vars
    BY <1>13 DEF vars, memory
<1> QED
    BY <1>1, <1>2, <1>3, <1>4, <1>5, <1>6, <1>7, <1>8, <1>9, <1>10, <1>11,
       <1>12, <1>13 DEF Next, Step

LEMMA DecisionsStep == TypeOK /\ Phases /\ Decisions /\ [Next]_vars => Decisions'
<1> SUFFICES ASSUME TypeOK, Phases, Decisions, [Next]_vars
             PROVE  Decisions'
    OBVIOUS
<1> USE DEF TypeOK, Phases, Decisions, Fills, FillsWereDecided, Id, Written, Orders, Events,
           market, files
<1>1. ASSUME NEW S \in SUBSET Symbols, NEW t \in 0..MaxTime, DeliverGroup(S, t)
      PROVE  Decisions'
    BY <1>1 DEF DeliverGroup
<1>2. ASSUME NEW s \in Symbols, ProcessOpen(s) PROVE Decisions'
    BY <1>2 DEF ProcessOpen
<1>3. ASSUME NEW o \in fills, SettleFill(o) PROVE Decisions'
    BY <1>3 DEF SettleFill
<1>4. ASSUME NEW ev \in unwritten, WriteFillLine(ev.order) PROVE Decisions'
    BY <1>4 DEF WriteFillLine
<1>5. ASSUME NEW ev \in unwritten, WriteDecisionLine(ev.order) PROVE Decisions'
    BY <1>5 DEF WriteDecisionLine
<1>6. ASSUME NEW worth \in Equities \cup {equity}, MarkClose(worth)
      PROVE  Decisions'
    BY <1>6 DEF MarkClose
<1>7. ASSUME NEW s \in Symbols, JournalOnly(s) PROVE Decisions'
    BY <1>7 DEF JournalOnly, Deciding
<1>8. ASSUME NEW s \in Symbols, NEW target \in Targets, Hold(s, target)
      PROVE  Decisions'
    BY <1>8 DEF Hold, Deciding
<1>9. ASSUME NEW s \in Symbols, NEW target \in Targets, QueueOrder(s, target)
      PROVE  Decisions'
    BY <1>9 DEF QueueOrder, Deciding, DeltaOrder
<1>10. CASE SnapshotState
    BY <1>10 DEF SnapshotState
<1>11. CASE CheckStaleness
    BY <1>11 DEF CheckStaleness
<1>12. ASSUME NEW a \in Armings, Restart(a) PROVE Decisions'
    BY <1>12 DEF Restart, RestoredOrders
<1>13. CASE UNCHANGED vars
    BY <1>13 DEF vars, memory
<1> QED
    BY <1>1, <1>2, <1>3, <1>4, <1>5, <1>6, <1>7, <1>8, <1>9, <1>10, <1>11,
       <1>12, <1>13 DEF Next, Step

LEMMA JournalStep == TypeOK /\ Phases /\ PositionsMatchJournal /\ [Next]_vars => PositionsMatchJournal'
<1> SUFFICES ASSUME TypeOK, Phases, PositionsMatchJournal, [Next]_vars
             PROVE  PositionsMatchJournal'
    OBVIOUS
<1> USE DEF TypeOK, Phases, PositionsMatchJournal, Written, Orders, Events,
           market, files
<1>1. ASSUME NEW S \in SUBSET Symbols, NEW t \in 0..MaxTime, DeliverGroup(S, t)
      PROVE  PositionsMatchJournal'
    BY <1>1 DEF DeliverGroup
<1>2. ASSUME NEW s \in Symbols, ProcessOpen(s) PROVE PositionsMatchJournal'
    BY <1>2 DEF ProcessOpen
<1>3. ASSUME NEW o \in fills, SettleFill(o) PROVE PositionsMatchJournal'
    BY <1>3 DEF SettleFill
<1>4. ASSUME NEW ev \in unwritten, WriteFillLine(ev.order)
      PROVE  PositionsMatchJournal'
    BY <1>4 DEF WriteFillLine
<1>5. ASSUME NEW ev \in unwritten, WriteDecisionLine(ev.order)
      PROVE  PositionsMatchJournal'
    BY <1>5 DEF WriteDecisionLine
<1>6. ASSUME NEW worth \in Equities \cup {equity}, MarkClose(worth)
      PROVE  PositionsMatchJournal'
    BY <1>6 DEF MarkClose
<1>7. ASSUME NEW s \in Symbols, JournalOnly(s) PROVE PositionsMatchJournal'
    BY <1>7 DEF JournalOnly, Deciding
<1>8. ASSUME NEW s \in Symbols, NEW target \in Targets, Hold(s, target)
      PROVE  PositionsMatchJournal'
    BY <1>8 DEF Hold, Deciding
<1>9. ASSUME NEW s \in Symbols, NEW target \in Targets, QueueOrder(s, target)
      PROVE  PositionsMatchJournal'
    BY <1>9 DEF QueueOrder, Deciding, DeltaOrder
<1>10. CASE SnapshotState
    BY <1>10 DEF SnapshotState
<1>11. CASE CheckStaleness
    BY <1>11 DEF CheckStaleness
<1>12. ASSUME NEW a \in Armings, Restart(a) PROVE PositionsMatchJournal'
    BY <1>12 DEF Restart, RestoredOrders
<1>13. CASE UNCHANGED vars
    BY <1>13 DEF vars, memory
<1> QED
    BY <1>1, <1>2, <1>3, <1>4, <1>5, <1>6, <1>7, <1>8, <1>9, <1>10, <1>11,
       <1>12, <1>13 DEF Next, Step

THEOREM Invariance == Spec => []Inv
<1>1. Inv /\ [Next]_vars => Inv'
    BY TypeStep, PhasesStep, QueuesStep, StampsStep, DecisionsStep, JournalStep
    DEF Inv
<1> QED
    BY InitInv, <1>1, PTL DEF Spec

\* Every variable stays in the set its declaration in the code gives it.
THEOREM TypeCorrect == Spec => []TypeOK
<1>1. Inv => TypeOK
    BY DEF Inv
<1> QED
    BY Invariance, <1>1, PTL

\* Wherever the process dies and however often it starts, the positions in
\* memory are those decisions.jsonl replays to (engine.py:595-609).
THEOREM JournalCorrect == Spec => []PositionsMatchJournal
<1>1. Inv => PositionsMatchJournal
    BY DEF Inv
<1> QED
    BY Invariance, <1>1, PTL

\* No symbol ever has two orders on their way, so no two fills overshoot a
\* target (oms.py:101-103), restored orders (engine.py:622-625) included.
THEOREM OneOrder == Spec => []OneOrderPerSymbol
<1>1. Inv => OneOrderPerSymbol
  <2> SUFFICES ASSUME Inv, NEW s \in Symbols,
                      NEW a \in Outstanding(s), NEW b \in Outstanding(s)
               PROVE  a = b
    BY DEF OneOrderPerSymbol
  <2> USE DEF Inv, Queues, Phases, Outstanding
  <2>1. CASE fills = {}
    BY <2>1
  <2>2. ASSUME NEW o \in fills, o.sym = s PROVE a = b
    <3>1. pc = "open" /\ pending[s] = {}
        BY <2>2 DEF TypeOK
    <3> QED
        BY <3>1
  <2>3. CASE \A o \in fills : o.sym # s
    BY <2>3
  <2> QED
    BY <2>2, <2>3
<1> QED
    BY Invariance, <1>1, PTL

\* A fill never precedes, and never survives the loss of, the decision line it
\* executes (engine.py:367-375, 406).
THEOREM DecidedFirst == Spec => []FillsWereDecided
<1>1. Inv => FillsWereDecided
    BY DEF Inv, Decisions
<1> QED
    BY Invariance, <1>1, PTL

\* No order fills at the open of the bar it was decided on, or of an earlier
\* one (mre/venue.py:3-4).
THEOREM NoLookAheadEver == Spec => []NoLookAhead
<1>1. Inv => NoLookAhead
    BY DEF Inv, Stamps
<1> QED
    BY Invariance, <1>1, PTL

----------------------------------------------------------------------------
(***************************************************************************)
(* A halt lasts its period.  The manager forgets a halt only when its key  *)
(* moves on, and it never moves back: halts of the running process are of  *)
(* periods no later than the manager's, and of its current one only if the *)
(* manager still holds the reason.                                         *)
(***************************************************************************)
HaltsKept ==
    /\ \A h \in halts : h[1] <= starts
    /\ \A p \in Periods, k \in Int :
         <<starts, p, k>> \in halts =>
            /\ k <= risk.key[p]
            /\ k = risk.key[p] => p \in risk.reasons

\* The keys of the manager are those of the last close it saw.
KeysFollowFeed ==
    /\ pc = "decide" => \A p \in Periods : risk.key[p] = PeriodOf(p, now + 1)
    /\ \A p \in Periods, t \in Nat :
         (\A s \in Symbols : feed[s] <= t) => risk.key[p] <= PeriodOf(p, t + 1)

LEMMA KeysStep ==
    TypeOK /\ Phases /\ Stamps /\ KeysFollowFeed /\ [Next]_vars => KeysFollowFeed'
<1> SUFFICES ASSUME TypeOK, Phases, Stamps, KeysFollowFeed, [Next]_vars
             PROVE  KeysFollowFeed'
    OBVIOUS
<1> USE DEF TypeOK, Phases, market, files
<1>1. ASSUME NEW S \in SUBSET Symbols, NEW t \in 0..MaxTime, DeliverGroup(S, t)
      PROVE  KeysFollowFeed'
  <2>1. \A s \in Symbols : feed[s] <= feed'[s] /\ feed'[s] \in Int
    BY <1>1 DEF DeliverGroup
  <2>2. \A u \in Nat : (\A s \in Symbols : feed'[s] <= u)
                         => \A s \in Symbols : feed[s] <= u
    BY <2>1
  <2>3. pc' = "open" /\ risk' = risk
    BY <1>1 DEF DeliverGroup
  <2> QED
    BY <2>2, <2>3, Zenon DEF KeysFollowFeed
<1>2. ASSUME NEW worth \in Equities \cup {equity}, MarkClose(worth)
      PROVE  KeysFollowFeed'
  <2>1. \A p \in Periods : risk'.key[p] = PeriodOf(p, now + 1)
    BY <1>2 DEF MarkClose, RiskUpdate
  <2>2. ASSUME NEW p \in Periods, NEW t \in Nat, \A s \in Symbols : feed[s] <= t
        PROVE  PeriodOf(p, now + 1) <= PeriodOf(p, t + 1)
    <3>1. PICK s \in syms : feed[s] = now
        BY <1>2 DEF MarkClose, Stamps
    <3>2. now + 1 \in Nat /\ t + 1 \in Nat /\ now + 1 <= t + 1
        BY <2>2, <3>1
    <3> QED
        BY <3>2, PeriodOfMonotone, Zenon
  <2> QED
    BY <1>2, <2>1, <2>2 DEF MarkClose, KeysFollowFeed
<1>3. ASSUME NEW a \in Armings, Restart(a) PROVE KeysFollowFeed'
  <2>1. \A p \in Periods, t \in Nat : NoKey <= PeriodOf(p, t + 1)
    <3>1. \A p \in Periods, t \in Nat : PeriodOf(p, t + 1) \in Nat
        BY PeriodOfType
    <3> QED
        BY <3>1 DEF NoKey
  <2> QED
    BY <1>3, <2>1 DEF Restart, RiskInit, KeysFollowFeed
<1>4. CASE SnapshotState
    BY <1>4 DEF SnapshotState, KeysFollowFeed
<1>5. CASE UNCHANGED <<pc, now, feed, risk>>
    BY <1>5 DEF KeysFollowFeed
<1> QED
    BY <1>1, <1>2, <1>3, <1>4, <1>5
    DEF Next, Step, ProcessOpen, SettleFill, WriteFillLine, WriteDecisionLine,
        JournalOnly, Hold, QueueOrder, Deciding, CheckStaleness, vars, memory

LEMMA HaltsStep ==
    TypeOK /\ Stamps /\ KeysFollowFeed /\ HaltsKept /\ [Next]_vars => HaltsKept'
<1> SUFFICES ASSUME TypeOK, Stamps, KeysFollowFeed, HaltsKept, [Next]_vars
             PROVE  HaltsKept'
    OBVIOUS
<1> USE DEF TypeOK, market, files
<1>1. ASSUME NEW worth \in Equities \cup {equity}, MarkClose(worth)
      PROVE  HaltsKept'
  <2>1. starts' = starts
    BY <1>1 DEF MarkClose
  <2>2. halts' = halts \cup
            {<<starts, p, PeriodOf(p, now + 1)>> : p \in risk'.reasons}
    BY <1>1, Zenon DEF MarkClose
  <2>3. \A p \in Periods :
            /\ risk'.key[p] = PeriodOf(p, now + 1)
            /\ p \in risk.reasons /\ PeriodOf(p, now + 1) = risk.key[p]
                  => p \in risk'.reasons
    BY <1>1 DEF MarkClose, RiskUpdate
  <2>4. \A h \in halts' : h[1] <= starts'
    BY <2>1, <2>2 DEF HaltsKept
  <2>5. ASSUME NEW p \in Periods, NEW k \in Int, <<starts, p, k>> \in halts'
        PROVE  k <= risk'.key[p] /\ (k = risk'.key[p] => p \in risk'.reasons)
    <3>1. now + 1 \in Nat /\ PeriodOf(p, now + 1) \in Int /\ risk.key[p] \in Int
        BY PeriodOfType DEF RiskState
    <3>2. CASE <<starts, p, k>> \in halts
      <4>1. k <= risk.key[p] /\ (k = risk.key[p] => p \in risk.reasons)
        BY <3>2 DEF HaltsKept
      <4>2. risk.key[p] <= PeriodOf(p, now + 1)
        BY <1>1 DEF MarkClose, Stamps, KeysFollowFeed
      <4> QED
        BY <2>3, <3>1, <4>1, <4>2
    <3>3. CASE k = PeriodOf(p, now + 1) /\ p \in risk'.reasons
        BY <2>3, <3>1, <3>3
    <3> QED
        BY <2>2, <2>5, <3>2, <3>3
  <2> QED
    BY <2>1, <2>4, <2>5 DEF HaltsKept
<1>2. ASSUME NEW a \in Armings, Restart(a) PROVE HaltsKept'
  <2>1. starts' = starts + 1 /\ halts' = halts
    BY <1>2 DEF Restart
  <2>2. \A h \in halts : h[1] \in Nat /\ h[1] <= starts
    BY DEF HaltsKept
  <2>3. \A p \in Periods, k \in Int : <<starts + 1, p, k>> \notin halts
    <3>1. \A p \in Periods, k \in Int : <<starts + 1, p, k>>[1] = starts + 1
        OBVIOUS
    <3>2. ~(starts + 1 <= starts)
        OBVIOUS
    <3> QED
        BY <2>2, <3>1, <3>2, Zenon
  <2> QED
    BY <2>1, <2>2, <2>3 DEF HaltsKept
<1>3. CASE UNCHANGED <<starts, risk, halts>>
    BY <1>3 DEF HaltsKept
<1> QED
    BY <1>1, <1>2, <1>3
    DEF Next, Step, DeliverGroup, ProcessOpen, SettleFill, WriteFillLine,
        WriteDecisionLine, JournalOnly, Hold, QueueOrder, Deciding,
        SnapshotState, CheckStaleness, vars, memory

\* For as long as a process lives, a layer halted in a period lets no order of
\* that period through but one to a flat target (mre/risk.py:3-6, 90-104).
THEOREM HaltLasts == Spec => HaltLastsPeriod
<1> DEFINE HInv == Inv /\ KeysFollowFeed /\ HaltsKept
           HStep == starts' = starts =>
                      \A o \in NewOrders : HaltedPeriod(o, {starts}) => o.target = 0
<1>1. Init => HInv
  <2> SUFFICES ASSUME Init PROVE HInv
    OBVIOUS
  <2>1. \A p \in Periods, t \in Nat : NoKey <= PeriodOf(p, t + 1)
    <3>1. \A p \in Periods, t \in Nat : PeriodOf(p, t + 1) \in Nat
        BY PeriodOfType
    <3> QED
        BY <3>1 DEF NoKey
  <2> QED
    BY <2>1, InitInv DEF Init, RiskInit, KeysFollowFeed, HaltsKept
<1>2. HInv /\ [Next]_vars => HInv'
    BY TypeStep, PhasesStep, QueuesStep, StampsStep, DecisionsStep, JournalStep,
       KeysStep, HaltsStep
    DEF Inv
<1>3. HInv /\ [Next]_vars => [HStep]_vars
  <2> SUFFICES ASSUME HInv, Next, starts' = starts, NEW o \in NewOrders,
                      NEW p \in Periods,
                      <<starts, p, PeriodOf(p, o.t)>> \in halts
               PROVE  o.target = 0
    BY DEF HaltedPeriod
  <2> USE DEF Inv, TypeOK, market, files
  <2>1. ASSUME NEW s \in Symbols, NEW target \in Targets, QueueOrder(s, target)
        PROVE  o.target = 0
    <3>1. o = DeltaOrder(s, target)
        BY <2>1 DEF QueueOrder, Deciding, NewOrders
    <3>2. o.t = now + 1 /\ o.target = target
        BY <3>1 DEF DeltaOrder
    <3>3. PeriodOf(p, o.t) = risk.key[p] /\ risk.key[p] \in Int
        BY <2>1, <3>2 DEF QueueOrder, Deciding, KeysFollowFeed, RiskState
    <3>4. p \in risk.reasons
        BY <3>3 DEF HaltsKept
    <3> QED
        BY <2>1, <3>2, <3>4 DEF QueueOrder, Allowed, Halted
  <2>2. ASSUME NEW s \in Symbols, ProcessOpen(s) PROVE o.target = 0
    BY <2>2 DEF ProcessOpen, NewOrders
  <2>3. CASE pending' = pending
    BY <2>3 DEF NewOrders
  <2>4. ASSUME NEW a \in Armings, Restart(a) PROVE o.target = 0
    BY <2>4 DEF Restart
  <2> QED
    BY <2>1, <2>2, <2>3, <2>4
    DEF Next, Step, DeliverGroup, SettleFill, WriteFillLine, WriteDecisionLine,
        MarkClose, JournalOnly, Hold, Deciding, SnapshotState, CheckStaleness
<1> QED
    BY <1>1, <1>2, <1>3, PTL DEF Spec, HaltLastsPeriod

\* No bar, drawdown or new period ends a staleness halt (engine.py:307-318).
THEOREM StalenessLatched == Spec => StalenessHaltLatched
<1>1. TypeOK /\ [Next]_vars =>
        [(Staleness \in kill /\ starts' = starts) => (Staleness \in kill')]_vars
  <2> SUFFICES ASSUME TypeOK, Next, Staleness \in kill, starts' = starts
               PROVE  Staleness \in kill'
    OBVIOUS
  <2>1. ASSUME NEW worth \in Equities \cup {equity}, MarkClose(worth)
        PROVE  Staleness \in kill'
    BY <2>1, EngineAssumption DEF MarkClose, SyncDrawdownHalt
  <2>2. CASE CheckStaleness
    BY <2>2 DEF CheckStaleness
  <2>3. ASSUME NEW a \in Armings, Restart(a) PROVE FALSE
    BY <2>3 DEF Restart, TypeOK
  <2>4. CASE kill' = kill
    BY <2>4
  <2> QED
    BY <2>1, <2>2, <2>3, <2>4
    DEF Next, Step, DeliverGroup, ProcessOpen, SettleFill, WriteFillLine,
        WriteDecisionLine, JournalOnly, Hold, QueueOrder, Deciding, SnapshotState
<1> QED
    BY TypeCorrect, <1>1, PTL DEF Spec, StalenessHaltLatched

----------------------------------------------------------------------------
(***************************************************************************)
(* A process that is only ever stopped between two bars.  state.json then  *)
(* holds what the queue holds, and every order on its way still takes its  *)
(* symbol to the target it was decided for and has not been executed.      *)
(***************************************************************************)
OnTheirWay ==
    \A s \in Symbols : \A o \in Outstanding(s) :
        /\ o.sym = s
        /\ pos[s] + o.qty = o.target
        /\ o.halted => o.target = 0
        /\ Id(o) \notin Executed

Settled ==
    /\ pc = "idle" => snap.pending = pending
    /\ OnTheirWay
    /\ \A s \in Symbols, t \in Nat : <<s, t>> \in Executed => t <= feed[s]

\* Handing an order over at the open leaves it on its way.
LEMMA OpenKeeps ==
    ASSUME TypeOK, Phases, Queues, NEW s \in Symbols, ProcessOpen(s)
    PROVE  \A x \in Symbols : Outstanding(x)' = Outstanding(x)
BY DEF TypeOK, Phases, Queues, ProcessOpen, Outstanding

\* A settled fill was the only order of its symbol, and no other moves.
LEMMA SettleRemoves ==
    ASSUME TypeOK, Phases, Queues, NEW o \in fills, SettleFill(o)
    PROVE  /\ o.sym \in Symbols
           /\ Outstanding(o.sym) = {o}
           /\ Outstanding(o.sym)' = {}
           /\ \A x \in Symbols \ {o.sym} : Outstanding(x)' = Outstanding(x)
           /\ Executed' = Executed \cup {Id(o)}
<1>1. o.sym \in syms \ todo /\ o.sym \in Symbols /\ fills = {o}
    BY DEF TypeOK, Queues
<1>2. pc = "open" /\ pending[o.sym] = {}
    BY <1>1 DEF TypeOK, Phases, Queues
<1>3. fills' = {} /\ pending' = pending
    BY <1>1 DEF SettleFill
<1>4. Executed' = Executed \cup {Id(o)}
  <2>1. Fills = {} /\ Fills' = {[kind |-> "fill", order |-> o]} /\ filled' = filled
    BY DEF SettleFill, Fills, Written, files
  <2> QED
    BY <2>1 DEF Executed, Id
<1> QED
    BY <1>1, <1>2, <1>3, <1>4 DEF Outstanding

\* The symbol of a new order had none.
LEMMA QueueAdds ==
    ASSUME TypeOK, Phases, Queues, NEW s \in Symbols, NEW target \in Targets,
           QueueOrder(s, target)
    PROVE  /\ Outstanding(s) = {}
           /\ Outstanding(s)' = {DeltaOrder(s, target)}
           /\ \A x \in Symbols \ {s} : Outstanding(x)' = Outstanding(x)
           /\ Executed' = Executed
BY DEF TypeOK, Phases, Queues, QueueOrder, Deciding, DeltaOrder, Outstanding,
       Executed, Fills, Written, files

\* Writing a fill's line does not execute it again.
LEMMA FillLineExecutesNothing ==
    ASSUME TypeOK, Phases, NEW ev \in unwritten, WriteFillLine(ev.order)
    PROVE  Executed' = Executed
<1>1. /\ Fills = {[kind |-> "fill", order |-> ev.order]}
      /\ Fills' = {}
      /\ filled' = filled \cup {Id(ev.order)}
    BY DEF WriteFillLine, Fills, Phases
<1> QED
    BY <1>1 DEF Executed, Id

\* Orders that stay on their way, in an account that keeps what they start
\* from, stay as they are.
LEMMA NothingExecuted ==
    ASSUME OnTheirWay, Executed' = Executed, pos' = pos,
           \A s \in Symbols : Outstanding(s)' = Outstanding(s)
    PROVE  OnTheirWay'
BY DEF OnTheirWay, Id

LEMMA OnTheirWayStep ==
    ASSUME ~CrashAnywhere, Inv, Settled, [Next]_vars
    PROVE  OnTheirWay'
<1> USE DEF Inv, Settled
<1>1. ASSUME NEW s \in Symbols, ProcessOpen(s) PROVE OnTheirWay'
  <2>1. Executed' = Executed /\ pos' = pos
    BY <1>1 DEF ProcessOpen, Executed, Fills, market, files
  <2> QED
    BY <1>1, <2>1, OpenKeeps, NothingExecuted
<1>2. ASSUME NEW o \in fills, SettleFill(o) PROVE OnTheirWay'
  <2>1. \A x \in Symbols \ {o.sym} : pos'[x] = pos[x]
    BY <1>2 DEF SettleFill, TypeOK
  <2>2. ASSUME NEW x \in Symbols, NEW y \in Outstanding(x)'
        PROVE  x # o.sym /\ y \in Outstanding(x) /\ Id(y) # Id(o)
    BY <1>2, <2>2, SettleRemoves DEF OnTheirWay, Id
  <2>3. Executed' = Executed \cup {Id(o)}
    BY <1>2, SettleRemoves
  <2> QED
    BY <2>1, <2>2, <2>3 DEF OnTheirWay
<1>3. ASSUME NEW ev \in unwritten, WriteFillLine(ev.order) PROVE OnTheirWay'
  <2>1. Executed' = Executed
    BY <1>3, FillLineExecutesNothing
  <2>2. pos' = pos /\ \A s \in Symbols : Outstanding(s)' = Outstanding(s)
    BY <1>3 DEF WriteFillLine, Outstanding
  <2> QED
    BY <2>1, <2>2, NothingExecuted
<1>4. ASSUME NEW ev \in unwritten, WriteDecisionLine(ev.order)
      PROVE  OnTheirWay'
  <2>1. Executed' = Executed
    BY <1>4 DEF WriteDecisionLine, Executed, Fills, Phases
  <2>2. pos' = pos /\ \A s \in Symbols : Outstanding(s)' = Outstanding(s)
    BY <1>4 DEF WriteDecisionLine, Outstanding
  <2> QED
    BY <2>1, <2>2, NothingExecuted
<1>5. ASSUME NEW s \in Symbols, NEW target \in Targets, QueueOrder(s, target)
      PROVE  OnTheirWay'
  <2> DEFINE o == DeltaOrder(s, target)
  <2>1. o.sym = s /\ o.qty = target - pos[s] /\ o.target = target /\ o.t = now + 1
    BY DEF DeltaOrder
  <2>2. pos[s] + o.qty = o.target
    BY <2>1, EngineAssumption DEF TypeOK
  <2>3. o.halted => o.target = 0
    BY <1>5 DEF QueueOrder, Allowed, DeltaOrder
  <2>4. Id(o) \notin Executed
    <3>1. feed[s] = now
        BY <1>5 DEF QueueOrder, Deciding, Stamps, Phases
    <3> QED
        BY <2>1, <3>1 DEF Id, TypeOK
  <2>5. pos' = pos
    BY <1>5 DEF QueueOrder, Deciding
  <2> HIDE DEF o
  <2>6. ASSUME NEW x \in Symbols, NEW y \in Outstanding(x)'
        PROVE  (x = s /\ y = o) \/ y \in Outstanding(x)
    BY <1>5, <2>6, QueueAdds DEF o
  <2>7. Executed' = Executed
    BY <1>5, QueueAdds
  <2>8. ASSUME NEW x \in Symbols, NEW y \in Outstanding(x)'
        PROVE  /\ y.sym = x
               /\ pos'[x] + y.qty = y.target
               /\ y.halted => y.target = 0
               /\ Id(y) \notin Executed'
    <3>1. CASE x = s /\ y = o
        BY <2>1, <2>2, <2>3, <2>4, <2>5, <2>7, <3>1
    <3>2. CASE y \in Outstanding(x)
        BY <2>5, <2>7, <3>2 DEF OnTheirWay
    <3> QED
        BY <2>6, <2>8, <3>1, <3>2
  <2> QED
    BY <2>8 DEF OnTheirWay, Id
<1>6. ASSUME NEW a \in Armings, Restart(a) PROVE OnTheirWay'
  <2>1. pc = "idle" /\ fills = {} /\ unwritten = {}
    BY <1>6 DEF Restart, Phases
  <2>2. pos' = pos
    BY <1>6, <2>1 DEF Restart, PositionsMatchJournal, TypeOK
  <2>3. pending' = pending /\ fills' = fills /\ unwritten' = unwritten /\ filled' = filled
    BY <1>6, <2>1 DEF Restart, RestoredOrders, files
  <2> QED
    BY <2>2, <2>3, NothingExecuted DEF Outstanding, Executed, Fills
<1>7. CASE UNCHANGED <<pos, pending, fills, unwritten, filled>>
  <2>1. Executed' = Executed /\ \A s \in Symbols : Outstanding(s)' = Outstanding(s)
    BY <1>7 DEF Executed, Fills, Outstanding
  <2> QED
    BY <1>7, <2>1, NothingExecuted
<1> QED
    BY <1>1, <1>2, <1>3, <1>4, <1>5, <1>6, <1>7
    DEF Next, Step, DeliverGroup, MarkClose, JournalOnly, Hold, Deciding,
        SnapshotState, CheckStaleness, vars, memory, files

LEMMA SettledStep ==
    ASSUME ~CrashAnywhere, Inv, Settled, [Next]_vars
    PROVE  Settled'
<1> USE DEF Inv, Settled
<1>1. (pc = "idle" => snap.pending = pending)'
  <2>1. CASE SnapshotState
    BY <2>1 DEF SnapshotState
  <2>2. ASSUME NEW a \in Armings, Restart(a) PROVE pending' = snap'.pending
    BY <2>2 DEF Restart, RestoredOrders, files
  <2>3. CASE UNCHANGED <<pc, pending, snap>>
    BY <2>3
  <2>4. CASE pc' # "idle"
    BY <2>4
  <2> QED
    BY <2>1, <2>2, <2>3, <2>4
    DEF Next, Step, DeliverGroup, ProcessOpen, SettleFill, WriteFillLine,
        WriteDecisionLine, MarkClose, JournalOnly, Hold, QueueOrder, Deciding,
        CheckStaleness, vars, memory, files
<1>2. (\A s \in Symbols, t \in Nat : <<s, t>> \in Executed => t <= feed[s])'
  <2>1. \A s \in Symbols : feed[s] <= feed'[s] /\ feed[s] \in Int /\ feed'[s] \in Int
    <3>1. ASSUME NEW S \in SUBSET Symbols, NEW t \in 0..MaxTime, DeliverGroup(S, t)
          PROVE  \A s \in Symbols : feed[s] <= feed'[s]
        BY <3>1 DEF DeliverGroup, TypeOK
    <3>2. CASE feed' = feed
        BY <3>2 DEF TypeOK
    <3>3. \A s \in Symbols : feed[s] <= feed'[s]
        BY <3>1, <3>2
        DEF Next, Step, ProcessOpen, SettleFill, WriteFillLine, WriteDecisionLine,
            MarkClose, JournalOnly, Hold, QueueOrder, Deciding, SnapshotState,
            CheckStaleness, Restart, vars, market
    <3>4. TypeOK'
        BY TypeStep
    <3> QED
        BY <3>3, <3>4 DEF TypeOK
  <2>2. ASSUME NEW s \in Symbols, NEW t \in Nat, <<s, t>> \in Executed'
        PROVE  <<s, t>> \in Executed \/ t <= feed[s]
    <3>1. ASSUME NEW o \in fills, SettleFill(o) PROVE <<s, t>> \in Executed \/ t <= feed[s]
      <4>1. o.t <= feed[o.sym]
        BY DEF TypeOK, Queues, Stamps, NoLookAhead, Phases
      <4>2. Executed' = Executed \cup {Id(o)}
        BY <3>1, SettleRemoves
      <4> QED
        BY <2>2, <4>1, <4>2 DEF Id
    <3>2. ASSUME NEW ev \in unwritten, WriteFillLine(ev.order) PROVE Executed' = Executed
        BY <3>2, FillLineExecutesNothing
    <3>3. CASE filled' = filled /\ Fills' \subseteq Fills
        BY <2>2, <3>3 DEF Executed
    <3>4. ASSUME NEW x \in Symbols, NEW target \in Targets, QueueOrder(x, target)
          PROVE  Executed' = Executed
        BY <3>4, QueueAdds
    <3> QED
        BY <2>2, <3>1, <3>2, <3>3, <3>4
        DEF Next, Step, DeliverGroup, ProcessOpen, WriteDecisionLine, MarkClose,
            JournalOnly, Hold, Deciding, SnapshotState, CheckStaleness, Restart,
            Fills, vars, memory, files
  <2> QED
    BY <2>1, <2>2
<1> QED
    BY <1>1, <1>2, OnTheirWayStep

THEOREM SettledAlways == ASSUME ~CrashAnywhere PROVE Spec => [](Inv /\ Settled)
<1>1. Init => Inv /\ Settled
  <2>1. Init => Settled
    BY DEF Init, Settled, OnTheirWay, Outstanding, Executed, Fills, NoPending
  <2> QED
    BY <2>1, InitInv
<1>2. Inv /\ Settled /\ [Next]_vars => (Inv /\ Settled)'
    BY SettledStep, TypeStep, PhasesStep, QueuesStep, StampsStep, DecisionsStep,
       JournalStep
    DEF Inv
<1> QED
    BY <1>1, <1>2, PTL DEF Spec

\* A halted account's orders flatten it (engine.py:348-351), if the process is
\* only ever stopped between bars.
THEOREM HaltedFlatten == ASSUME ~CrashAnywhere PROVE Spec => []HaltedOrdersFlatten
<1>1. Inv /\ Settled => HaltedOrdersFlatten
    BY DEF Settled, OnTheirWay, HaltedOrdersFlatten
<1> QED
    BY SettledAlways, <1>1, PTL

\* Nor is an order settled that decisions.jsonl has the fill of.
THEOREM FilledOnce == ASSUME ~CrashAnywhere PROVE Spec => []FillsOnce
<1>1. Inv /\ Settled => FillsOnce
  <2> SUFFICES ASSUME Inv, Settled, NEW o \in fills PROVE Id(o) \notin filled
    BY DEF FillsOnce
  <2>1. o.sym \in Symbols /\ o \in Outstanding(o.sym)
    BY DEF Inv, TypeOK, Queues, Outstanding
  <2> QED
    BY <2>1 DEF Settled, OnTheirWay, Executed
<1> QED
    BY SettledAlways, <1>1, PTL

\* Stopped and started between bars, however often, the engine is the abstract
\* account: a restart is no step of it, and no order is executed twice
\* (engine.py:595-597).
THEOREM Transparent == ASSUME ~CrashAnywhere PROVE Spec => RestartsTransparently
<1>1. Init => Account!Init
    BY DEF Init, Account!Init, Outstanding, Executed, Fills, NoPending, Flat
<1>2. Inv /\ Settled /\ [Next]_vars => [Account!Next]_(Account!accountVars)
  <2> SUFFICES ASSUME Inv, Settled, [Next]_vars
               PROVE  Account!Next \/ UNCHANGED Account!accountVars
    OBVIOUS
  <2> USE DEF Inv
  <2>1. ASSUME NEW o \in fills, SettleFill(o) PROVE Account!Next
    <3>1. Account!Execute(o)
      <4>1. Account!Id(o) \notin Executed
        BY <2>1, SettleRemoves DEF Settled, OnTheirWay, Id, Account!Id
      <4>2. pos' = [pos EXCEPT ![o.sym] = @ + o.qty]
        BY <2>1 DEF SettleFill
      <4>3. [x \in Symbols |-> Outstanding(x)'] =
              [[x \in Symbols |-> Outstanding(x)] EXCEPT ![o.sym] = @ \ {o}]
        BY <2>1, SettleRemoves
      <4>4. Executed' = Executed \cup {Account!Id(o)}
        BY <2>1, SettleRemoves DEF Id, Account!Id
      <4> QED
        BY <4>1, <4>2, <4>3, <4>4 DEF Account!Execute
    <3> QED
        BY <2>1, <3>1, SettleRemoves DEF Account!Next
  <2>2. ASSUME NEW s \in Symbols, NEW target \in Targets, QueueOrder(s, target)
        PROVE  Account!Next
    <3> DEFINE o == DeltaOrder(s, target)
    <3>1. o.sym = s /\ o.qty = target - pos[s] /\ o.target = target
        BY DEF DeltaOrder
    <3>2. pos' = pos /\ Executed' = Executed
        BY <2>2, QueueAdds DEF QueueOrder, Deciding
    <3>3. o.qty # 0 /\ pos[s] + o.qty = o.target
        BY <2>2, <3>1, EngineAssumption DEF TypeOK, QueueOrder
    <3>4. OnTheirWay' /\ o \in Outstanding(s)'
        BY <2>2, OnTheirWayStep, QueueAdds
    <3>5. Account!Id(o) \notin Executed
        BY <3>2, <3>4 DEF OnTheirWay, Id, Account!Id
    <3>6. [x \in Symbols |-> Outstanding(x)'] =
            [[x \in Symbols |-> Outstanding(x)] EXCEPT ![s] = {o}]
        BY <2>2, QueueAdds
    <3>7. [x \in Symbols |-> Outstanding(x)][s] = {}
        BY <2>2, QueueAdds
    <3> HIDE DEF o
    <3>8. Account!Place(o)
        BY <3>1, <3>2, <3>3, <3>5, <3>6, <3>7 DEF Account!Place
    <3> QED
        BY <3>4, <3>8 DEF Account!Next
  <2>3. CASE Executed' = Executed /\ pos' = pos
             /\ \A x \in Symbols : Outstanding(x)' = Outstanding(x)
    BY <2>3 DEF Account!accountVars
  <2>4. ASSUME NEW s \in Symbols, ProcessOpen(s)
        PROVE  UNCHANGED Account!accountVars
    <3>1. Executed' = Executed /\ pos' = pos
        BY <2>4 DEF ProcessOpen, Executed, Fills, market, files
    <3> QED
        BY <2>3, <2>4, <3>1, OpenKeeps DEF Account!accountVars
  <2>5. ASSUME NEW ev \in unwritten, WriteFillLine(ev.order)
        PROVE  UNCHANGED Account!accountVars
    <3>1. Executed' = Executed
        BY <2>5, FillLineExecutesNothing
    <3> QED
        BY <2>5, <3>1 DEF Account!accountVars, WriteFillLine, Outstanding
  <2>6. ASSUME NEW ev \in unwritten, WriteDecisionLine(ev.order)
        PROVE  UNCHANGED Account!accountVars
    BY <2>6 DEF Account!accountVars, WriteDecisionLine, Outstanding, Executed,
                Fills, Phases
  <2>7. ASSUME NEW a \in Armings, Restart(a)
        PROVE  UNCHANGED Account!accountVars
    <3>1. pc = "idle" /\ fills = {} /\ unwritten = {}
        BY <2>7 DEF Restart, Phases
    <3>2. pos' = pos
        BY <2>7, <3>1 DEF Restart, PositionsMatchJournal, TypeOK
    <3>3. UNCHANGED <<pending, fills, unwritten, filled>>
        BY <2>7, <3>1 DEF Restart, RestoredOrders, Settled, files
    <3> QED
        BY <3>2, <3>3 DEF Account!accountVars, Outstanding, Executed, Fills
  <2>8. CASE UNCHANGED <<pos, pending, fills, unwritten, filled>>
    BY <2>8 DEF Account!accountVars, Outstanding, Executed, Fills
  <2> QED
    BY <2>1, <2>2, <2>4, <2>5, <2>6, <2>7, <2>8
    DEF Next, Step, DeliverGroup, MarkClose, JournalOnly, Hold, Deciding,
        SnapshotState, CheckStaleness, vars, memory, files
<1> QED
    BY SettledAlways, <1>1, <1>2, PTL DEF Spec, RestartsTransparently, Account!Spec

=============================================================================
