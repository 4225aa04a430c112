-------------------------- MODULE LiveOrders_proofs --------------------------
(***************************************************************************)
(* Proofs about LiveOrders: its type, that both venues implement           *)
(* OrderVenue, that the gross notional at the venue is bounded, and that a *)
(* divergence the reconciler finds has an order behind it.                 *)
(*                                                                         *)
(* The caller counts an order when it is acknowledged, the venue when it   *)
(* executes it.  Each position is therefore a sum over a set of orders     *)
(* (Accounts), and what venue and caller say of a symbol differs by the    *)
(* orders in one of the two sets only: the unsettled ones.                 *)
(***************************************************************************)
EXTENDS LiveOrders, SumTheorems

\* The orders the venue executed.
Done == {o \in Orders : executed[o] = 1}

\* What the orders of S come to, symbol by symbol.
Held(S) ==
    [s \in Symbols |->
        SumFunctionOnSet([o \in Orders |-> IF o \in S /\ SymbolOf[o] = s
                                           THEN Quantity[o] ELSE 0], Orders)]

\* The type invariant in three parts: the submissions, the books, the reconciler.
Statuses == Failed \cup {"calling", "acked"}

Replies == {"none", "ok", "duplicate", "rejected"}

RequestType == [order : Orders, nr : 1..MaxTries, call : 1..MaxCalls]

SubmissionsTyped ==
    /\ call \in [Orders -> Statuses]
    /\ calls \in [Orders -> 0..MaxCalls]
    /\ tries \in [Orders -> 0..MaxTries]
    /\ requests \subseteq RequestType
    /\ reply \in [Orders -> Replies]

BooksTyped ==
    /\ venue \in {"bybit", "paper"}
    /\ links \subseteq Orders \X (0..MaxTries)
    /\ executed \in [Orders -> Nat]
    /\ position \in [Symbols -> Int] /\ local \in [Symbols -> Int]
    /\ applied \subseteq Orders

CheckTyped ==
    /\ reading \in BOOLEAN
    /\ seen \in [Symbols -> Int]
    /\ moved \subseteq Symbols /\ drift \subseteq Symbols

LEMMA TypeParts == TypeOK <=> SubmissionsTyped /\ BooksTyped /\ CheckTyped
BY Zenon DEF TypeOK, SubmissionsTyped, BooksTyped, CheckTyped, Statuses, Replies, RequestType

LEMMA StatusFacts ==
    /\ \A a \in {"new", "duplicate", "rejected", "gave up", "raised", "calling", "acked"} :
          a \in Statuses
    /\ \A a \in {"duplicate", "rejected"} : a \in Replies
    /\ "none" \in Replies /\ "ok" \in Replies
    /\ \A a \in Replies : a = "none" \/ a = "ok" \/ a \in Statuses
BY DEF Statuses, Replies, Failed

\* An order is executed under its id, once; the Bybit venue takes an id only
\* with the execution of its order.
OncePerLink ==
    /\ \A o \in Orders : executed[o] \in {0, 1}
    /\ \A o \in Orders : executed[o] = 1 => <<o, 0>> \in links
    /\ venue = "bybit" => \A o \in Orders : <<o, 0>> \in links => executed[o] = 1

\* What the exchange answers, and the caller reads, is true of the order.
AnswersTrue ==
    venue = "bybit" =>
        \A o \in Orders :
            \/ reply[o] \in {"ok", "duplicate"}
            \/ call[o] \in {"acked", "duplicate"}
            => executed[o] = 1

\* Only the orders acknowledged are in the caller's positions; one submission
\* is awaited at a time; the caps held when it passed the gate.
CallerSane ==
    /\ applied = {o \in Orders : call[o] = "acked"}
    /\ \A o, p \in Orders : call[o] = "calling" /\ call[p] = "calling" => o = p
    /\ \A o \in Orders : call[o] = "calling" => calls[o] > 0
    /\ Gross(local) <= MaxGross
    /\ \A o \in Orders : call[o] = "calling" => Gross(local) + Notional(o) <= MaxGross

\* Each position is what the orders behind it come to.
Accounts == position = Held(Done) /\ local = Held(applied)

\* What the reconciler was told is still so, except of what moved.
SeenIsOld == reading => \A s \in Symbols \ moved : seen[s] = position[s]

IInv == TypeOK /\ OncePerLink /\ AnswersTrue /\ CallerSane /\ Accounts /\ SeenIsOld

----------------------------------------------------------------------------
(***************************************************************************)
(* The sums.                                                               *)
(***************************************************************************)
LEMMA NotionalType == \A o \in Orders : Notional(o) \in Nat
<1>1. \A a \in Nat, b \in Nat : a * b \in Nat
  OBVIOUS
<1>2. ASSUME NEW o \in Orders PROVE Abs(Quantity[o]) \in Nat /\ Mark[SymbolOf[o]] \in Nat
  BY LiveOrdersAssumption DEF Abs
<1>. QED  BY <1>1, <1>2 DEF Notional

LEMMA HeldType == \A S : Held(S) \in [Symbols -> Int]
<1>. TAKE S
<1>1. ASSUME NEW s \in Symbols
      PROVE  SumFunctionOnSet([o \in Orders |-> IF o \in S /\ SymbolOf[o] = s
                                                THEN Quantity[o] ELSE 0], Orders) \in Int
  BY LiveOrdersAssumption, SumType
<1>. QED  BY <1>1 DEF Held

\* One more order changes the position of its symbol, by its quantity.
LEMMA HeldAdd ==
    ASSUME NEW S, NEW o \in Orders, o \notin S
    PROVE  Held(S \cup {o}) = [Held(S) EXCEPT ![SymbolOf[o]] = @ + Quantity[o]]
<1>. DEFINE F(s) == [p \in Orders |-> IF p \in S /\ SymbolOf[p] = s
                                      THEN Quantity[p] ELSE 0]
            G(s) == [p \in Orders |-> IF p \in S \cup {o} /\ SymbolOf[p] = s
                                      THEN Quantity[p] ELSE 0]
<1>1. ASSUME NEW s \in Symbols
      PROVE  SumFunctionOnSet(G(s), Orders) =
               IF s = SymbolOf[o] THEN SumFunctionOnSet(F(s), Orders) + Quantity[o]
               ELSE SumFunctionOnSet(F(s), Orders)
  <2>1. CASE s = SymbolOf[o]
    <3>1. \A p \in Orders : F(s)[p] \in Int
      BY LiveOrdersAssumption
    <3>2. G(s)[o] = Quantity[o] /\ F(s)[o] = 0 /\ Quantity[o] \in Int
      BY <2>1, LiveOrdersAssumption
    <3>3. \A p \in Orders \ {o} : G(s)[p] = F(s)[p]
      OBVIOUS
    <3>. HIDE DEF F, G
    <3>4. SumFunctionOnSet(G(s), Orders)
            = SumFunctionOnSet(F(s), Orders) + (G(s)[o] - F(s)[o])
      BY <3>1, <3>2, <3>3, LiveOrdersAssumption, SumChange
    <3>. QED  BY <2>1, <3>2, <3>4
  <2>2. CASE s # SymbolOf[o]
    <3>1. \A p \in Orders : G(s)[p] = F(s)[p]
      BY <2>2
    <3>. HIDE DEF F, G
    <3>2. SumFunctionOnSet(G(s), Orders) = SumFunctionOnSet(F(s), Orders)
      BY <3>1, LiveOrdersAssumption, SumSame
    <3>. QED  BY <2>2, <3>2
  <2>. QED  BY <2>1, <2>2
<1>2. Held(S) = [s \in Symbols |-> SumFunctionOnSet(F(s), Orders)]
      /\ Held(S \cup {o}) = [s \in Symbols |-> SumFunctionOnSet(G(s), Orders)]
  BY Zenon DEF Held
<1>. HIDE DEF F, G
<1>. QED  BY <1>1, <1>2, LiveOrdersAssumption

LEMMA Product == \A a, b, c \in Nat, m \in Nat : a <= b + c => a * m <= b * m + c * m
<1>. TAKE a, b, c \in Nat, m \in Nat
<1>1. \A x, y \in Nat : x <= y => x * m <= y * m
  OBVIOUS
<1>2. (b + c) * m = b * m + c * m
  OBVIOUS
<1>. QED  BY <1>1, <1>2

LEMMA GrossType == \A p \in [Symbols -> Int] : Gross(p) \in Nat
<1>. TAKE p \in [Symbols -> Int]
<1>. DEFINE f == [s \in Symbols |-> Abs(p[s]) * Mark[s]]
<1>1. \A a, b \in Nat : a * b \in Nat
  OBVIOUS
<1>2. \A s \in Symbols : Abs(p[s]) \in Nat /\ Mark[s] \in Nat
  BY LiveOrdersAssumption DEF Abs
<1>3. \A s \in Symbols : f[s] \in Nat
  BY <1>1, <1>2
<1>4. Gross(p) = SumFunctionOnSet(f, Symbols)
  BY Zenon DEF Gross, SumFunction
<1>. HIDE DEF f
<1>. QED  BY <1>3, <1>4, SumNat, LiveOrdersAssumption

\* A position that changes by d changes the gross by no more than d is worth.
LEMMA GrossMove ==
    ASSUME NEW p \in [Symbols -> Int], NEW q \in [Symbols -> Int],
           NEW s \in Symbols, NEW d \in Int, q = [p EXCEPT ![s] = @ + d]
    PROVE  Gross(q) <= Gross(p) + Abs(d) * Mark[s]
<1>. DEFINE f == [t \in Symbols |-> Abs(p[t]) * Mark[t]]
            g == [t \in Symbols |-> Abs(q[t]) * Mark[t]]
<1>1. Gross(p) = SumFunctionOnSet(f, Symbols) /\ Gross(q) = SumFunctionOnSet(g, Symbols)
  BY Zenon DEF Gross, SumFunction
<1>2. \A t \in Symbols : Abs(p[t]) \in Nat /\ Abs(q[t]) \in Nat /\ Mark[t] \in Nat
  <2>1. \A t \in Symbols : p[t] \in Int /\ q[t] \in Int
    OBVIOUS
  <2>2. \A n \in Int : Abs(n) \in Nat
    BY DEF Abs
  <2>. QED  BY <2>1, <2>2, LiveOrdersAssumption
<1>3. \A a, b \in Nat : a * b \in Nat
  OBVIOUS
<1>4. \A t \in Symbols : f[t] \in Int /\ g[t] \in Int
  BY <1>2, <1>3
<1>5. \A t \in Symbols \ {s} : g[t] = f[t]
  OBVIOUS
<1>6. g[s] <= f[s] + Abs(d) * Mark[s]
  <2>1. Abs(q[s]) <= Abs(p[s]) + Abs(d) /\ Abs(d) \in Nat
    BY DEF Abs
  <2>2. Abs(q[s]) * Mark[s] <= Abs(p[s]) * Mark[s] + Abs(d) * Mark[s]
    BY <1>2, <2>1, Product
  <2>3. f[s] = Abs(p[s]) * Mark[s] /\ g[s] = Abs(q[s]) * Mark[s]
    OBVIOUS
  <2>. QED  BY <2>2, <2>3
<1>. DEFINE w == Abs(d) * Mark[s]
<1>7. w \in Nat
  BY <1>2, <1>3 DEF Abs
<1>. HIDE DEF f, g, w
<1>8. SumFunctionOnSet(g, Symbols) = SumFunctionOnSet(f, Symbols) + (g[s] - f[s])
  BY <1>4, <1>5, SumChange, LiveOrdersAssumption
<1>9. SumFunctionOnSet(f, Symbols) \in Int /\ f[s] \in Int /\ g[s] \in Int
  BY <1>4, SumType, LiveOrdersAssumption
<1>10. g[s] <= f[s] + w
  BY <1>6 DEF w
<1>11. Gross(q) <= Gross(p) + w
  BY <1>1, <1>7, <1>8, <1>9, <1>10
<1>. QED  BY <1>11 DEF w

\* So does one order, in whichever of the two accounts it is missing.
LEMMA GrossOneOrder ==
    ASSUME NEW S, NEW o \in Orders, o \notin S
    PROVE  /\ Gross(Held(S \cup {o})) <= Gross(Held(S)) + Notional(o)
           /\ Gross(Held(S)) <= Gross(Held(S \cup {o})) + Notional(o)
<1>. DEFINE p == Held(S)
            q == Held(S \cup {o})
            x == SymbolOf[o]
<1>1. p \in [Symbols -> Int] /\ q \in [Symbols -> Int]
  BY HeldType, Zenon
<1>2. q = [p EXCEPT ![x] = @ + Quantity[o]]
  BY HeldAdd, Zenon
<1>3. x \in Symbols /\ Quantity[o] \in Int
  BY LiveOrdersAssumption
<1>. HIDE DEF p, q
<1>4. p = [q EXCEPT ![x] = @ + (-Quantity[o])]
  <2>1. p = [s \in Symbols |-> p[s]]
    BY <1>1
  <2>2. \A s \in Symbols : p[s] = IF s = x THEN q[s] + (-Quantity[o]) ELSE q[s]
    BY <1>1, <1>2, <1>3
  <2>. QED  BY <1>1, <2>1, <2>2
<1>5. Gross(q) <= Gross(p) + Abs(Quantity[o]) * Mark[x]
  BY <1>1, <1>2, <1>3, GrossMove
<1>6. -Quantity[o] \in Int /\ Abs(-Quantity[o]) = Abs(Quantity[o])
  BY <1>3 DEF Abs
<1>7. Gross(p) <= Gross(q) + Abs(-Quantity[o]) * Mark[x]
  BY <1>1, <1>3, <1>4, <1>6, GrossMove
<1>. QED  BY <1>5, <1>6, <1>7 DEF Notional, p, q

\* The two accounts of the orders of A and of those of B differ by no more
\* than the orders in one of them only.
LEMMA GrossOfDifference ==
    ASSUME NEW A \in SUBSET Orders, NEW B \in SUBSET Orders, NEW U,
           U = (A \ B) \cup (B \ A)
    PROVE  Gross(Held(A)) <= Gross(Held(B))
                               + SumFunctionOnSet([o \in Orders |-> Notional(o)], U)
<1>. DEFINE N == [o \in Orders |-> Notional(o)]
            Mix(T) == (B \ T) \cup (A \cap T)
            Off(T) == ~(Gross(Held(Mix(T))) <= Gross(Held(B)) + SumFunctionOnSet(N, T))
            C == {T \in SUBSET U : Off(T)}
<1>1. IsFiniteSet(U) /\ \A T \in SUBSET U : IsFiniteSet(T)
  BY FS_Subset, LiveOrdersAssumption
<1>2. \A S : Gross(Held(S)) \in Nat
  BY HeldType, GrossType
<1>3. SUFFICES ASSUME C # {} PROVE FALSE
  <2>1. Mix(U) = A /\ (Off(U) => C # {})
    OBVIOUS
  <2>. QED  BY <2>1
<1>4. {} \notin C
  <2>1. Mix({}) = B
    OBVIOUS
  <2>2. SumFunctionOnSet(N, {}) = 0
    BY SumEmpty, Zenon
  <2>. HIDE DEF Mix, N
  <2>. QED  BY <1>2, <2>1, <2>2
<1>5. PICK m \in C : /\ m # {} /\ IsFiniteSet(m) /\ Chosen(m) \in m
                     /\ \A x \in m : m \ {x} \notin C
  <2>1. C \subseteq SUBSET U
    OBVIOUS
  <2>. HIDE DEF C
  <2>. QED  BY <1>1, <1>3, <1>4, <2>1, MinimalFailure
<1>6. PICK x \in m : TRUE
  BY <1>5
<1>. DEFINE r == m \ {x}
<1>7. m \subseteq U /\ r \in SUBSET U /\ x \in Orders /\ IsFiniteSet(r)
      /\ x \notin r /\ m = r \cup {x} /\ Off(m) /\ ~Off(r)
  <2>1. m \in SUBSET U /\ Off(m)
    OBVIOUS
  <2>2. r \in SUBSET U /\ r \notin C
    BY <1>5, <1>6
  <2>3. ~Off(r)
    BY <2>2
  <2>. HIDE DEF Off, C
  <2>. QED  BY <1>1, <2>1, <2>2, <2>3
<1>8. \A o \in Orders : N[o] = Notional(o) /\ N[o] \in Nat
  BY NotionalType
<1>9. SumFunctionOnSet(N, m) = SumFunctionOnSet(N, r) + N[x]
  <2>1. \A y \in r \cup {x} : N[y] \in Int
    BY <1>7, <1>8
  <2>. HIDE DEF N, r
  <2>. QED  BY <1>7, <2>1, SumAdd
<1>10. SumFunctionOnSet(N, r) \in Int
  <2>1. \A y \in r : N[y] \in Int
    BY <1>7, <1>8
  <2>. HIDE DEF N, r
  <2>. QED  BY <1>7, <2>1, SumType
<1>11. Gross(Held(Mix(m))) <= Gross(Held(Mix(r))) + Notional(x)
  <2>1. CASE x \in A
    <3>1. x \notin Mix(r) /\ Mix(m) = Mix(r) \cup {x}
      BY <1>7, <2>1
    <3>. HIDE DEF Mix, r
    <3>. QED  BY <1>7, <3>1, GrossOneOrder
  <2>2. CASE x \in B
    <3>1. x \notin Mix(m) /\ Mix(r) = Mix(m) \cup {x}
      BY <1>7, <2>2
    <3>. HIDE DEF Mix, r
    <3>. QED  BY <1>7, <3>1, GrossOneOrder
  <2>. QED  BY <1>7, <2>1, <2>2
<1>12. ~(Gross(Held(Mix(m))) <= Gross(Held(B)) + SumFunctionOnSet(N, m))
       /\ Gross(Held(Mix(r))) <= Gross(Held(B)) + SumFunctionOnSet(N, r)
  BY <1>7, Zenon
<1>13. Gross(Held(Mix(m))) \in Nat /\ Gross(Held(Mix(r))) \in Nat
       /\ Gross(Held(B)) \in Nat /\ Notional(x) \in Nat /\ N[x] = Notional(x)
  BY <1>2, <1>7, <1>8, Zenon
<1>. HIDE DEF Mix, N, r
<1>. QED  BY <1>9, <1>10, <1>11, <1>12, <1>13
----------------------------------------------------------------------------
(***************************************************************************)
(* The invariant.                                                          *)
(***************************************************************************)
LEMMA InitIInv == Init => IInv
<1>. SUFFICES ASSUME Init PROVE IInv
  OBVIOUS
<1>. USE LiveOrdersAssumption
<1>1. TypeOK
  <2>1. call \in [Orders -> Statuses] /\ reply \in [Orders -> Replies]
    BY StatusFacts DEF Init
  <2>2. calls \in [Orders -> 0..MaxCalls] /\ tries \in [Orders -> 0..MaxTries]
        /\ requests \subseteq RequestType
    BY DEF Init
  <2>3. BooksTyped
    BY DEF Init, BooksTyped
  <2>4. reading \in BOOLEAN
    BY DEF Init
  <2>5. seen \in [Symbols -> Int] /\ moved \subseteq Symbols /\ drift \subseteq Symbols
    BY DEF Init
  <2>6. CheckTyped
    BY <2>4, <2>5, Zenon DEF CheckTyped
  <2>. QED  BY <2>1, <2>2, <2>3, <2>6, TypeParts DEF SubmissionsTyped
<1>2. OncePerLink /\ AnswersTrue /\ SeenIsOld
  BY DEF Init, OncePerLink, AnswersTrue, SeenIsOld
<1>3. \A s \in Symbols : Held({})[s] = 0
  <2>1. \A s \in Symbols : Held({})[s]
          = SumFunctionOnSet([o \in Orders |-> IF o \in {} /\ SymbolOf[o] = s
                                               THEN Quantity[o] ELSE 0], Orders)
    BY Zenon DEF Held
  <2>2. \A s \in Symbols :
          SumFunctionOnSet([o \in Orders |-> IF o \in {} /\ SymbolOf[o] = s
                                             THEN Quantity[o] ELSE 0], Orders) = 0
    BY SumZero
  <2>. QED  BY <2>1, <2>2
<1>4. Held({}) = [s \in Symbols |-> 0]
  <2>1. Held({}) \in [Symbols -> Int]
    BY HeldType
  <2>. QED  BY <1>3, <2>1
<1>5. Accounts
  <2>1. Done = {} /\ applied = {}
    BY DEF Init, Done
  <2>. QED  BY <1>4, <2>1 DEF Init, Accounts
<1>6. Gross(local) = 0
  <2>. DEFINE f == [s \in Symbols |-> Abs(local[s]) * Mark[s]]
  <2>1. \A s \in Symbols : f[s] = 0
    <3>1. \A s \in Symbols : Abs(local[s]) = 0 /\ Mark[s] \in Nat
      BY DEF Init, Abs
    <3>2. \A m \in Nat : 0 * m = 0
      OBVIOUS
    <3>. QED  BY <3>1, <3>2
  <2>2. Gross(local) = SumFunctionOnSet(f, Symbols)
    BY Zenon DEF Gross, SumFunction
  <2>. HIDE DEF f
  <2>. QED  BY <2>1, <2>2, SumZero
<1>7. CallerSane
  BY <1>6 DEF Init, CallerSane
<1>. QED  BY <1>1, <1>2, <1>5, <1>7 DEF IInv

\* What is left alone when no order is executed or applied.
LEMMA SameBooks ==
    ASSUME IInv, UNCHANGED <<executed, position, applied, local>>
    PROVE  Accounts'
BY Zenon DEF IInv, Accounts, Done, Held

\* An order the venue had not executed is executed.
LEMMA ExecuteBooks ==
    ASSUME IInv, NEW o \in Orders, executed[o] = 0,
           executed' = [executed EXCEPT ![o] = @ + 1],
           position' = [position EXCEPT ![SymbolOf[o]] = @ + Quantity[o]]
    PROVE  position' = Held(Done)'
<1>1. o \notin Done /\ Done' = Done \cup {o}
  BY DEF IInv, TypeOK, OncePerLink, Done
<1>2. position = Held(Done)
  BY DEF IInv, Accounts
<1>3. Held(Done \cup {o}) = [Held(Done) EXCEPT ![SymbolOf[o]] = @ + Quantity[o]]
  BY <1>1, HeldAdd
<1>4. Held(Done)' = Held(Done \cup {o})
  BY <1>1, Zenon DEF Held
<1>. QED  BY <1>2, <1>3, <1>4

\* An order the caller had not counted is counted, within the caps.
LEMMA ApplyBooks ==
    ASSUME IInv, NEW o \in Orders, o \notin applied, Apply(o)
    PROVE  /\ local' = Held(applied)'
           /\ Gross(local)' <= Gross(local) + Notional(o)
<1>1. local = Held(applied) /\ applied' = applied \cup {o}
      /\ local' = [local EXCEPT ![SymbolOf[o]] = @ + Quantity[o]]
  BY DEF IInv, Accounts, Apply
<1>2. Held(applied \cup {o}) = [Held(applied) EXCEPT ![SymbolOf[o]] = @ + Quantity[o]]
  BY HeldAdd
<1>3. Held(applied)' = Held(applied \cup {o})
  BY <1>1, Zenon DEF Held
<1>4. local' = Held(applied \cup {o})
  BY <1>1, <1>2
<1>5. Gross(Held(applied \cup {o})) <= Gross(Held(applied)) + Notional(o)
  BY GrossOneOrder
<1>6. Gross(local)' = Gross(local') /\ Gross(local') = Gross(Held(applied \cup {o}))
      /\ Gross(local) = Gross(Held(applied))
  BY <1>1, <1>4, Zenon DEF Gross
<1>. QED  BY <1>3, <1>4, <1>5, <1>6

LEMMA StepIInv == IInv /\ [Next]_vars => IInv'
<1>. SUFFICES ASSUME IInv, [Next]_vars PROVE IInv'
  OBVIOUS
<1>. USE LiveOrdersAssumption
<1>0. TypeOK /\ OncePerLink /\ AnswersTrue /\ CallerSane /\ Accounts /\ SeenIsOld
  BY DEF IInv
<1>t. SubmissionsTyped /\ BooksTyped /\ CheckTyped
  BY <1>0, TypeParts
<1>1. ASSUME NEW o \in Orders, Submit(o) PROVE IInv'
  <2>. USE <1>1 DEF Submit, book, own, check
  <2>1. TypeOK'
    <3>1. calls[o] + 1 \in 1..MaxCalls /\ 1 \in 1..MaxTries
      BY <1>t DEF SubmissionsTyped, MaySubmit
    <3>2. Request(o, 1) \in RequestType
      <4>1. calls'[o] = calls[o] + 1
        BY <1>t DEF SubmissionsTyped
      <4>. QED  BY <3>1, <4>1 DEF RequestType, Request
    <3>3. SubmissionsTyped'
      <4>1. call' \in [Orders -> Statuses]
        BY <1>t, StatusFacts DEF SubmissionsTyped
      <4>2. calls' \in [Orders -> 0..MaxCalls] /\ tries' \in [Orders -> 0..MaxTries]
        BY <1>t, <3>1 DEF SubmissionsTyped
      <4>3. requests' \subseteq RequestType /\ reply' \in [Orders -> Replies]
        BY <1>t, <3>2 DEF SubmissionsTyped
      <4>. QED  BY <4>1, <4>2, <4>3 DEF SubmissionsTyped
    <3>4. BooksTyped' /\ CheckTyped'
      BY <1>t DEF BooksTyped, CheckTyped
    <3>. QED  BY <3>3, <3>4, TypeParts, PTL
  <2>2. OncePerLink' /\ AnswersTrue' /\ SeenIsOld'
    BY <1>0 DEF TypeOK, OncePerLink, AnswersTrue, SeenIsOld
  <2>3. Accounts'
    BY SameBooks
  <2>4. CallerSane'
    <3>1. applied' = {p \in Orders : call'[p] = "acked"}
      BY <1>0 DEF TypeOK, CallerSane, MaySubmit, Failed
    <3>2. \A p \in Orders : call'[p] = "calling" => p = o
      BY <1>0 DEF TypeOK, MaySubmit
    <3>4. calls'[o] > 0
      BY <1>0 DEF TypeOK
    <3>3. Gross(local)' = Gross(local) /\ Gross(local) <= MaxGross
          /\ Gross(local) + Notional(o) <= MaxGross
      BY <1>0, Zenon DEF CallerSane, Gate, Gross
    <3>. QED  BY <3>1, <3>2, <3>3, <3>4 DEF CallerSane, Notional
  <2>. QED  BY <2>1, <2>2, <2>3, <2>4 DEF IInv
<1>2. ASSUME NEW o \in Orders, Retry(o) PROVE IInv'
  <2>. USE <1>2 DEF Retry, book, own, check
  <2>1. TypeOK'
    <3>1. tries[o] + 1 \in 1..MaxTries /\ tries'[o] = tries[o] + 1
      BY <1>0 DEF TypeOK, TriesLeft
    <3>2. requests' = requests \cup {[order |-> o, nr |-> tries'[o], call |-> calls[o]]}
      BY DEF Request
    <3>3. [order |-> o, nr |-> tries'[o], call |-> calls[o]] \in RequestType
      <4>1. calls[o] \in 1..MaxCalls
        BY <1>0, <1>t DEF CallerSane, SubmissionsTyped
      <4>. QED  BY <3>1, <4>1 DEF RequestType
    <3>4. SubmissionsTyped'
      <4>1. tries' \in [Orders -> 0..MaxTries]
        BY <1>t, <3>1 DEF SubmissionsTyped
      <4>2. reply' \in [Orders -> Replies]
        BY <1>t, StatusFacts DEF SubmissionsTyped
      <4>3. requests' \subseteq RequestType
        BY <1>t, <3>2, <3>3 DEF SubmissionsTyped
      <4>. QED  BY <1>t, <4>1, <4>2, <4>3 DEF SubmissionsTyped
    <3>5. BooksTyped' /\ CheckTyped'
      BY <1>t DEF BooksTyped, CheckTyped
    <3>. QED  BY <3>4, <3>5, TypeParts, PTL
  <2>2. OncePerLink' /\ AnswersTrue' /\ SeenIsOld'
    BY <1>0 DEF TypeOK, OncePerLink, AnswersTrue, SeenIsOld
  <2>3. Accounts'
    BY SameBooks
  <2>4. CallerSane'
    BY <1>0 DEF CallerSane, Gross, Notional
  <2>. QED  BY <2>1, <2>2, <2>3, <2>4 DEF IInv
<1>3. ASSUME NEW o \in Orders, GiveUp(o) PROVE IInv'
  <2>. USE <1>3 DEF GiveUp, End, book, own, check
  <2>1. TypeOK'
    <3>1. SubmissionsTyped'
      <4>1. call' \in [Orders -> Statuses] /\ reply' \in [Orders -> Replies]
        BY <1>t, StatusFacts DEF SubmissionsTyped
      <4>2. tries' \in [Orders -> 0..MaxTries]
        <5>1. tries' = [tries EXCEPT ![o] = 0] /\ tries \in [Orders -> 0..MaxTries]
          BY <1>t, Zenon DEF SubmissionsTyped
        <5>. QED  BY ONLY <5>1, LiveOrdersAssumption, o \in Orders
      <4>. QED  BY <1>t, <4>1, <4>2 DEF SubmissionsTyped
    <3>2. BooksTyped' /\ CheckTyped'
      BY <1>t DEF BooksTyped, CheckTyped
    <3>. QED  BY <3>1, <3>2, TypeParts, PTL
  <2>2. OncePerLink' /\ AnswersTrue' /\ SeenIsOld'
    BY <1>0 DEF TypeOK, OncePerLink, AnswersTrue, SeenIsOld
  <2>3. Accounts'
    BY SameBooks
  <2>4. CallerSane'
    BY <1>0 DEF TypeOK, CallerSane, Gross, Notional
  <2>. QED  BY <2>1, <2>2, <2>3, <2>4 DEF IInv
<1>4. ASSUME NEW o \in Orders, Return(o) PROVE IInv'
  <2>. USE <1>4 DEF Return, End, book
  <2>1. CASE reply[o] = "ok"
    <3>0. o \notin applied
      BY <1>0 DEF CallerSane
    <3>1. Apply(o) /\ call' = [call EXCEPT ![o] = "acked"]
      BY <2>1
    <3>2. TypeOK'
      <4>1. local' \in [Symbols -> Int] /\ applied' \subseteq Orders
        BY <1>0, <3>1 DEF TypeOK, Apply
      <4>2. moved' \subseteq Symbols
        BY <1>0, <2>1 DEF TypeOK, Move
      <4>3. SubmissionsTyped'
        <5>1. call' \in [Orders -> Statuses] /\ reply' \in [Orders -> Replies]
          BY <1>t, <3>1, StatusFacts DEF SubmissionsTyped
        <5>2. tries' \in [Orders -> 0..MaxTries]
          BY <1>t DEF SubmissionsTyped
        <5>. QED  BY <1>t, <5>1, <5>2 DEF SubmissionsTyped
      <4>4. BooksTyped' /\ CheckTyped'
        BY <1>t, <4>1, <4>2 DEF BooksTyped, CheckTyped
      <4>. QED  BY <4>3, <4>4, TypeParts, PTL
    <3>3. OncePerLink' /\ AnswersTrue'
      BY <1>0, <2>1 DEF TypeOK, OncePerLink, AnswersTrue
    <3>4. SeenIsOld'
      BY <1>0, <2>1 DEF SeenIsOld, Move
    <3>5. local' = Held(applied)' /\ Gross(local)' <= Gross(local) + Notional(o)
      BY <3>0, <3>1, ApplyBooks
    <3>6. Accounts'
      <4>1. position' = Held(Done)'
        BY <1>0, Zenon DEF Accounts, Done, Held
      <4>. QED  BY <3>5, <4>1 DEF Accounts
    <3>7. CallerSane'
      <4>1. applied' = {p \in Orders : call'[p] = "acked"}
        BY <1>0, <3>1 DEF TypeOK, CallerSane, Apply
      <4>2. \A p \in Orders : call'[p] # "calling"
        BY <1>0, <3>1 DEF TypeOK, CallerSane
      <4>3. Gross(local)' <= MaxGross
        <5>1. Gross(local) + Notional(o) <= MaxGross
          BY <1>0 DEF CallerSane
        <5>2. Gross(local) \in Nat /\ Gross(local)' \in Nat /\ Notional(o) \in Nat
          <6>1. local \in [Symbols -> Int] /\ local' \in [Symbols -> Int]
            BY <1>0, <3>2 DEF TypeOK
          <6>2. Gross(local)' = Gross(local')
            BY Zenon DEF Gross
          <6>. QED  BY <6>1, <6>2, GrossType, NotionalType
        <5>. QED  BY <3>5, <5>1, <5>2
      <4>. QED  BY <4>1, <4>2, <4>3 DEF CallerSane
    <3>. QED  BY <3>2, <3>3, <3>4, <3>6, <3>7 DEF IInv
  <2>2. CASE reply[o] # "ok"
    <3>1. call' = [call EXCEPT ![o] = reply[o]] /\ reply[o] \in {"duplicate", "rejected"}
      BY <1>0, <2>2 DEF TypeOK
    <3>2. TypeOK'
      <4>1. SubmissionsTyped'
        <5>1. call' \in [Orders -> Statuses] /\ reply' \in [Orders -> Replies]
          BY <1>t, <3>1, StatusFacts DEF SubmissionsTyped
        <5>2. tries' \in [Orders -> 0..MaxTries]
          BY <1>t DEF SubmissionsTyped
        <5>. QED  BY <1>t, <5>1, <5>2 DEF SubmissionsTyped
      <4>2. BooksTyped' /\ CheckTyped'
        BY <1>t, <2>2 DEF BooksTyped, CheckTyped, own
      <4>. QED  BY <4>1, <4>2, TypeParts, PTL
    <3>3. OncePerLink' /\ AnswersTrue' /\ SeenIsOld'
      BY <1>0, <2>2, <3>1 DEF TypeOK, OncePerLink, AnswersTrue, SeenIsOld, own
    <3>4. Accounts'
      BY <2>2, SameBooks DEF own
    <3>5. CallerSane'
      BY <1>0, <2>2, <3>1 DEF TypeOK, CallerSane, Gross, Notional, own
    <3>. QED  BY <3>2, <3>3, <3>4, <3>5 DEF IInv
  <2>. QED  BY <2>1, <2>2
<1>5. ASSUME NEW r \in requests, Accept(r) PROVE IInv'
  <2>. USE <1>5 DEF Accept, LinkOf, own
  <2>. DEFINE o == r.order
  <2>1. o \in Orders /\ SymbolOf[o] \in Symbols /\ Quantity[o] \in Int
    BY <1>0 DEF TypeOK
  <2>2. executed[o] = 0
    BY <1>0, <2>1 DEF OncePerLink
  <2>3. executed' = [executed EXCEPT ![o] = @ + 1]
        /\ position' = [position EXCEPT ![SymbolOf[o]] = @ + Quantity[o]]
        /\ links' = links \cup {<<o, 0>>}
    BY DEF Execute
  <2>4. reply' \in [Orders -> {"none", "ok", "duplicate", "rejected"}]
        /\ \A p \in Orders : p # o => reply'[p] = reply[p]
    BY <1>0, <2>1 DEF TypeOK, Answer
  <2>5. moved' = IF reading THEN moved \cup {SymbolOf[o]} ELSE {}
    BY DEF Move
  <2>. HIDE DEF o
  <2>6. TypeOK'
    <3>1. links' \subseteq Orders \X (0..MaxTries)
      BY <1>0, <2>1, <2>3 DEF TypeOK
    <3>2. executed' \in [Orders -> Nat] /\ position' \in [Symbols -> Int]
      BY <1>0, <2>1, <2>3 DEF TypeOK
    <3>3. moved' \subseteq Symbols /\ requests' \subseteq requests
      BY <1>0, <2>1, <2>5 DEF TypeOK
    <3>. QED  BY <1>0, <2>4, <3>1, <3>2, <3>3 DEF TypeOK
  <2>7. executed'[o] = 1 /\ \A p \in Orders : p # o => executed'[p] = executed[p]
    BY <1>0, <2>1, <2>2, <2>3 DEF TypeOK
  <2>8. OncePerLink'
    BY <1>0, <2>1, <2>3, <2>7 DEF OncePerLink
  <2>9. AnswersTrue'
    BY <1>0, <2>4, <2>7 DEF AnswersTrue
  <2>10. SeenIsOld'
    BY <1>0, <2>1, <2>3, <2>5 DEF TypeOK, SeenIsOld
  <2>11. Accounts'
    <3>1. position' = Held(Done)'
      BY <2>1, <2>2, <2>3, ExecuteBooks
    <3>2. local' = Held(applied)'
      BY <1>0, Zenon DEF Accounts, Held
    <3>. QED  BY <3>1, <3>2 DEF Accounts
  <2>12. CallerSane'
    BY <1>0 DEF CallerSane, Gross, Notional
  <2>. QED  BY <2>6, <2>8, <2>9, <2>10, <2>11, <2>12 DEF IInv
<1>6. ASSUME NEW r \in requests, Refuse(r) PROVE IInv'
  <2>. USE <1>6 DEF Refuse, LinkOf, book, own, check
  <2>. DEFINE o == r.order
              a == IF <<o, 0>> \in links THEN "duplicate" ELSE "rejected"
  <2>0. o \in Orders
    BY <1>0 DEF TypeOK
  <2>1. reply' = reply \/ reply' = [reply EXCEPT ![o] = a]
    BY DEF Answer
  <2>2. reply' \in [Orders -> {"none", "ok", "duplicate", "rejected"}]
    BY <1>0, <2>0, <2>1 DEF TypeOK
  <2>3. TypeOK'
    BY <1>0, <2>2 DEF TypeOK
  <2>4. OncePerLink' /\ SeenIsOld'
    BY <1>0 DEF OncePerLink, SeenIsOld
  <2>5. AnswersTrue'
    <3>. SUFFICES ASSUME venue = "bybit" PROVE AnswersTrue'
      BY DEF AnswersTrue
    <3>1. a = "duplicate" => executed[o] = 1
      BY <1>0, <2>0 DEF OncePerLink
    <3>2. \A p \in Orders : reply'[p] \in {"ok", "duplicate"} => executed[p] = 1
      BY <1>0, <2>0, <2>1, <3>1 DEF TypeOK, AnswersTrue
    <3>. QED  BY <1>0, <3>2 DEF AnswersTrue
  <2>6. Accounts'
    BY SameBooks
  <2>7. CallerSane'
    BY <1>0 DEF CallerSane, Gross, Notional
  <2>. QED  BY <2>3, <2>4, <2>5, <2>6, <2>7 DEF IInv
<1>7. ASSUME NEW o \in Orders, NEW marked \in BOOLEAN, PaperSubmit(o, marked) PROVE IInv'
  <2>. DEFINE known == <<o, 0>> \in links
  <2>1. /\ venue = "paper" /\ MaySubmit(o) /\ Gate(o)
        /\ calls' = [calls EXCEPT ![o] = @ + 1]
        /\ call' = [call EXCEPT ![o] = IF known \/ marked THEN "acked" ELSE "raised"]
        /\ UNCHANGED <<venue, tries, requests, reply, reading, seen, drift>>
    BY <1>7 DEF PaperSubmit, LinkOf
  <2>2. /\ ~known /\ marked => Execute(o, <<o, 0>>)
        /\ ~(~known /\ marked) =>
              links' = links \cup {<<o, 0>>} /\ UNCHANGED <<executed, position>>
        /\ known \/ marked => Apply(o) /\ Move(o)
        /\ ~(known \/ marked) => UNCHANGED <<own, moved>>
    BY <1>7 DEF PaperSubmit, LinkOf
  <2>3. o \notin applied /\ call[o] # "calling" /\ \A p \in Orders : call[p] # "calling"
    BY <1>0, <2>1 DEF CallerSane, MaySubmit, Failed
  <2>4. ~known => executed[o] = 0
    BY <1>0 DEF OncePerLink
  <2>. HIDE DEF known
  <2>5. TypeOK'
    <3>1. calls[o] + 1 \in 1..MaxCalls
      BY <1>0, <2>1 DEF TypeOK, MaySubmit
    <3>2. call' \in [Orders -> Failed \cup {"calling", "acked"}]
          /\ calls' \in [Orders -> 0..MaxCalls]
      <4>1. (IF known \/ marked THEN "acked" ELSE "raised") \in Statuses
        BY StatusFacts
      <4>2. call' \in [Orders -> Statuses] /\ calls' \in [Orders -> 0..MaxCalls]
        BY <1>t, <2>1, <3>1, <4>1 DEF SubmissionsTyped
      <4>. QED  BY <4>2 DEF Statuses
    <3>3. links' \subseteq Orders \X (0..MaxTries)
      <4>1. links' = links \cup {<<o, 0>>}
        BY <2>2 DEF Execute
      <4>. QED  BY <1>0, <4>1 DEF TypeOK
    <3>4. executed' \in [Orders -> Nat] /\ position' \in [Symbols -> Int]
      BY <1>0, <2>2 DEF TypeOK, Execute
    <3>5. local' \in [Symbols -> Int] /\ applied' \subseteq Orders /\ moved' \subseteq Symbols
      <4>1. CASE known \/ marked
        BY <1>0, <2>2, <4>1 DEF TypeOK, Apply, Move
      <4>2. CASE ~(known \/ marked)
        BY <1>0, <2>2, <4>2 DEF TypeOK, own
      <4>. QED  BY <4>1, <4>2
    <3>. QED  BY <1>0, <2>1, <3>2, <3>3, <3>4, <3>5 DEF TypeOK
  <2>6. OncePerLink'
    <3>1. links' = links \cup {<<o, 0>>}
      BY <2>2 DEF Execute
    <3>2. executed' = executed \/ (executed[o] = 0 /\ executed' = [executed EXCEPT ![o] = 1])
      <4>1. CASE ~known /\ marked
        BY <2>2, <2>4, <4>1 DEF Execute
      <4>2. CASE ~(~known /\ marked)
        BY <2>2, <4>2
      <4>. QED  BY <4>1, <4>2
    <3>3. executed \in [Orders -> Nat]
      BY <1>0 DEF TypeOK
    <3>. QED  BY <1>0, <2>1, <3>1, <3>2, <3>3 DEF OncePerLink
  <2>7. AnswersTrue'
    BY <2>1 DEF AnswersTrue
  <2>8. SeenIsOld'
    <3>1. CASE ~known /\ marked
      BY <1>0, <2>1, <2>2, <3>1 DEF TypeOK, SeenIsOld, Execute, Move
    <3>2. CASE known
      BY <1>0, <2>1, <2>2, <3>2 DEF SeenIsOld, Move
    <3>3. CASE ~known /\ ~marked
      BY <1>0, <2>1, <2>2, <3>3 DEF SeenIsOld
    <3>. QED  BY <3>1, <3>2, <3>3
  <2>9. position' = Held(Done)'
    <3>1. CASE ~known /\ marked
      BY <2>2, <2>4, <3>1, ExecuteBooks DEF Execute
    <3>2. CASE ~(~known /\ marked)
      <4>1. UNCHANGED <<executed, position>> /\ position = Held(Done)
        BY <1>0, <2>2, <3>2 DEF Accounts
      <4>. QED  BY <4>1, Zenon DEF Done, Held
    <3>. QED  BY <3>1, <3>2
  <2>10. local' = Held(applied)' /\ Gross(local)' <= MaxGross
    <3>1. CASE known \/ marked
      <4>1. local' = Held(applied)' /\ Gross(local)' <= Gross(local) + Notional(o)
        BY <2>2, <2>3, <3>1, ApplyBooks
      <4>2. Gross(local) + Notional(o) <= MaxGross
        BY <2>1 DEF Gate
      <4>3. Gross(local) \in Nat /\ Gross(local)' \in Nat /\ Notional(o) \in Nat
        <5>1. local \in [Symbols -> Int] /\ local' \in [Symbols -> Int]
          BY <1>0, <2>5 DEF TypeOK
        <5>2. Gross(local)' = Gross(local')
          BY Zenon DEF Gross
        <5>. QED  BY <5>1, <5>2, GrossType, NotionalType
      <4>. QED  BY <4>1, <4>2, <4>3
    <3>2. CASE ~(known \/ marked)
      <4>1. applied' = applied /\ local' = local
        BY <2>2, <3>2 DEF own
      <4>2. local = Held(applied) /\ Gross(local) <= MaxGross
        BY <1>0 DEF Accounts, CallerSane
      <4>. QED  BY <4>1, <4>2, Zenon DEF Held, Gross
    <3>. QED  BY <3>1, <3>2
  <2>11. CallerSane'
    <3>1. applied' = {p \in Orders : call'[p] = "acked"}
      <4>1. CASE known \/ marked
        BY <1>0, <2>1, <2>2, <4>1 DEF TypeOK, CallerSane, Apply
      <4>2. CASE ~(known \/ marked)
        BY <1>0, <2>1, <2>2, <2>3, <4>2 DEF TypeOK, CallerSane, own
      <4>. QED  BY <4>1, <4>2
    <3>2. \A p \in Orders : call'[p] # "calling"
      BY <1>0, <2>1, <2>3 DEF TypeOK
    <3>. QED  BY <2>10, <3>1, <3>2 DEF CallerSane
  <2>. QED  BY <2>5, <2>6, <2>7, <2>8, <2>9, <2>10, <2>11 DEF IInv, Accounts
<1>8. CASE ReadVenue
  <2>. USE <1>8 DEF ReadVenue, order, book, own
  <2>1. TypeOK'
    BY <1>0 DEF TypeOK
  <2>2. OncePerLink' /\ AnswersTrue' /\ SeenIsOld'
    BY <1>0 DEF TypeOK, OncePerLink, AnswersTrue, SeenIsOld
  <2>3. Accounts'
    BY SameBooks
  <2>4. CallerSane'
    BY <1>0 DEF CallerSane, Gross, Notional
  <2>. QED  BY <2>1, <2>2, <2>3, <2>4 DEF IInv
<1>9. CASE Compare
  <2>. USE <1>9 DEF Compare, order, book, own
  <2>1. TypeOK'
    <3>1. drift' \subseteq Symbols /\ seen' \in [Symbols -> Int]
      OBVIOUS
    <3>. QED  BY <1>0, <3>1 DEF TypeOK
  <2>2. OncePerLink' /\ AnswersTrue' /\ SeenIsOld'
    BY <1>0 DEF TypeOK, OncePerLink, AnswersTrue, SeenIsOld
  <2>3. Accounts'
    BY SameBooks
  <2>4. CallerSane'
    BY <1>0 DEF CallerSane, Gross, Notional
  <2>. QED  BY <2>1, <2>2, <2>3, <2>4 DEF IInv
<1>10. CASE UNCHANGED vars
  <2>. USE <1>10 DEF vars, order, book, own, check
  <2>1. TypeOK'
    BY <1>0 DEF TypeOK
  <2>2. OncePerLink' /\ AnswersTrue' /\ SeenIsOld'
    BY <1>0 DEF OncePerLink, AnswersTrue, SeenIsOld
  <2>3. Accounts'
    BY SameBooks
  <2>4. CallerSane'
    BY <1>0 DEF CallerSane, Gross, Notional
  <2>. QED  BY <2>1, <2>2, <2>3, <2>4 DEF IInv
<1>. QED  BY <1>1, <1>2, <1>3, <1>4, <1>5, <1>6, <1>7, <1>8, <1>9, <1>10 DEF Next

(***************************************************************************)
(* The invariant holds in every reachable state.                           *)
(***************************************************************************)
THEOREM Invariant == Spec => []IInv
BY InitIInv, StepIInv, PTL DEF Spec

(***************************************************************************)
(* Every variable keeps its type: in particular no order has more          *)
(* submissions, nor a submission more requests, than it may.               *)
(***************************************************************************)
THEOREM TypeCorrect == Spec => []TypeOK
<1>1. IInv => TypeOK
  BY DEF IInv
<1>. QED  BY <1>1, Invariant, PTL

----------------------------------------------------------------------------
(***************************************************************************)
(* Both venues do what a caller of submit_order relies on (venue.py): an   *)
(* order is executed at most once, and the Bybit venue confirms none that  *)
(* was not executed.                                                       *)
(***************************************************************************)
LEMMA InitRefines == Init => Venue!Init
BY DEF Init, Venue!Init, Confirmed

LEMMA StepRefines == IInv /\ [Next]_vars => [Venue!Next]_Venue!vars
<1>. SUFFICES ASSUME IInv, [Next]_vars PROVE [Venue!Next]_Venue!vars
  OBVIOUS
<1>. USE DEF Venue!vars
<1>0. TypeOK /\ OncePerLink /\ AnswersTrue
  BY DEF IInv
<1>1. ASSUME NEW o \in Orders, Submit(o) PROVE Venue!Ask(o)
  <2>1. executed' = executed /\ venue' = venue /\ venue = "bybit"
        /\ call' = [call EXCEPT ![o] = "calling"]
    BY <1>1 DEF Submit, book
  <2>2. Confirmed' = Confirmed \ {o}
    BY <1>0, <2>1 DEF TypeOK, Confirmed
  <2>. QED  BY <2>1, <2>2 DEF Venue!Ask
<1>2. ASSUME NEW o \in Orders, Retry(o) PROVE UNCHANGED Venue!vars
  BY <1>2 DEF Retry, book, Confirmed
<1>3. ASSUME NEW o \in Orders, GiveUp(o) PROVE UNCHANGED Venue!vars
  <2>1. executed' = executed /\ venue' = venue /\ call[o] = "calling"
        /\ call' = [call EXCEPT ![o] = "gave up"]
    BY <1>3 DEF GiveUp, book
  <2>2. Confirmed' = Confirmed
    BY <1>0, <2>1 DEF TypeOK, Confirmed
  <2>. QED  BY <2>1, <2>2
<1>4. ASSUME NEW o \in Orders, Return(o) PROVE Venue!Confirm(o) \/ UNCHANGED Venue!vars
  <2>1. executed' = executed /\ venue' = venue /\ call[o] = "calling"
        /\ call' = [call EXCEPT ![o] = IF reply[o] = "ok" THEN "acked" ELSE reply[o]]
    BY <1>4 DEF Return, book
  <2>2. CASE venue = "bybit" /\ reply[o] \in {"ok", "duplicate"}
    <3>1. executed[o] = 1
      BY <1>0, <2>2 DEF AnswersTrue
    <3>2. Confirmed' = Confirmed \cup {o}
      BY <1>0, <2>1, <2>2 DEF TypeOK, Confirmed
    <3>. QED  BY <2>1, <3>1, <3>2 DEF Venue!Confirm
  <2>3. CASE ~(venue = "bybit" /\ reply[o] \in {"ok", "duplicate"})
    <3>1. Confirmed' = Confirmed
      BY <1>0, <2>1, <2>3 DEF TypeOK, Confirmed
    <3>. QED  BY <2>1, <3>1
  <2>. QED  BY <2>2, <2>3
<1>5. ASSUME NEW r \in requests, Accept(r) PROVE Venue!Execute(r.order)
  <2>1. r.order \in Orders
    BY <1>0 DEF TypeOK
  <2>2. <<r.order, 0>> \notin links /\ executed' = [executed EXCEPT ![r.order] = @ + 1]
        /\ UNCHANGED <<venue, call>>
    BY <1>5 DEF Accept, Execute, LinkOf
  <2>3. executed[r.order] = 0
    BY <1>0, <2>1, <2>2 DEF OncePerLink
  <2>4. executed' = [executed EXCEPT ![r.order] = 1]
    BY <1>0, <2>1, <2>2, <2>3 DEF TypeOK
  <2>. QED  BY <2>2, <2>3, <2>4 DEF Venue!Execute, Confirmed
<1>6. ASSUME NEW r \in requests, Refuse(r) PROVE UNCHANGED Venue!vars
  BY <1>6 DEF Refuse, book, Confirmed
<1>7. ASSUME NEW o \in Orders, NEW marked \in BOOLEAN, PaperSubmit(o, marked)
      PROVE  Venue!Execute(o) \/ UNCHANGED Venue!vars
  <2>1. Confirmed = {} /\ Confirmed' = {}
    BY <1>7 DEF PaperSubmit, Confirmed
  <2>2. CASE <<o, 0>> \notin links /\ marked
    <3>1. executed' = [executed EXCEPT ![o] = @ + 1]
      BY <1>7, <2>2 DEF PaperSubmit, Execute, LinkOf
    <3>2. executed[o] = 0
      BY <1>0, <2>2 DEF OncePerLink
    <3>3. executed' = [executed EXCEPT ![o] = 1]
      BY <1>0, <3>1, <3>2 DEF TypeOK
    <3>. QED  BY <2>1, <3>2, <3>3 DEF Venue!Execute
  <2>3. CASE ~(<<o, 0>> \notin links /\ marked)
    BY <1>7, <2>1, <2>3 DEF PaperSubmit, LinkOf
  <2>. QED  BY <2>2, <2>3
<1>8. CASE ReadVenue
  BY <1>8 DEF ReadVenue, order, book, Confirmed
<1>9. CASE Compare
  BY <1>9 DEF Compare, order, book, Confirmed
<1>10. CASE UNCHANGED vars
  BY <1>10 DEF vars, order, book, Confirmed
<1>11. \A r \in requests : r.order \in Orders
  BY <1>0 DEF TypeOK
<1>. QED
  BY <1>1, <1>2, <1>3, <1>4, <1>5, <1>6, <1>7, <1>8, <1>9, <1>10, <1>11
  DEF Next, Venue!Next

THEOREM Refines == Spec => VenueSpec
<1>1. Init => Venue!Init
  BY InitRefines
<1>2. IInv /\ [Next]_vars => [Venue!Next]_Venue!vars
  BY StepRefines
<1>. QED  BY <1>1, <1>2, Invariant, PTL DEF Spec, VenueSpec, Venue!Spec

----------------------------------------------------------------------------
(***************************************************************************)
(* The gross notional at the venue exceeds its cap (SanityGate,            *)
(* execution/gates.py) by no more than the orders venue and caller differ  *)
(* about.                                                                  *)
(***************************************************************************)
LEMMA IInvBounded == IInv => GrossBounded
<1>. SUFFICES ASSUME IInv PROVE GrossBounded
  OBVIOUS
<1>. DEFINE N == [o \in Orders |-> Notional(o)]
            M == [o \in Unsettled |-> Notional(o)]
<1>1. TypeOK /\ OncePerLink /\ CallerSane /\ Accounts
  BY DEF IInv
<1>2. Unsettled = (Done \ applied) \cup (applied \ Done)
  BY <1>1 DEF TypeOK, OncePerLink, Unsettled, Executed, Done
<1>3. Done \in SUBSET Orders /\ applied \in SUBSET Orders
  BY <1>1 DEF TypeOK, Done
<1>4. Gross(Held(Done)) <= Gross(Held(applied)) + SumFunctionOnSet(N, Unsettled)
  BY <1>2, <1>3, GrossOfDifference
<1>5. Gross(Held(Done)) = Gross(position) /\ Gross(Held(applied)) = Gross(local)
  BY <1>1, Zenon DEF Accounts
<1>6. Unsettled \subseteq Orders /\ IsFiniteSet(Unsettled)
  BY FS_Subset, LiveOrdersAssumption DEF Unsettled
<1>7. SumFunctionOnSet(N, Unsettled) = SumFunctionOnSet(M, Unsettled)
  <2>1. \A o \in Unsettled : N[o] = M[o]
    BY <1>6
  <2>. HIDE DEF N, M
  <2>. QED  BY <1>6, <2>1, SumSame
<1>8. SumFunctionOnSet(N, Unsettled) \in Nat
  <2>1. \A o \in Unsettled : N[o] \in Nat
    BY <1>6, NotionalType
  <2>. HIDE DEF N
  <2>. QED  BY <1>6, <2>1, SumNat
<1>9. SumFunction(M) = SumFunctionOnSet(M, Unsettled)
  BY Zenon DEF SumFunction
<1>10. Gross(position) \in Nat /\ Gross(local) \in Nat /\ Gross(local) <= MaxGross
  BY <1>1, GrossType DEF TypeOK, CallerSane
<1>. HIDE DEF N
<1>11. Gross(position) <= MaxGross + SumFunction(M)
  <2>. HIDE DEF M
  <2>. QED  BY <1>4, <1>5, <1>7, <1>8, <1>9, <1>10, LiveOrdersAssumption
<1>. QED  BY <1>11 DEF GrossBounded

THEOREM GrossIsBounded == Spec => []GrossBounded
BY IInvBounded, Invariant, PTL

----------------------------------------------------------------------------
(***************************************************************************)
(* What reconcile_once (runtime/reconciler.py) reports of a position that  *)
(* did not change between its two readings is so: an order of the symbol   *)
(* is unsettled, and every difference is found.                            *)
(***************************************************************************)

\* Two positions of one symbol differ by an order of that symbol.
LEMMA DifferenceHasOrder ==
    ASSUME IInv, NEW s \in Symbols, position[s] # local[s]
    PROVE  \E o \in Unsettled : SymbolOf[o] = s
<1>. DEFINE F(S) == [o \in Orders |-> IF o \in S /\ SymbolOf[o] = s
                                      THEN Quantity[o] ELSE 0]
<1>1. TypeOK /\ OncePerLink /\ position = Held(Done) /\ local = Held(applied)
  BY DEF IInv, Accounts
<1>2. Held(Done)[s] = SumFunctionOnSet(F(Done), Orders)
      /\ Held(applied)[s] = SumFunctionOnSet(F(applied), Orders)
  BY Zenon DEF Held
<1>3. SumFunctionOnSet(F(Done), Orders) # SumFunctionOnSet(F(applied), Orders)
  <2>. HIDE DEF F
  <2>. QED  BY <1>1, <1>2
<1>4. PICK o \in Orders : F(Done)[o] # F(applied)[o]
  <2>. HIDE DEF F
  <2>. QED  BY <1>3, SumSame, LiveOrdersAssumption
<1>5. SymbolOf[o] = s /\ ~(o \in Done <=> o \in applied)
  BY <1>4
<1>6. o \in Done <=> Executed(o)
  BY <1>1 DEF TypeOK, OncePerLink, Done, Executed
<1>7. o \in Unsettled
  BY <1>1, <1>5, <1>6 DEF Unsettled, Executed
<1>. QED  BY <1>5, <1>7

LEMMA ComparedIsReal ==
    ASSUME IInv, Next, reading, ~reading', NEW s \in Symbols \ moved
    PROVE  /\ s \in drift' => \E o \in Unsettled : SymbolOf[o] = s
           /\ position[s] # local[s] => s \in drift'
<1>1. Compare
  BY Zenon DEF Next, Submit, Retry, GiveUp, Return, Accept, Refuse, PaperSubmit,
               ReadVenue, check
<1>2. seen[s] = position[s]
  BY DEF IInv, SeenIsOld
<1>3. s \in drift' <=> position[s] # local[s]
  BY <1>1, <1>2 DEF Compare, Diverges
<1>. QED  BY <1>3, DifferenceHasOrder

THEOREM DriftCorrect == Spec => DriftIsReal
<1>. DEFINE A == reading /\ ~reading' =>
                   \A s \in Symbols \ moved :
                      /\ s \in drift' => \E o \in Unsettled : SymbolOf[o] = s
                      /\ position[s] # local[s] => s \in drift'
<1>1. IInv /\ [Next]_vars => [A]_vars
  BY ComparedIsReal, Zenon
<1>2. Spec => [][A]_vars
  BY <1>1, Invariant, PTL DEF Spec
<1>. QED  BY <1>2 DEF DriftIsReal

=============================================================================
