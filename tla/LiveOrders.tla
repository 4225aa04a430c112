----------------------------- MODULE LiveOrders -----------------------------
(***************************************************************************)
(* Orders sent to an exchange: the sanity gate (src/trade/execution/       *)
(* gates.py), the signed Bybit client with its retries                     *)
(* (src/trade/exchanges/bybit_venue.py), the in-memory paper venue         *)
(* (src/trade/execution/paper_venue.py), and the reconciler that compares  *)
(* the positions of the venue with the caller's (src/trade/runtime/        *)
(* reconciler.py, kill_switch.py).                                         *)
(*                                                                         *)
(* The caller has no code in the repository: it passes the gate, awaits    *)
(* one submission at a time, adds an acknowledged order to its positions,  *)
(* and may issue an order again under its deterministic id (client_ids.py).*)
(* The exchange remembers every orderLinkId: the repository counts on it   *)
(* for a day.  A request may be late by any time, or never arrive; a reply *)
(* may be lost.                                                            *)
(***************************************************************************)
EXTENDS Integers, FiniteSets, Functions

CONSTANTS
    Orders,
    Symbols,
    SymbolOf,     \* order -> its symbol
    Quantity,     \* order -> its signed quantity
    Mark,         \* symbol -> its mark price
    MaxOrder,     \* max_notional_per_order
    MaxGross,     \* max_gross_notional
    MaxTries,     \* stop_after_attempt
    MaxCalls      \* bound: submissions of one order

ASSUME LiveOrdersAssumption ==
    /\ IsFiniteSet(Orders) /\ IsFiniteSet(Symbols)
    /\ SymbolOf \in [Orders -> Symbols]
    /\ Quantity \in [Orders -> Int \ {0}]
    /\ Mark \in [Symbols -> Nat \ {0}]
    /\ MaxOrder \in Nat /\ MaxGross \in Nat
    /\ MaxTries \in Nat \ {0} /\ MaxCalls \in Nat \ {0}

VARIABLES
    venue,       \* the implementation of ExecutionVenue: "bybit" or "paper"
    call,        \* order -> "new", "calling", or how its submission ended
    calls,       \* order -> submissions so far
    tries,       \* order -> requests of the submission at hand
    requests,    \* requests the exchange has not handled
    reply,       \* order -> the exchange's answer to the request at hand
    links,       \* ids the venue has taken an order under
    executed,    \* order -> how often the venue has executed it
    position,    \* symbol -> the venue's position
    applied,     \* orders the caller has added to its positions
    local,       \* symbol -> the caller's position
    reading,     \* the reconciler awaits the venue's positions, then has them
    seen,        \* symbol -> the position it was told
    moved,       \* symbols whose position changed since
    drift        \* symbols found to diverge

order == <<call, calls, tries, requests, reply>>
book == <<links, executed, position>>
own == <<applied, local>>
check == <<reading, seen, moved, drift>>
vars == <<venue, order, book, own, check>>

----------------------------------------------------------------------------
Abs(n) == IF n < 0 THEN -n ELSE n

Notional(o) == Abs(Quantity[o]) * Mark[SymbolOf[o]]

Gross(p) == SumFunction([s \in Symbols |-> Abs(p[s]) * Mark[s]])

\* Mutant: the cap is checked before the order is counted.
GateBeforeOrder(o) ==
    /\ Notional(o) <= MaxOrder
    /\ Gross(local) <= MaxGross

\* SanityGate.check, of fresh market data.
Gate(o) ==
    /\ Notional(o) <= MaxOrder
    /\ Gross(local) + Notional(o) <= MaxGross

\* Mutant: every request has an id of its own.
FreshLink(o, k) == <<o, k>>

\* orderLinkId = order.client_order_id, the same for every request.
LinkOf(o, k) == <<o, 0>>

Init ==
    /\ venue \in {"bybit", "paper"}
    /\ call = [o \in Orders |-> "new"]
    /\ calls = [o \in Orders |-> 0]
    /\ tries = [o \in Orders |-> 0]
    /\ requests = {}
    /\ reply = [o \in Orders |-> "none"]
    /\ links = {}
    /\ executed = [o \in Orders |-> 0]
    /\ position = [s \in Symbols |-> 0]
    /\ applied = {}
    /\ local = [s \in Symbols |-> 0]
    /\ reading = FALSE
    /\ seen = [s \in Symbols |-> 0]
    /\ moved = {}
    /\ drift = {}

Failed == {"new", "duplicate", "rejected", "gave up", "raised"}

\* The caller takes up an order that is new, or whose submission failed.
MaySubmit(o) ==
    /\ call[o] \in Failed
    /\ calls[o] < MaxCalls
    /\ \A p \in Orders : call[p] # "calling"

Request(o, k) == [order |-> o, nr |-> k, call |-> calls'[o]]

\* The venue executes order o, and takes its id.
Execute(o, link) ==
    /\ links' = links \cup {link}
    /\ executed' = [executed EXCEPT ![o] = @ + 1]
    /\ position' = [position EXCEPT ![SymbolOf[o]] = @ + Quantity[o]]

\* A position changes between the two readings of the reconciler.
Move(o) == moved' = IF reading THEN moved \cup {SymbolOf[o]} ELSE {}

\* The caller adds order o to its positions.
Apply(o) ==
    /\ applied' = applied \cup {o}
    /\ local' = [local EXCEPT ![SymbolOf[o]] = @ + Quantity[o]]

----------------------------------------------------------------------------
\* submit_order of the Bybit venue sends its first request.
Submit(o) ==
    /\ venue = "bybit"
    /\ MaySubmit(o)
    /\ Gate(o)
    /\ call' = [call EXCEPT ![o] = "calling"]
    /\ calls' = [calls EXCEPT ![o] = @ + 1]
    /\ tries' = [tries EXCEPT ![o] = 1]
    /\ requests' = requests \cup {Request(o, 1)}
    /\ UNCHANGED <<venue, reply, book, own, check>>

\* Mutant: one request too many.
TriesLeftInclusive(o) == tries[o] <= MaxTries

TriesLeft(o) == tries[o] < MaxTries

\* No connection, a timeout or a 5xx, whether or not the request was handled:
\* tenacity sends the same body again.
Retry(o) ==
    /\ call[o] = "calling"
    /\ TriesLeft(o)
    /\ tries' = [tries EXCEPT ![o] = @ + 1]
    /\ reply' = [reply EXCEPT ![o] = "none"]
    /\ UNCHANGED <<call, calls>>
    /\ requests' = requests \cup {Request(o, tries'[o])}
    /\ UNCHANGED <<venue, book, own, check>>

\* Nothing is left of a submission that ended.
End(o) ==
    /\ tries' = [tries EXCEPT ![o] = 0]
    /\ reply' = [reply EXCEPT ![o] = "none"]

\* The same at the last request: the exception reaches the caller.
GiveUp(o) ==
    /\ call[o] = "calling"
    /\ ~TriesLeft(o)
    /\ call' = [call EXCEPT ![o] = "gave up"]
    /\ End(o)
    /\ UNCHANGED <<venue, calls, requests, book, own, check>>

\* Only the request at hand is still waited for.
Answer(r, a) ==
    reply' = IF call[r.order] = "calling" /\ r.call = calls[r.order]
                  /\ r.nr = tries[r.order]
             THEN [reply EXCEPT ![r.order] = a] ELSE reply

\* The exchange handles a request: the order is executed, or its id was used,
\* or it refuses the order for a reason of its own.
Accept(r) ==
    /\ r \in requests
    /\ LinkOf(r.order, r.nr) \notin links
    /\ Execute(r.order, LinkOf(r.order, r.nr))
    /\ Answer(r, "ok")
    /\ requests' = requests \ {r}
    /\ Move(r.order)
    /\ UNCHANGED <<venue, call, calls, tries, own, reading, seen, drift>>

Refuse(r) ==
    /\ r \in requests
    /\ Answer(r, IF LinkOf(r.order, r.nr) \in links THEN "duplicate" ELSE "rejected")
    /\ requests' = requests \ {r}
    /\ UNCHANGED <<venue, call, calls, tries, book, own, check>>

\* The reply is read: an acknowledgement, or an ExchangeError.
Return(o) ==
    /\ call[o] = "calling"
    /\ reply[o] # "none"
    /\ IF reply[o] = "ok"
       THEN /\ call' = [call EXCEPT ![o] = "acked"]
            /\ Apply(o)
            /\ Move(o)
       ELSE /\ call' = [call EXCEPT ![o] = reply[o]]
            /\ UNCHANGED <<own, moved>>
    /\ End(o)
    /\ UNCHANGED <<venue, calls, requests, book, reading, seen, drift>>

----------------------------------------------------------------------------
(***************************************************************************)
(* submit_order of the paper venue, in one step.  It takes the id before   *)
(* it asks for the mark: if that raises, the order is not filled, and the  *)
(* next submission is acknowledged as a repetition.                        *)
(***************************************************************************)
PaperSubmit(o, marked) ==
    /\ venue = "paper"
    /\ MaySubmit(o)
    /\ Gate(o)
    /\ calls' = [calls EXCEPT ![o] = @ + 1]
    /\ LET known == LinkOf(o, 0) \in links
       IN  /\ call' = [call EXCEPT ![o] = IF known \/ marked THEN "acked" ELSE "raised"]
           /\ IF ~known /\ marked THEN Execute(o, LinkOf(o, 0))
              ELSE links' = links \cup {LinkOf(o, 0)} /\ UNCHANGED <<executed, position>>
           /\ IF known \/ marked THEN Apply(o) /\ Move(o)
              ELSE UNCHANGED <<own, moved>>
    /\ UNCHANGED <<venue, tries, requests, reply, reading, seen, drift>>

\* reconcile_once: the venue's positions are awaited, the caller's read after.
ReadVenue ==
    /\ ~reading
    /\ reading' = TRUE
    /\ seen' = position
    /\ moved' = {}
    /\ UNCHANGED <<venue, order, book, own, drift>>

\* Mutant: a position the caller does not have is no divergence.
DivergesKnown(s) == local[s] # 0 /\ seen[s] # local[s]

Diverges(s) == seen[s] # local[s]

Compare ==
    /\ reading
    /\ reading' = FALSE
    /\ drift' = {s \in Symbols : Diverges(s)}
    /\ seen' = [s \in Symbols |-> 0]
    /\ moved' = {}
    /\ UNCHANGED <<venue, order, book, own>>

Next ==
    \/ \E o \in Orders : Submit(o) \/ Retry(o) \/ GiveUp(o) \/ Return(o)
    \/ \E r \in requests : Accept(r) \/ Refuse(r)
    \/ \E o \in Orders, marked \in BOOLEAN : PaperSubmit(o, marked)
    \/ ReadVenue
    \/ Compare

Spec == Init /\ [][Next]_vars

----------------------------------------------------------------------------
TypeOK ==
    /\ venue \in {"bybit", "paper"}
    /\ call \in [Orders -> Failed \cup {"calling", "acked"}]
    /\ calls \in [Orders -> 0..MaxCalls]
    /\ tries \in [Orders -> 0..MaxTries]
    /\ requests \subseteq [order : Orders, nr : 1..MaxTries, call : 1..MaxCalls]
    /\ reply \in [Orders -> {"none", "ok", "duplicate", "rejected"}]
    /\ links \subseteq Orders \X (0..MaxTries)
    /\ executed \in [Orders -> Nat]
    /\ position \in [Symbols -> Int] /\ local \in [Symbols -> Int]
    /\ applied \subseteq Orders
    /\ reading \in BOOLEAN
    /\ seen \in [Symbols -> Int]
    /\ moved \subseteq Symbols /\ drift \subseteq Symbols

Executed(o) == executed[o] > 0

\* The venue and the caller differ about these.
Unsettled == {o \in Orders : Executed(o) # (o \in applied)}

Confirmed ==
    {o \in Orders : venue = "bybit" /\ call[o] \in {"acked", "duplicate"}}

Venue == INSTANCE OrderVenue WITH executions <- executed, confirmed <- Confirmed

(***************************************************************************)
(* Retries, late requests, lost replies and submissions repeated after an  *)
(* error execute no order twice on either venue, and the Bybit venue       *)
(* acknowledges an order, or calls it a duplicate, only once executed.     *)
(***************************************************************************)
VenueSpec == Venue!Spec

(***************************************************************************)
(* The gross notional at the venue exceeds its cap by no more than the     *)
(* orders venue and caller differ about: those executed although their     *)
(* submission ended in an error, and those a paper venue acknowledged only.*)
(***************************************************************************)
GrossBounded ==
    Gross(position) <= MaxGross + SumFunction([o \in Unsettled |-> Notional(o)])

(***************************************************************************)
(* A position found to diverge has an order behind it that venue and       *)
(* caller differ about, or changed between the two readings; one that did  *)
(* not change and differs is found.                                        *)
(***************************************************************************)
DriftIsReal ==
    [][ reading /\ ~reading' =>
          \A s \in Symbols \ moved :
             /\ s \in drift' => \E o \in Unsettled : SymbolOf[o] = s
             /\ position[s] # local[s] => s \in drift' ]_vars

=============================================================================
