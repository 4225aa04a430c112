---------------------------- MODULE PaperEngine ----------------------------
(***************************************************************************)
(* The paper-trading engine (src/trade/paper/engine.py) with the backtest  *)
(* machinery it is built from: SimulatedVenue, OrderManager, RiskManager,  *)
(* the kill switch and the two-file journal, and a process that may die    *)
(* and be started again between any two durable writes.                    *)
(*                                                                         *)
(* Durable state is what the files hold, up to what _restore_state reads:  *)
(* decisions.jsonl is its replay (ledger) and the identities of the orders *)
(* its lines name; state.json is the pending orders and last bar time.     *)
(* Everything else is memory and is lost when the process dies.            *)
(*                                                                         *)
(* A time is a bar number: the bar that opens at t closes at t + 1.  The   *)
(* strategy's target, whether it has history enough to give one, and the   *)
(* equity at a close (prices are arbitrary: any equity, for an account     *)
(* with exposure) are inputs.  An order carries, beside its own fields, the*)
(* target and the halt flag of the decision journalled for it.             *)
(***************************************************************************)
EXTENDS RiskManager

CONSTANTS
    Symbols,        \* symbols with a bundle
    Targets,        \* target quantities a strategy may emit
    Equities,       \* equities a bar may close at
    Armings,        \* values of execution_enabled a process may start with
    CrashAnywhere,  \* TRUE: the process may die at any point of a bar
    MaxTime,        \* bound: the last bar delivered
    MaxStarts       \* bound: how often the process is started

\* The reason the engine's own staleness check raises, which
\* is none of the drawdown layers' (kill_switch.py:94, engine.py:315).
Staleness == "data_staleness"

ASSUME EngineAssumption ==
    /\ Staleness \notin Periods
    /\ Targets \subseteq Int
    /\ Equities \subseteq Int
    /\ Armings \subseteq BOOLEAN
    /\ CrashAnywhere \in BOOLEAN
    /\ MaxTime \in Nat
    /\ MaxStarts \in Nat

VARIABLES
    \* the exchange
    feed,       \* time of the last confirmed bar delivered of each symbol
    equity,     \* what the account was worth at the last close
    exposed,    \* a position was held or a fill settled since that close
    \* the process
    starts,     \* how often it has been started
    armed,      \* execution_enabled
    pc,         \* where process_bar_group stands: "idle", "open", "decide"
    now,        \* event time of the group in hand
    syms,       \* symbols of the group in hand
    todo,       \* those whose turn in this phase has not come
    fills,      \* fills process_open returned and _settle_fill has not seen
    unwritten,  \* the event in audit.jsonl and not yet in decisions.jsonl
    pos,        \* OrderManager._positions
    pending,    \* SimulatedVenue._pending, by symbol
    risk,       \* RiskManager fields
    kill,       \* KillSwitchController._active
    lastBar,    \* _last_bar_time (NoKey: None)
    \* the files
    ledger,     \* positions a replay of decisions.jsonl rebuilds
    filled,     \* orders that have a fill line in decisions.jsonl
    decided,    \* orders that have a decision line in decisions.jsonl
    snap,       \* state.json
    \* history
    halts       \* <<start, layer, period>> for each halt raised

market == <<feed, equity, exposed>>
memory == <<armed, pc, now, syms, todo, fills, unwritten, pos, pending,
            risk, kill, lastBar>>
files == <<ledger, filled, decided, snap>>
vars == <<market, starts, memory, files, halts>>

----------------------------------------------------------------------------
Orders == [sym : Symbols, qty : Int, t : Nat, target : Int, halted : BOOLEAN]

Id(o) == <<o.sym, o.t>>

Events == [kind : {"fill", "decision"}, order : Orders]

Reasons == Periods \cup {Staleness}

Halted == kill # {} \/ risk.reasons # {}

\* No event is between its two journal writes.
Written == unwritten = {}

NoPending == [s \in Symbols |-> {}]

Flat == [s \in Symbols |-> 0]

Init ==
    /\ feed = [s \in Symbols |-> NoKey]
    /\ equity = InitialEquity
    /\ exposed = FALSE
    /\ starts = 1
    /\ armed \in Armings
    /\ pc = "idle"
    /\ now = 0
    /\ syms = {}
    /\ todo = {}
    /\ fills = {}
    /\ unwritten = {}
    /\ pos = Flat
    /\ pending = NoPending
    /\ risk = RiskInit
    /\ kill = {}
    /\ lastBar = NoKey
    /\ ledger = Flat
    /\ filled = {}
    /\ decided = {}
    /\ snap = [pending |-> NoPending, lastBar |-> NoKey]
    /\ halts = {}

----------------------------------------------------------------------------
(***************************************************************************)
(* The feed.  Bars of one time reach the engine together (a replayed or    *)
(* grouped batch) or in any split (one WebSocket message per symbol), each *)
(* symbol's bars in order and none twice; bars of a dead process are lost. *)
(* process_bar_group begins by buffering them.                             *)
(***************************************************************************)
DeliverGroup(S, t) ==
    /\ pc = "idle"
    /\ S # {}
    /\ \A s \in Symbols : feed[s] <= t
    /\ \A s \in S : feed[s] < t
    /\ feed' = [s \in Symbols |-> IF s \in S THEN t ELSE feed[s]]
    /\ exposed' = (exposed \/ pos # Flat)
    /\ pc' = "open"
    /\ now' = t
    /\ syms' = S
    /\ todo' = S
    /\ lastBar' = t
    /\ UNCHANGED <<equity, starts, armed, fills, unwritten, pos, pending, risk, kill,
                   files, halts>>

\* Mutant: process_open keeps what it has filled.
ProcessOpenKeeping(s) ==
    /\ pc = "open"
    /\ fills = {}
    /\ Written
    /\ s \in todo
    /\ todo' = todo \ {s}
    /\ fills' = pending[s]
    /\ UNCHANGED <<market, starts, armed, pc, now, syms, unwritten, pos, pending,
                   risk, kill, lastBar, files, halts>>

\* Bar open: the venue hands over every pending order of the symbol as a fill.
ProcessOpen(s) ==
    /\ pc = "open"
    /\ fills = {}
    /\ Written
    /\ s \in todo
    /\ todo' = todo \ {s}
    /\ fills' = pending[s]
    /\ pending' = [pending EXCEPT ![s] = {}]
    /\ UNCHANGED <<market, starts, armed, pc, now, syms, unwritten, pos, risk,
                   kill, lastBar, files, halts>>

\* Mutant: the fill is journalled and never applied to the account.
SettleFillUnapplied(o) ==
    /\ Written
    /\ o \in fills
    /\ fills' = fills \ {o}
    /\ unwritten' = {[kind |-> "fill", order |-> o]}
    /\ exposed' = TRUE
    /\ UNCHANGED <<feed, equity, starts, armed, pc, now, syms, todo, pos, pending,
                   risk, kill, lastBar, files, halts>>

\* _settle_fill: the account moves, then the fill goes to the audit log.
SettleFill(o) ==
    /\ Written
    /\ o \in fills
    /\ fills' = fills \ {o}
    /\ pos' = [pos EXCEPT ![o.sym] = @ + o.qty]
    /\ unwritten' = {[kind |-> "fill", order |-> o]}
    /\ exposed' = TRUE
    /\ UNCHANGED <<feed, equity, starts, armed, pc, now, syms, todo, pending,
                   risk, kill, lastBar, files, halts>>

\* PaperJournal.record, second half: the line of decisions.jsonl.
WriteFillLine(o) ==
    /\ [kind |-> "fill", order |-> o] \in unwritten
    /\ unwritten' = {}
    /\ ledger' = [ledger EXCEPT ![o.sym] = @ + o.qty]
    /\ filled' = filled \cup {Id(o)}
    /\ UNCHANGED <<market, starts, armed, pc, now, syms, todo, fills, pos,
                   pending, risk, kill, lastBar, decided, snap, halts>>

WriteDecisionLine(o) ==
    /\ [kind |-> "decision", order |-> o] \in unwritten
    /\ unwritten' = {}
    /\ decided' = decided \cup {Id(o)}
    /\ UNCHANGED <<market, starts, armed, pc, now, syms, todo, fills, pos,
                   pending, risk, kill, lastBar, ledger, filled, snap, halts>>

\* Mutant: every reason the manager does not hold is cleared.
SyncEveryReason(reasons) == reasons

\* _sync_drawdown_halt: the kill switch takes over the manager's reasons and
\* drops the drawdown reasons the manager has released.
SyncDrawdownHalt(reasons) == (kill \ Periods) \cup reasons

\* Bar close: equity is marked and recorded, the drawdown gates and the kill
\* switch follow.  Prices move the equity of an account that is exposed.
MarkClose(worth) ==
    /\ pc = "open"
    /\ todo = {}
    /\ fills = {}
    /\ Written
    /\ worth # equity => exposed
    /\ equity' = worth
    /\ exposed' = FALSE
    /\ risk' = RiskUpdate(risk, now + 1, worth)
    /\ kill' = SyncDrawdownHalt(risk'.reasons)
    /\ halts' = halts \cup
          {<<starts, p, PeriodOf(p, now + 1)>> : p \in risk'.reasons}
    /\ pc' = "decide"
    /\ todo' = syms
    /\ UNCHANGED <<feed, starts, armed, now, syms, fills, unwritten, pos,
                   pending, lastBar, files>>

----------------------------------------------------------------------------
\* _handle_decision, one disjunct for each way it ends.

Deciding(s) ==
    /\ pc = "decide"
    /\ Written
    /\ s \in todo
    /\ todo' = todo \ {s}
    /\ UNCHANGED <<market, starts, armed, pc, now, syms, fills, pos, risk,
                   kill, lastBar, files, halts>>

\* Mutant: only the manager's gate is asked.
AllowedByManager(target) == GateTargets(risk, {target})

\* What the manager and the kill switch leave of a strategy's target.
Allowed(target) ==
    {q \in GateTargets(risk, {target}) : Halted => q = 0}

\* WARMUP: some feature lacks history.  OBSERVE_ONLY: the switch is off.
JournalOnly(s) ==
    /\ Deciding(s)
    /\ UNCHANGED <<pending, unwritten>>

\* HOLD: the target is not let through, or is the position already held.
Hold(s, target) ==
    /\ armed
    /\ \A q \in Allowed(target) : q = pos[s]
    /\ Deciding(s)
    /\ UNCHANGED <<pending, unwritten>>

\* Mutants: an order stamped with the open of the bar before, and one stamped
\* with the close of the bar after.
DeltaOrderEarly(s, target) ==
    [sym |-> s, qty |-> target - pos[s], t |-> now - 1,
     target |-> target, halted |-> Halted]

DeltaOrderLate(s, target) ==
    [sym |-> s, qty |-> target - pos[s], t |-> now + 2,
     target |-> target, halted |-> Halted]

DeltaOrder(s, target) ==
    [sym |-> s, qty |-> target - pos[s], t |-> now + 1,
     target |-> target, halted |-> Halted]

\* Mutant: the order is queued and its decision never journalled.
QueueOrderSilently(s, target) ==
    /\ armed
    /\ target \in Allowed(target)
    /\ target # pos[s]
    /\ Deciding(s)
    /\ pending' = [pending EXCEPT ![s] = @ \cup {DeltaOrder(s, target)}]
    /\ UNCHANGED unwritten

\* ORDER_QUEUED: compute_delta_orders diffs the target against the filled
\* position, the venue queues the order, the decision goes to the audit log.
QueueOrder(s, target) ==
    /\ armed
    /\ target \in Allowed(target)
    /\ target # pos[s]
    /\ Deciding(s)
    /\ pending' = [pending EXCEPT ![s] = @ \cup {DeltaOrder(s, target)}]
    /\ unwritten' = {[kind |-> "decision", order |-> DeltaOrder(s, target)]}

\* _snapshot_state ends the group.
SnapshotState ==
    /\ pc = "decide"
    /\ todo = {}
    /\ Written
    /\ snap' = [pending |-> pending, lastBar |-> lastBar]
    /\ pc' = "idle"
    /\ syms' = {}
    /\ UNCHANGED <<market, starts, armed, now, todo, fills, unwritten, pos,
                   pending, risk, kill, lastBar, ledger, filled, decided, halts>>

\* check_staleness, at a wall-clock time past the threshold.
CheckStaleness ==
    /\ pc = "idle"
    /\ lastBar # NoKey
    /\ Staleness \notin kill
    /\ kill' = kill \cup {Staleness}
    /\ UNCHANGED <<market, starts, armed, pc, now, syms, todo, fills, unwritten,
                   pos, pending, risk, lastBar, files, halts>>

\* Mutant: the pending orders of state.json are not submitted again.
RestoredNothing == NoPending

\* The pending orders _restore_state submits.
RestoredOrders == snap.pending

(***************************************************************************)
(* The process ends - it is stopped between two bars or, if CrashAnywhere, *)
(* an exception or a kill takes it at any point - and a new one runs       *)
(* __init__ and _restore_state: positions are replayed from decisions.jsonl*)
(* and the pending orders of state.json are submitted again, while the     *)
(* RiskManager and the kill switch start afresh.                           *)
(***************************************************************************)
Restart(execution_enabled) ==
    /\ starts < MaxStarts
    /\ CrashAnywhere \/ pc = "idle"
    /\ starts' = starts + 1
    /\ armed' = execution_enabled
    /\ pc' = "idle"
    /\ now' = 0
    /\ syms' = {}
    /\ todo' = {}
    /\ fills' = {}
    /\ unwritten' = {}
    /\ pos' = ledger
    /\ pending' = RestoredOrders
    /\ risk' = RiskInit
    /\ kill' = {}
    /\ lastBar' = snap.lastBar
    /\ UNCHANGED <<market, files, halts>>

Step ==
    \/ \E S \in SUBSET Symbols, t \in 0..MaxTime : DeliverGroup(S, t)
    \/ \E s \in Symbols : ProcessOpen(s)
    \/ \E o \in fills : SettleFill(o)
    \/ \E ev \in unwritten : WriteFillLine(ev.order)
    \/ \E ev \in unwritten : WriteDecisionLine(ev.order)
    \/ \E worth \in Equities \cup {equity} : MarkClose(worth)
    \/ \E s \in Symbols : JournalOnly(s)
    \/ \E s \in Symbols, target \in Targets : Hold(s, target)
    \/ \E s \in Symbols, target \in Targets : QueueOrder(s, target)
    \/ SnapshotState
    \/ CheckStaleness

Next == Step \/ \E a \in Armings : Restart(a)

Spec == Init /\ [][Next]_vars

----------------------------------------------------------------------------
\* The type invariant.
TypeOK ==
    /\ feed \in [Symbols -> Int]
    /\ equity \in Int
    /\ exposed \in BOOLEAN
    /\ starts \in Nat
    /\ armed \in BOOLEAN
    /\ pc \in {"idle", "open", "decide"}
    /\ now \in Nat
    /\ syms \subseteq Symbols
    /\ todo \subseteq Symbols
    /\ fills \subseteq Orders
    /\ unwritten \subseteq Events
    /\ pos \in [Symbols -> Int]
    /\ pending \in [Symbols -> SUBSET Orders]
    /\ risk \in RiskState
    /\ kill \subseteq Reasons
    /\ lastBar \in Int
    /\ ledger \in [Symbols -> Int]
    /\ filled \subseteq Symbols \X Nat
    /\ decided \subseteq Symbols \X Nat
    /\ snap \in [pending : [Symbols -> SUBSET Orders], lastBar : Int]
    /\ halts \subseteq Nat \X Periods \X Int

Outstanding(s) == pending[s] \cup {o \in fills : o.sym = s}

(***************************************************************************)
(* The positions in memory are those a restart would rebuild from          *)
(* decisions.jsonl (engine.py:595-609), but for the one fill whose line is *)
(* being written (engine.py:392, 406), however the process has died before.*)
(***************************************************************************)
PositionsMatchJournal ==
    \A s \in Symbols :
        \/ pos[s] = ledger[s] /\ \A ev \in unwritten :
                                    ev.kind = "fill" => ev.order.sym # s
        \/ \E ev \in unwritten : /\ ev.kind = "fill"
                                 /\ ev.order.sym = s
                                 /\ pos[s] = ledger[s] + ev.order.qty

(***************************************************************************)
(* compute_delta_orders diffs a target against filled positions only       *)
(* (oms.py:101-103), so two orders of one symbol would both go the whole   *)
(* way: a symbol never has two orders between queueing and settling,       *)
(* whether they were decided or restored.                                  *)
(***************************************************************************)
OneOrderPerSymbol ==
    \A s \in Symbols : \A a, b \in Outstanding(s) : a = b

\* Every fill in decisions.jsonl has its decision there too: an order whose
\* decision line was lost with the process (engine.py:367-375) never fills.
FillsWereDecided == filled \subseteq decided

\* An order decided at the close of a bar fills at the open of a later one
\* (mre/venue.py:3-4), after a restart too.
NoLookAhead == \A o \in fills : o.t <= now

\* Order o was placed in a period that a layer was halted in.
HaltedPeriod(o, incarnations) ==
    \E k \in incarnations, p \in Periods : <<k, p, PeriodOf(p, o.t)>> \in halts

NewOrders == UNION {pending'[s] \ pending[s] : s \in Symbols}

(***************************************************************************)
(* "When a period's drawdown from that period's high-water mark exceeds    *)
(* its threshold, the manager is HALTED for the rest of the period.  Halted*)
(* means: only flatten targets are allowed through" (mre/risk.py:3-6): as  *)
(* long as the process lives, an order queued in a period that has seen a  *)
(* halt flattens.                                                          *)
(***************************************************************************)
HaltLastsPeriod ==
    [][ starts' = starts =>
          \A o \in NewOrders : HaltedPeriod(o, {starts}) => o.target = 0 ]_vars

\* The same sentence for the account, which outlives the process: the halt of
\* a period holds for whoever trades in it (mre/risk.py:3-6).
HaltOutlivesRestart ==
    [][ starts' = starts =>
          \A o \in NewOrders : HaltedPeriod(o, 1..starts) => o.target = 0 ]_vars

\* A staleness halt is no drawdown reason: recovering drawdowns and new bars
\* (engine.py:307-318) leave it active for as long as the process lives.
StalenessHaltLatched ==
    [][ (Staleness \in kill /\ starts' = starts) => (Staleness \in kill') ]_vars

(***************************************************************************)
(* An order decided while halted takes its position to zero when it fills  *)
(* ("flatten-only", engine.py:348-351): what was filled between the        *)
(* decision and the fill cannot turn it into an opening order.             *)
(***************************************************************************)
HaltedOrdersFlatten ==
    \A s \in Symbols : \A o \in Outstanding(s) :
        o.halted => pos[s] + o.qty = 0

Fills == {ev \in unwritten : ev.kind = "fill"}

\* Orders whose fill is in the account.
Executed == filled \cup {Id(ev.order) : ev \in Fills}

\* The account executes each order once, all the way to its target, and does
\* not notice a restart (engine.py:595-597).
Account == INSTANCE ExactlyOnceAccount WITH
    account     <- pos,
    outstanding <- [s \in Symbols |-> Outstanding(s)],
    executed    <- Executed

RestartsTransparently == Account!Spec

\* "A killed/redeployed process resumes exactly where it left off": no order
\* is settled that decisions.jsonl already has the fill of.
FillsOnce == \A o \in fills : Id(o) \notin filled

\* "When off, the engine [...] NEVER submits a simulated order: no position
\* is ever opened or closed" (engine.py:10-12).
DisarmedNeverTrades ==
    [][ (~armed /\ starts' = starts) => (pos' = pos) ]_vars

============================================================================
