------------------------------- MODULE Ingest -------------------------------
(***************************************************************************)
(* Live ingest (src/trade/data/stream): one task writes the bars a         *)
(* WebSocket delivers to QuestDB, another looks there for missing bars and *)
(* fetches them over REST.  The connection may drop, a fetch may fail, the *)
(* process may die and be started again; the table stays.                  *)
(*                                                                         *)
(* A time is a bar number.  The bar of time t opens at t and closes at     *)
(* t + 1; the exchange may have no bar of some time.                       *)
(***************************************************************************)
EXTENDS Integers, FiniteSets, Sequences

CONSTANTS
    Targets,    \* the symbols, in the order the reconciler takes them
    Gappy,      \* symbols the exchange may have no bar of at some time
    Lookback,   \* bars the reconciler looks back (lookback_bars)
    Extra,      \* bars it asks for beyond those it misses
    MaxTime     \* bound: how far the clock runs

Symbols == {Targets[i] : i \in DOMAIN Targets}

ASSUME IngestAssumption ==
    /\ Targets \in Seq(Symbols)
    /\ \A i, j \in DOMAIN Targets : Targets[i] = Targets[j] => i = j
    /\ Gappy \subseteq Symbols
    /\ MaxTime \in Nat
    /\ Lookback \in 1..MaxTime
    /\ Extra \in Nat \ {0}

VARIABLES
    now,        \* wall clock
    bars,       \* symbol -> times the exchange has opened a bar of
    order,      \* which end of a window it answers from
    table,      \* symbol -> records in QuestDB
    alive,      \* the process runs
    stop,       \* stop_event
    link,       \* the WebSocket session is up
    inbox,      \* confirmed bars sent and not yet received
    streaming,  \* _run_stream has not returned
    recon,      \* _run_reconciler: "wait", "pass", "fetch" or "done"
    passNow,    \* when its pass began
    turn,       \* the target it is at
    missing     \* the times it asks for

vars == <<now, bars, order, table, alive, stop, link, inbox, streaming, recon,
          passNow, turn, missing>>

exchange == <<now, bars, order>>
session == <<link, inbox, streaming>>
pass == <<recon, passNow, turn, missing>>

----------------------------------------------------------------------------
Records == [t : Int, closed : BOOLEAN]

\* What the session yields: the confirmed bars of one message.
Messages == [sym : Symbols, t : 0..MaxTime]

Stored(s) == {r.t : r \in table[s]}

\* DEDUP UPSERT KEYS: a row replaces the row of its key.
Upsert(rows, new) == {r \in rows : \A n \in new : r.t # n.t} \cup new

\* The table is as earlier processes left it.
Init ==
    /\ now = Lookback
    /\ bars = [s \in Symbols |-> 0..now]
    /\ order \in {"oldest", "newest"}
    /\ table \in [Symbols -> SUBSET [t : 0..(now - 1), closed : {TRUE}]]
    /\ alive = FALSE
    /\ stop = FALSE
    /\ link = FALSE
    /\ inbox = {}
    /\ streaming = TRUE
    /\ recon = "wait"
    /\ passNow = 0
    /\ turn = 1
    /\ missing = {}

----------------------------------------------------------------------------
(***************************************************************************)
(* The bar in progress closes and the next one opens.  Whoever is          *)
(* connected is sent the closed bar.  (It is also sent the bar in progress *)
(* again and again; the session drops what is not confirmed.)              *)
(***************************************************************************)
Tick(listed) ==
    /\ now < MaxTime
    /\ now' = now + 1
    /\ bars' = [s \in Symbols |->
                  IF s \in listed THEN bars[s] \cup {now + 1} ELSE bars[s]]
    /\ inbox' = IF link THEN inbox \cup {m \in Messages : m.t = now /\ now \in bars[m.sym]}
                ELSE inbox
    /\ UNCHANGED <<order, table, alive, stop, link, streaming, pass>>

\* The command is started.
Start ==
    /\ ~alive
    /\ alive' = TRUE
    /\ UNCHANGED <<exchange, table, stop, session, pass>>

\* The process is gone and its memory with it.
End ==
    /\ alive' = FALSE
    /\ stop' = FALSE
    /\ link' = FALSE
    /\ inbox' = {}
    /\ streaming' = TRUE
    /\ recon' = "wait"
    /\ passNow' = 0
    /\ turn' = 1
    /\ missing' = {}

\* It is killed, or a write of the stream task raises: the task group cancels
\* the reconciler and the command ends.
Die ==
    /\ alive
    /\ End
    /\ UNCHANGED <<exchange, table>>

\* SIGINT or SIGTERM.
SetStop ==
    /\ alive
    /\ ~stop
    /\ stop' = TRUE
    /\ UNCHANGED <<exchange, table, alive, session, pass>>

\* Both tasks have returned.
Exit ==
    /\ alive
    /\ ~streaming
    /\ recon = "done"
    /\ End
    /\ UNCHANGED <<exchange, table>>

----------------------------------------------------------------------------
\* A session is set up and subscribed.  An attempt that fails changes nothing.
Connect ==
    /\ alive
    /\ streaming
    /\ ~link
    /\ link' = TRUE
    /\ UNCHANGED <<exchange, table, alive, stop, inbox, streaming, pass>>

\* The session ends, for whatever reason; what was under way is lost.
Disconnect ==
    /\ link
    /\ link' = FALSE
    /\ inbox' = {}
    /\ UNCHANGED <<exchange, table, alive, stop, streaming, pass>>

\* A batch arrives: one message, one bar.  Only now is the stop event looked at.
Receive(m) ==
    /\ IF stop
       THEN /\ streaming' = FALSE
            /\ link' = FALSE
            /\ inbox' = {}
            /\ UNCHANGED table
       ELSE /\ table' = [table EXCEPT ![m.sym] = Upsert(@, {[t |-> m.t, closed |-> m.t < now]})]
            /\ inbox' = inbox \ {m}
            /\ UNCHANGED <<link, streaming>>
    /\ UNCHANGED <<exchange, alive, stop, pass>>

----------------------------------------------------------------------------
\* Mutant: the loop does not look at the stop event.
BeginPassAnyway ==
    /\ alive
    /\ recon = "wait"
    /\ recon' = "pass"
    /\ passNow' = now
    /\ turn' = 1
    /\ UNCHANGED <<exchange, table, alive, stop, session, missing>>

\* The period is over, or the task has just started.
BeginPass ==
    /\ alive
    /\ recon = "wait"
    /\ ~stop
    /\ recon' = "pass"
    /\ passNow' = now
    /\ turn' = 1
    /\ UNCHANGED <<exchange, table, alive, stop, session, missing>>

\* Mutant: the window includes the bar in progress.
WindowThrough == (passNow - Lookback)..passNow

\* The bars that had closed when the pass began.
Window == (passNow - Lookback)..(passNow - 1)

\* latest_event_times: the newest rows, as many as the window has bars.
Observed(s) ==
    {t \in Stored(s) : Cardinality({u \in Stored(s) : t < u}) < Lookback}

Missing(s) == Window \ Observed(s)

\* The next target has no gap, or its gaps are asked for.
Look(s) ==
    /\ recon = "pass"
    /\ turn \in DOMAIN Targets
    /\ s = Targets[turn]
    /\ IF Missing(s) = {}
       THEN /\ turn' = turn + 1
            /\ UNCHANGED <<recon, missing>>
       ELSE /\ missing' = Missing(s)
            /\ recon' = "fetch"
            /\ UNCHANGED turn
    /\ UNCHANGED <<exchange, table, alive, stop, session, passNow>>

\* Mutant: as many bars as are missing.
LimitExact == Cardinality(missing)

\* (At most 1000, which the window never comes to.)
Limit == Cardinality(missing) + Extra

\* The bars from the oldest missing time to one past the newest.
Asked(s) ==
    {t \in bars[s] : /\ \E a \in missing : a <= t
                     /\ \E b \in missing : t <= b + 1}

(***************************************************************************)
(* The exchange's answer: at most Limit of the bars asked for, from the    *)
(* old end of the window or, as Bybit's lists run, from the new one.       *)
(***************************************************************************)
Answers(s) ==
    {page \in SUBSET Asked(s) :
       /\ Cardinality(page) <= Limit
       /\ page # Asked(s) => Cardinality(page) = Limit
       /\ \A a \in page, b \in Asked(s) \ page :
            IF order = "oldest" THEN a < b ELSE b < a}

\* The answer has come: those of its bars that were missing are written.
Fill(s) ==
    /\ recon = "fetch"
    /\ s = Targets[turn]
    /\ \E page \in Answers(s) :
         table' = [table EXCEPT ![s] =
                     Upsert(@, {[t |-> t, closed |-> t < now] : t \in page \cap missing})]
    /\ recon' = "pass"
    /\ turn' = turn + 1
    /\ missing' = {}
    /\ UNCHANGED <<exchange, alive, stop, session, passNow>>

\* Mutant: an exception ends the task.
FailForGood ==
    /\ recon \in {"pass", "fetch"}
    /\ recon' = "done"
    /\ passNow' = 0
    /\ turn' = 1
    /\ missing' = {}
    /\ UNCHANGED <<exchange, table, alive, stop, session>>

\* The request, or a call to the table, raises: the pass is over for the
\* targets still to come as well.
Fail ==
    /\ recon \in {"pass", "fetch"}
    /\ recon' = "wait"
    /\ passNow' = 0
    /\ turn' = 1
    /\ missing' = {}
    /\ UNCHANGED <<exchange, table, alive, stop, session>>

EndPass ==
    /\ recon = "pass"
    /\ turn \notin DOMAIN Targets
    /\ recon' = "wait"
    /\ passNow' = 0
    /\ turn' = 1
    /\ UNCHANGED <<exchange, table, alive, stop, session, missing>>

StopReconciling ==
    /\ alive
    /\ recon = "wait"
    /\ stop
    /\ recon' = "done"
    /\ UNCHANGED <<exchange, table, alive, stop, session, passNow, turn, missing>>

----------------------------------------------------------------------------
Reconciling ==
    \/ BeginPass
    \/ \E s \in Symbols : Look(s)
    \/ \E s \in Symbols : Fill(s)
    \/ Fail
    \/ EndPass
    \/ StopReconciling

Streaming == \E m \in inbox : Receive(m)

Next ==
    \/ \E listed \in SUBSET Symbols : Symbols \ Gappy \subseteq listed /\ Tick(listed)
    \/ Start
    \/ Die
    \/ SetStop
    \/ Exit
    \/ Connect
    \/ Disconnect
    \/ Streaming
    \/ Reconciling

(***************************************************************************)
(* The tasks go on when they can: waits have a period, requests a timeout. *)
(* What is asked of the table or the exchange again and again is answered  *)
(* in the end.                                                             *)
(* Nothing makes a session come up or last, or a command be given.         *)
(***************************************************************************)
Fairness ==
    /\ WF_vars(Reconciling)
    /\ \A s \in Symbols : SF_vars(Look(s)) /\ SF_vars(Fill(s))
    /\ WF_vars(Streaming)
    /\ WF_vars(Exit)

Spec == Init /\ [][Next]_vars /\ Fairness

----------------------------------------------------------------------------
TypeOK ==
    /\ now \in 0..MaxTime
    /\ bars \in [Symbols -> SUBSET (0..now)]
    /\ order \in {"oldest", "newest"}
    /\ table \in [Symbols -> SUBSET Records]
    /\ alive \in BOOLEAN
    /\ stop \in BOOLEAN
    /\ link \in BOOLEAN
    /\ inbox \subseteq Messages
    /\ streaming \in BOOLEAN
    /\ recon \in {"wait", "pass", "fetch", "done"}
    /\ passNow \in 0..now
    /\ turn \in 1..(Len(Targets) + 1)
    /\ missing \in SUBSET Int

(***************************************************************************)
(* Only closed bars get into the table, whichever task writes them and     *)
(* however long a request takes (stream/bybit_ws.py:4-5,                   *)
(* stream/reconciler.py:6-7): a bar stored while it is in progress would   *)
(* never be looked for again.                                              *)
(***************************************************************************)
OnlyClosedStored == \A s \in Symbols : \A r \in table[s] : r.closed

\* The missing time at the end an answer comes from.
AtTheEnd(g) ==
    /\ order = "oldest" => \A m \in missing : g <= m
    /\ order = "newest" => \A m \in missing : m <= g

(***************************************************************************)
(* A request that is answered closes the gap at the end the answer comes   *)
(* from, if the exchange has that bar: the request reaches one bar past    *)
(* the newest gap, and the limit makes up for it (stream/reconciler.py:    *)
(* 88-94).                                                                 *)
(***************************************************************************)
FillClosesAGap ==
    [][recon = "fetch" /\ recon' = "pass" =>
         \A s \in Symbols : s = Targets[turn] =>
           \A g \in missing \cap bars[s] : AtTheEnd(g) => g \in Stored(s)']_vars

Gap(s, t) ==
    /\ t \in bars[s] \ Stored(s)
    /\ now - Lookback <= t /\ t < now

\* The exchange has every bar the reconciler looks for, and one more.
Complete(s) == (now - Lookback)..now \subseteq bars[s]

Running == alive /\ ~stop

(***************************************************************************)
(* "periodically calls reconcile_once to close any gaps" (ingest.py:8): a  *)
(* gap of a symbol the exchange has every bar of is closed in the end, if  *)
(* it does not leave the window and the process goes on.                   *)
(***************************************************************************)
GapsClose ==
    \A s \in Symbols, t \in 0..(MaxTime - 1) :
        Gap(s, t) /\ Complete(s) /\ Running
            ~> ~Gap(s, t) \/ ~Complete(s) \/ ~Running

\* Told to stop, the reconciler returns (ingest.py:69-85), whatever its pass
\* runs into.
ReconcilerStops == alive /\ stop ~> recon = "done" \/ ~alive

\* "Both tasks respect stop_event for a graceful shutdown" (ingest.py:10):
\* told to stop, the process ends.
StopEnds == alive /\ stop ~> ~alive

=============================================================================
