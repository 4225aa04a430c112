------------------------------ MODULE Backfill ------------------------------
(***************************************************************************)
(* The historical backfill: page_klines (src/trade/data/backfill/common.py)*)
(* pages forward over an exchange that answers with a limited number of    *)
(* bars, and the command line writes what it got as monthly partitions and *)
(* a manifest (src/trade/cli/backfill.py).  The command may fail at any    *)
(* call, and be run again over another window.  The data set is that of one*)
(* exchange, symbol and interval.                                          *)
(*                                                                         *)
(* A time is a bar number.  The bar of time t opens at t and closes at     *)
(* t + 1; the exchange may have no bar of some time.  Of a bar's prices    *)
(* only one thing matters: whether they were final when it was fetched.    *)
(***************************************************************************)
EXTENDS Integers, FiniteSets, Sequences

CONSTANTS
    Batch,      \* bars the exchange returns at most (batch_size)
    MonthLen,   \* bars in a month
    MaxTime     \* bound: how far the clock runs

ASSUME BackfillAssumption ==
    /\ Batch \in Nat \ {0}
    /\ MonthLen \in Nat \ {0}
    /\ MaxTime \in Nat

VARIABLES
    now,        \* wall clock
    bars,       \* times the exchange has a bar of
    order,      \* which end of a window it answers from
    pc,         \* the command: "idle", "page" or "write"
    asked,      \* the window asked for, and when
    cursor,     \* page_klines' cursor
    batches,    \* the batches it has yielded
    todo,       \* months whose partition is still to be written
    store,      \* month -> records of its partition
    manifest,   \* months whose partition the manifest lists
    unlisted,   \* months whose partition was put since the last manifest
    lastRun     \* history: records of the last run that put its manifest

vars == <<now, bars, order, pc, asked, cursor, batches, todo, store, manifest,
          unlisted, lastRun>>

run == <<order, asked, cursor, batches>>
storage == <<store, manifest, unlisted, lastRun>>

----------------------------------------------------------------------------
Records == [t : Nat, closed : BOOLEAN]

MonthOf(t) == t \div MonthLen

Months == 0..MonthOf(MaxTime)

\* What _collect has gathered.
Collected == UNION {batches[i] : i \in DOMAIN batches}

TimesOf(records) == {r.t : r \in records}

MonthsOf(records) == {MonthOf(r.t) : r \in records}

\* The bars a window [start, end) should give.
BarsIn(start, end) == {t \in bars : start <= t /\ t < end}

\* The window was over when it was asked for, as the bootstrap's is.
Pinned == asked.end <= asked.at

NoWindow == [start |-> 0, end |-> 0, at |-> 0]

Init ==
    /\ now = 0
    /\ bars \in SUBSET {0}
    /\ order \in {"oldest", "newest"}
    /\ pc = "idle"
    /\ asked = NoWindow
    /\ cursor = 0
    /\ batches = <<>>
    /\ todo = {}
    /\ store = [m \in Months |-> {}]
    /\ manifest = {}
    /\ unlisted = {}
    /\ lastRun = {}

----------------------------------------------------------------------------
\* The exchange opens its next bar, or skips it.
Tick(listed) ==
    /\ now < MaxTime
    /\ now' = now + 1
    /\ bars' = IF listed THEN bars \cup {now + 1} ELSE bars
    /\ UNCHANGED <<pc, todo, run, storage>>

(***************************************************************************)
(* The exchange's answer to fetch_klines over [first, last], both included:*)
(* at most Batch bars, the oldest of the window (Binance, and what paging  *)
(* forward expects) or the newest ("DESC by time", as Bybit answers).      *)
(***************************************************************************)
Answers(first, last, end) ==
    LET window == {t \in bars : first <= t /\ t <= last}
    IN  {page \in SUBSET window :
           /\ Cardinality(page) <= Batch
           /\ page # window => Cardinality(page) = Batch
           /\ \A a \in page, b \in window \ page :
                IF end = "oldest" THEN a < b ELSE b < a}

\* The process ends and its memory with it.
End ==
    /\ pc' = "idle"
    /\ asked' = NoWindow
    /\ cursor' = 0
    /\ batches' = <<>>
    /\ todo' = {}

\* A command of the backfill CLI, or the bootstrap.
Begin(start, end) ==
    /\ pc = "idle"
    /\ start < end
    /\ pc' = "page"
    /\ asked' = [start |-> start, end |-> end, at |-> now]
    /\ cursor' = start
    /\ batches' = <<>>
    /\ UNCHANGED <<now, bars, order, todo, storage>>

\* Mutants: a cursor that stays on the newest bar of a batch, or passes over
\* the one behind it; a batch that keeps the bar opening at the window's end.
CursorOnto(newest) == newest

CursorBeyond(newest) == newest + 2

KeptThroughEnd(page) == {t \in page : t <= asked.end}

\* One step past the newest bar of the batch.
CursorAfter(newest) == newest + 1

\* Bars past the end are dropped: the venue may include the one in progress.
Kept(page) == {t \in page : t < asked.end}

\* A page is fetched, yielded and collected.  Should the cursor not have
\* advanced, paging is over.
FetchPage(page, newest) ==
    /\ pc = "page"
    /\ cursor < asked.end
    /\ page \in Answers(cursor, asked.end, order)
    /\ newest \in Kept(page)
    /\ \A t \in Kept(page) : t <= newest
    /\ batches' = Append(batches, {[t |-> t, closed |-> t < now] : t \in Kept(page)})
    /\ IF CursorAfter(newest) <= cursor
       THEN /\ pc' = "write"
            /\ todo' = MonthsOf(Collected')
            /\ UNCHANGED cursor
       ELSE /\ cursor' = CursorAfter(newest)
            /\ UNCHANGED <<pc, todo>>
    /\ UNCHANGED <<now, bars, order, asked, storage>>

\* Mutant: an empty page is asked for again.
EndPagingAtEnd ==
    /\ pc = "page"
    /\ cursor >= asked.end
    /\ pc' = "write"
    /\ todo' = MonthsOf(Collected)
    /\ UNCHANGED <<now, bars, run, storage>>

\* Paging is over: the cursor is at the end, or a page is empty.
EndPaging ==
    /\ pc = "page"
    /\ \/ cursor >= asked.end
       \/ \E page \in Answers(cursor, asked.end, order) : Kept(page) = {}
    /\ pc' = "write"
    /\ todo' = MonthsOf(Collected)
    /\ UNCHANGED <<now, bars, run, storage>>

\* fetch_seed_bars and cross-validate store nothing.
HandOver ==
    /\ pc = "write"
    /\ todo = MonthsOf(Collected)
    /\ End
    /\ UNCHANGED <<now, bars, order, storage>>

----------------------------------------------------------------------------
\* The records of a month (_group_by_month, klines_to_parquet_bytes, whose
\* deduplication finds nothing to do: no time is collected twice).
Partition(m) == {r \in Collected : MonthOf(r.t) = m}

\* Mutant: a partition that exists is not written again.
PutPartitionOnce(m) ==
    /\ pc = "write"
    /\ m \in todo
    /\ \A n \in todo : m <= n
    /\ store' = IF store[m] = {} THEN [store EXCEPT ![m] = Partition(m)] ELSE store
    /\ todo' = todo \ {m}
    /\ unlisted' = unlisted \cup {m}
    /\ UNCHANGED <<now, bars, pc, run, manifest, lastRun>>

\* The next partition, in order of months; LocalStore.put is atomic.
PutPartition(m) ==
    /\ pc = "write"
    /\ m \in todo
    /\ \A n \in todo : m <= n
    /\ store' = [store EXCEPT ![m] = Partition(m)]
    /\ todo' = todo \ {m}
    /\ unlisted' = unlisted \cup {m}
    /\ UNCHANGED <<now, bars, pc, run, manifest, lastRun>>

\* The manifest lists the partitions of this run, and no others.
PutManifest ==
    /\ pc = "write"
    /\ todo = {}
    /\ manifest' = MonthsOf(Collected)
    /\ unlisted' = {}
    /\ lastRun' = Collected
    /\ End
    /\ UNCHANGED <<now, bars, order, store>>

\* A request or a put raises, or the process is killed: the command ends.
Die ==
    /\ pc # "idle"
    /\ End
    /\ UNCHANGED <<now, bars, order, storage>>

Working ==
    \/ \E page \in SUBSET bars : \E newest \in page : FetchPage(page, newest)
    \/ EndPaging
    \/ \E m \in Months : PutPartition(m)
    \/ PutManifest

Next ==
    \/ \E listed \in BOOLEAN : Tick(listed)
    \/ \E start, end \in 0..MaxTime : Begin(start, end)
    \/ Working
    \/ HandOver
    \/ Die

\* Every request has a timeout: a command that is running goes on.
Spec == Init /\ [][Next]_vars /\ WF_vars(Working)

----------------------------------------------------------------------------
TypeOK ==
    /\ now \in 0..MaxTime
    /\ bars \subseteq 0..now
    /\ order \in {"oldest", "newest"}
    /\ pc \in {"idle", "page", "write"}
    /\ asked \in [start : 0..MaxTime, end : 0..MaxTime, at : 0..now]
    /\ cursor \in Nat
    /\ batches \in Seq(SUBSET Records)
    /\ todo \subseteq Months
    /\ store \in [Months -> SUBSET Records]
    /\ manifest \subseteq Months
    /\ unlisted \subseteq Months
    /\ lastRun \subseteq Records

(***************************************************************************)
(* Paging fetches no bar twice and its batches are in order                *)
(* (backfill/common.py:69, 89-95), wherever the exchange answers from.     *)
(***************************************************************************)
BatchesAscend ==
    \A i, j \in DOMAIN batches : i < j =>
        \A a \in batches[i], b \in batches[j] : a.t < b.t

\* "Only closed candles are returned: `end` is pinned to the current interval
\* boundary, so the in-progress candle is excluded" (paper/bootstrap.py:11-13).
OnlyClosedBars == Pinned => \A r \in Collected : r.closed

(***************************************************************************)
(* A finished run over a past window has every bar of the window, if the   *)
(* exchange answers oldest first or the window, with the bar that opens at *)
(* its end, fits one answer.                                               *)
(***************************************************************************)
WholeWindow ==
    /\ pc = "write"
    /\ Pinned
    /\ order = "oldest" \/ asked.end - asked.start < Batch
    => TimesOf(Collected) = BarsIn(asked.start, asked.end)

(***************************************************************************)
(* "Forward-pages from `start` to `end`" (backfill/common.py:3) and "the   *)
(* venue may include the current in-progress bar" (70): paging delivers the*)
(* window from whichever exchange.                                         *)
(***************************************************************************)
PagesWholeWindow ==
    pc = "write" /\ Pinned =>
        TimesOf(Collected) = BarsIn(asked.start, asked.end)

\* The records of every partition the manifest lists (from_manifest).
Loaded == UNION {store[m] : m \in manifest}

OneOfEachTime(records) == \A a, b \in records : a.t = b.t => a = b

(***************************************************************************)
(* What the manifest lists is of the run that wrote it, partition by       *)
(* partition, but for the months a later run has put and not listed: one   *)
(* that died replaces whole months only.  Whatever mix of runs is loaded   *)
(* (MarketReplaySource.from_manifest, which does not deduplicate), no time *)
(* has two bars.                                                           *)
(***************************************************************************)
LoadsLastRun ==
    /\ manifest = MonthsOf(lastRun)
    /\ \A m \in manifest \ unlisted : store[m] = {r \in lastRun : MonthOf(r.t) = m}
    /\ OneOfEachTime(Loaded)

\* A run ends (common.py:61, 92-94): it does not page forever.
BackfillEnds == pc # "idle" ~> pc = "idle"

============================================================================
