-------------------------- MODULE Backfill_proofs ---------------------------
(***************************************************************************)
(* What holds of the backfill for every batch size, every month length and *)
(* every set of bars the exchange has.                                     *)
(*                                                                         *)
(* Paged says where paging stands: what is collected lies below the cursor *)
(* and, where completeness can be had at all, is all there is below it.    *)
(* Stored says what is on disk while the partitions are being written.     *)
(***************************************************************************)
EXTENDS Backfill, FiniteSetTheorems, TLAPS

\* The exchange answers in the order paging goes, or in one answer.
Reachable == order = "oldest" \/ asked.end - asked.start < Batch

InWindow(r) ==
    /\ asked.start <= r.t
    /\ r.t < asked.end
    /\ r.t < cursor
    /\ r.t \in bars
    /\ Pinned => r.closed

Paged ==
    /\ pc = "idle" => batches = <<>>
    /\ asked.start <= cursor /\ cursor <= asked.end
    /\ \A i \in DOMAIN batches : \A r \in batches[i] : InWindow(r)
    /\ \A i \in DOMAIN batches : OneOfEachTime(batches[i])

Complete ==
    Pinned /\ Reachable /\ pc # "idle" =>
        TimesOf(Collected) =
            BarsIn(asked.start, IF pc = "page" THEN cursor ELSE asked.end)

Written ==
    /\ pc # "write" => todo = {}
    /\ todo \subseteq MonthsOf(Collected)
    /\ pc = "write" =>
         \A m \in MonthsOf(Collected) \ todo : store[m] = Partition(m)

\* A partition has the bars of its month, each once.
Partitions ==
    \A m \in Months :
        /\ \A r \in store[m] : MonthOf(r.t) = m
        /\ OneOfEachTime(store[m])

Stored == Written /\ Partitions /\ LoadsLastRun

Inv == TypeOK /\ Paged /\ BatchesAscend /\ Complete /\ Stored

----------------------------------------------------------------------------
\* Collected is the records of all batches.
LEMMA CollectedIs ==
    \A r : r \in Collected <=> \E i \in DOMAIN batches : r \in batches[i]
BY DEF Collected

LEMMA NothingCollected == batches = <<>> => Collected = {}
<1> SUFFICES ASSUME batches = <<>> PROVE Collected = {}
    OBVIOUS
<1>1. DOMAIN batches = {}
    OBVIOUS
<1> QED
    BY <1>1, Zenon DEF Collected

LEMMA NoRecords == OneOfEachTime({})
BY DEF OneOfEachTime

\* What is said of the storage only changes with it.
LEMMA StorageKept ==
    ASSUME Partitions, LoadsLastRun, UNCHANGED <<store, manifest, unlisted, lastRun>>
    PROVE  Partitions' /\ LoadsLastRun'
<1>1. Partitions'
    BY DEF Partitions, OneOfEachTime, MonthOf
<1>2. Loaded' = Loaded
    BY DEF Loaded
<1>3. LoadsLastRun'
    BY <1>2 DEF LoadsLastRun, OneOfEachTime, MonthOf, MonthsOf
<1> QED
    BY <1>1, <1>3

\* Partitions of any runs load without two bars of a time.
LEMMA MixIsSound ==
    Partitions /\ manifest \subseteq Months => OneOfEachTime(Loaded)
<1> SUFFICES ASSUME Partitions, manifest \subseteq Months,
                    NEW a \in Loaded, NEW b \in Loaded, a.t = b.t
             PROVE  a = b
    BY DEF OneOfEachTime
<1>1. PICK m \in manifest : a \in store[m]
    BY DEF Loaded
<1>2. PICK n \in manifest : b \in store[n]
    BY DEF Loaded
<1>3. m = n
    BY <1>1, <1>2 DEF Partitions
<1> QED
    BY <1>1, <1>2, <1>3 DEF Partitions, OneOfEachTime

\* No time is collected twice, within a batch or across.
LEMMA CollectedOnce ==
    ASSUME TypeOK, BatchesAscend, \A i \in DOMAIN batches : OneOfEachTime(batches[i])
    PROVE  OneOfEachTime(Collected)
<1> SUFFICES ASSUME NEW a \in Collected, NEW b \in Collected, a.t = b.t
             PROVE  a = b
    BY DEF OneOfEachTime
<1>1. PICK i \in DOMAIN batches : a \in batches[i]
    BY CollectedIs
<1>2. PICK j \in DOMAIN batches : b \in batches[j]
    BY CollectedIs
<1>3. a.t \in Nat /\ b.t \in Nat /\ i \in Nat /\ j \in Nat
  <2>1. batches \in Seq(SUBSET Records)
    BY DEF TypeOK
  <2>2. batches[i] \subseteq Records /\ batches[j] \subseteq Records
    BY <2>1
  <2> QED
    BY <1>1, <1>2, <2>1, <2>2 DEF Records
<1>4. ~(i < j) /\ ~(j < i)
    BY <1>1, <1>2, <1>3 DEF BatchesAscend
<1>5. i = j
    BY <1>3, <1>4
<1> QED
    BY <1>1, <1>2, <1>5 DEF OneOfEachTime

LEMMA BarsAreTimes == TypeOK => bars \subseteq Nat
BY BackfillAssumption DEF TypeOK

\* Windows of a set of times.
LEMMA WindowSplits ==
    ASSUME NEW S \in SUBSET Nat, NEW a \in Nat, NEW b \in Nat, NEW c \in Nat,
           a <= b, b <= c
    PROVE  {t \in S : a <= t /\ t < c + 1}
             = {t \in S : a <= t /\ t < b} \cup {t \in S : b <= t /\ t <= c}
<1>1. ASSUME NEW t \in S
      PROVE  a <= t /\ t < c + 1 <=> (a <= t /\ t < b) \/ (b <= t /\ t <= c)
    BY t \in Nat
<1> QED
    BY <1>1

LEMMA WindowsJoin ==
    ASSUME NEW S \in SUBSET Nat, NEW a \in Nat, NEW b \in Nat, NEW c \in Nat,
           a <= b, b <= c
    PROVE  {t \in S : a <= t /\ t < c}
             = {t \in S : a <= t /\ t < b} \cup {t \in S : b <= t /\ t < c}
<1>1. ASSUME NEW t \in S
      PROVE  a <= t /\ t < c <=> (a <= t /\ t < b) \/ (b <= t /\ t < c)
    BY t \in Nat
<1> QED
    BY <1>1

LEMMA WindowEmpty ==
    ASSUME NEW S \in SUBSET Nat, NEW a \in Nat
    PROVE  {t \in S : a <= t /\ t < a} = {}
<1>1. ASSUME NEW t \in S PROVE ~(a <= t /\ t < a)
    BY t \in Nat
<1> QED
    BY <1>1

LEMMA MonthsBound ==
    ASSUME NEW t \in 0..MaxTime
    PROVE  MonthOf(t) \in Months
<1>1. /\ t \div MonthLen \in Nat
      /\ MaxTime \div MonthLen \in Nat
    BY BackfillAssumption, Z3
<1>2. t \div MonthLen <= MaxTime \div MonthLen
  <2>1. PICK q \in Int : q = t \div MonthLen /\ q * MonthLen <= t
    BY BackfillAssumption, Z3
  <2>2. PICK p \in Int : p = MaxTime \div MonthLen /\ MaxTime < (p + 1) * MonthLen
    BY BackfillAssumption, Z3
  <2>3. q * MonthLen < (p + 1) * MonthLen
    BY <2>1, <2>2, BackfillAssumption, Z3
  <2>4. q < p + 1
    BY <2>1, <2>2, <2>3, BackfillAssumption, Z3
  <2> QED
    BY <2>1, <2>2, <2>4
<1> QED
    BY <1>1, <1>2 DEF MonthOf, Months

LEMMA MonthsOfCollected ==
    ASSUME Inv
    PROVE  MonthsOf(Collected) \subseteq Months
<1>1. ASSUME NEW r \in Collected PROVE MonthOf(r.t) \in Months
  <2>1. PICK i \in DOMAIN batches : r \in batches[i]
    BY CollectedIs
  <2>2. r.t \in bars
    BY <2>1 DEF Inv, Paged, InWindow
  <2>3. now \in 0..MaxTime /\ bars \subseteq 0..now
    BY DEF Inv, TypeOK
  <2>4. r.t \in 0..now
    BY <2>2, <2>3
  <2>5. r.t \in 0..MaxTime
    BY <2>3, <2>4, BackfillAssumption
  <2> QED
    BY <2>5, MonthsBound
<1> QED
    BY <1>1 DEF MonthsOf

\* A batch of records for the times of a page.
RecordsOf(page) == {[t |-> t, closed |-> t < now] : t \in page}

LEMMA RecordsOfType ==
    ASSUME NEW page \in SUBSET Nat, now \in Nat
    PROVE  /\ RecordsOf(page) \subseteq Records
           /\ TimesOf(RecordsOf(page)) = page
           /\ \A r \in RecordsOf(page) : r.t \in page /\ r.closed = (r.t < now)
<1>1. \A t \in page : [t |-> t, closed |-> t < now] \in Records
    BY DEF Records
<1>2. \A r \in RecordsOf(page) : r.t \in page /\ r.closed = (r.t < now)
    BY DEF RecordsOf
<1>3. ASSUME NEW t \in page PROVE t \in TimesOf(RecordsOf(page))
  <2>1. [t |-> t, closed |-> t < now] \in RecordsOf(page)
    BY DEF RecordsOf
  <2> QED
    BY <2>1 DEF TimesOf
<1>4. TimesOf(RecordsOf(page)) \subseteq page
    BY <1>2 DEF TimesOf
<1> QED
    BY <1>1, <1>2, <1>3, <1>4 DEF RecordsOf

LEMMA InitInv == Init => Inv
<1> SUFFICES ASSUME Init PROVE Inv
    OBVIOUS
<1> USE BackfillAssumption
<1>1. batches = <<>> /\ Collected = {}
    BY NothingCollected DEF Init
<1>2. TypeOK
  <2>1. 0 \in 0..MaxTime /\ now = 0
    BY DEF Init
  <2>2. NoWindow \in [start : 0..MaxTime, end : 0..MaxTime, at : 0..now]
    BY <2>1 DEF NoWindow
  <2>3. store \in [Months -> SUBSET Records]
    BY DEF Init
  <2>4. batches \in Seq(SUBSET Records)
    BY DEF Init
  <2>5. bars \subseteq 0..now /\ asked \in [start : 0..MaxTime, end : 0..MaxTime, at : 0..now]
    BY <2>1, <2>2 DEF Init
  <2>6. /\ order \in {"oldest", "newest"} /\ pc \in {"idle", "page", "write"}
        /\ cursor \in Nat /\ todo \subseteq Months /\ manifest \subseteq Months
        /\ unlisted \subseteq Months /\ lastRun \subseteq Records
    BY DEF Init
  <2> QED
    BY <2>1, <2>3, <2>4, <2>5, <2>6, Zenon DEF TypeOK
<1>3. Paged
    BY <1>1 DEF Init, Paged, NoWindow
<1>4. BatchesAscend /\ Complete
    BY <1>1 DEF Init, BatchesAscend, Complete
<1>5. Stored
  <2>1. Written
    BY <1>1 DEF Init, Written
  <2>2. Partitions
    BY NoRecords DEF Init, Partitions
  <2>3. OneOfEachTime(Loaded)
    BY <2>2, MixIsSound DEF Init
  <2>4. manifest = MonthsOf(lastRun)
    BY DEF Init, MonthsOf
  <2> QED
    BY <2>1, <2>2, <2>3, <2>4 DEF Init, Stored, LoadsLastRun
<1> QED
    BY <1>2, <1>3, <1>4, <1>5 DEF Inv


----------------------------------------------------------------------------
\* Ending a run forgets it.
LEMMA EndKeeps ==
    ASSUME Inv, End, UNCHANGED <<now, bars, order>>,
           store' \in [Months -> SUBSET Records], manifest' \subseteq Months,
           unlisted' \subseteq Months, lastRun' \subseteq Records,
           Partitions', LoadsLastRun'
    PROVE  Inv'
<1> USE BackfillAssumption DEF Inv
<1>1. batches' = <<>> /\ pc' = "idle" /\ todo' = {} /\ cursor' = 0
    BY DEF End
<1>2. TypeOK'
  <2>1. now \in 0..MaxTime
    BY DEF TypeOK
  <2>2. NoWindow \in [start : 0..MaxTime, end : 0..MaxTime, at : 0..now]
    BY <2>1 DEF NoWindow
  <2>3. batches' \in Seq(SUBSET Records)
    BY <1>1
  <2>4. asked' \in [start : 0..MaxTime, end : 0..MaxTime, at : 0..now]
    BY <2>2 DEF End
  <2>5. order' \in {"oldest", "newest"}
    BY DEF TypeOK
  <2> QED
    BY <1>1, <2>3, <2>4, <2>5 DEF TypeOK
<1>3. Paged'
    BY <1>1 DEF End, Paged, NoWindow
<1>4. BatchesAscend' /\ Complete'
    BY <1>1 DEF BatchesAscend, Complete
<1>5. Stored'
    BY <1>1 DEF Stored, Written
<1> QED
    BY <1>2, <1>3, <1>4, <1>5

LEMMA TickKeeps ==
    ASSUME Inv, NEW listed \in BOOLEAN, Tick(listed)
    PROVE  Inv'
<1> USE BackfillAssumption DEF Inv, run, storage
<1>1. Collected' = Collected
    BY DEF Tick, Collected
<1>2. TypeOK'
    BY DEF TypeOK, Tick
<1>3. Paged'
    BY DEF Paged, InWindow, Pinned, Tick, TypeOK
<1>4. BatchesAscend'
    BY DEF BatchesAscend, Tick
<1>5. ASSUME Pinned', Reachable', pc' # "idle"
      PROVE  TimesOf(Collected)' =
                BarsIn(asked.start, IF pc = "page" THEN cursor ELSE asked.end)'
  <2> DEFINE upto == IF pc = "page" THEN cursor ELSE asked.end
  <2>1. Pinned /\ Reachable /\ pc # "idle"
    BY <1>5 DEF Pinned, Reachable, Tick
  <2>2. TimesOf(Collected) = BarsIn(asked.start, upto)
    BY <2>1 DEF Complete
  <2>3. upto <= now /\ upto \in Nat /\ now \in Nat
    BY <2>1 DEF Paged, Pinned, TypeOK
  <2>4. BarsIn(asked.start, upto)' = BarsIn(asked.start, upto)
    BY <2>3 DEF BarsIn, Tick, TypeOK
  <2> QED
    BY <1>1, <2>2, <2>4 DEF TimesOf
<1>6. Complete'
    BY <1>5 DEF Complete
<1>7. Stored'
  <2>1. Written'
    BY <1>1 DEF Stored, Written, Tick, Partition
  <2> QED
    BY <2>1, StorageKept DEF Stored, Tick
<1> QED
    BY <1>2, <1>3, <1>4, <1>6, <1>7

LEMMA BeginKeeps ==
    ASSUME Inv, NEW start \in 0..MaxTime, NEW end \in 0..MaxTime,
           Begin(start, end)
    PROVE  Inv'
<1> USE BackfillAssumption DEF Inv, run, storage
<1>1. batches' = <<>> /\ Collected' = {}
  <2>1. batches' = <<>>
    BY DEF Begin
  <2>2. DOMAIN batches' = {}
    BY <2>1
  <2> QED
    BY <2>1, <2>2, Zenon DEF Collected
<1>2. TypeOK'
  <2>1. batches' \in Seq(SUBSET Records)
    BY <1>1
  <2>2. asked' \in [start : 0..MaxTime, end : 0..MaxTime, at : 0..now]
    BY DEF TypeOK, Begin
  <2>3. /\ pc' = "page" /\ cursor' \in Nat
        /\ UNCHANGED <<now, bars, order, todo, storage>>
    BY DEF Begin
  <2> QED
    BY <2>1, <2>2, <2>3 DEF TypeOK
<1>3. Paged'
    BY <1>1 DEF Begin, Paged
<1>4. BatchesAscend'
    BY <1>1 DEF BatchesAscend
<1>5. Complete'
  <2>1. TimesOf(Collected)' = {}
    BY <1>1 DEF TimesOf
  <2>2. bars' \subseteq Nat
    BY BarsAreTimes DEF Begin
  <2>3. /\ asked'.start = start /\ cursor' = start /\ pc' = "page"
        /\ start \in Nat
    BY DEF Begin
  <2>4. BarsIn(start, start)' = {}
    <3>1. {t \in bars' : start <= t /\ t < start} = {}
        BY <2>2, <2>3, WindowEmpty
    <3> QED
        BY <3>1 DEF BarsIn
  <2> QED
    BY <2>1, <2>3, <2>4 DEF Complete
<1>6. Stored'
  <2>1. Written'
    BY <1>1 DEF Stored, Written, Begin
  <2> QED
    BY <2>1, StorageKept DEF Stored, Begin
<1> QED
    BY <1>2, <1>3, <1>4, <1>5, <1>6


----------------------------------------------------------------------------
\* The window of a request, and an answer to it.
Window == {t \in bars : cursor <= t /\ t <= asked.end}

LEMMA AnswerIs ==
    ASSUME NEW page \in Answers(cursor, asked.end, order)
    PROVE  /\ page \subseteq Window
           /\ Cardinality(page) <= Batch
           /\ page # Window => Cardinality(page) = Batch
           /\ \A a \in page, b \in Window \ page :
                IF order = "oldest" THEN a < b ELSE b < a
BY DEF Answers, Window

\* When the window fits an answer, an answer is the window.
LEMMA FittingAnswer ==
    ASSUME Inv, asked.end - asked.start < Batch,
           NEW page \in Answers(cursor, asked.end, order)
    PROVE  page = Window
<1> USE BackfillAssumption DEF Inv
<1>1. /\ cursor \in Nat /\ asked.end \in Nat /\ asked.start \in Nat
      /\ asked.start <= cursor /\ cursor <= asked.end
    BY DEF TypeOK, Paged
<1>2. /\ IsFiniteSet(cursor..asked.end)
      /\ Cardinality(cursor..asked.end) = asked.end - cursor + 1
    BY <1>1, FS_Interval
<1>3. Window \subseteq cursor..asked.end
    BY <1>1, BarsAreTimes DEF Window
<1>4. IsFiniteSet(Window) /\ Cardinality(Window) <= asked.end - cursor + 1
    BY <1>2, <1>3, FS_Subset
<1>5. page \subseteq Window
    BY AnswerIs
<1>6. /\ Cardinality(page) <= Cardinality(Window)
      /\ Cardinality(Window) = Cardinality(page) => Window = page
    BY <1>4, <1>5, FS_Subset
<1>7. Cardinality(Window) \in Nat
    BY <1>4, FS_CardinalityType
<1>8. asked.end - cursor + 1 <= Batch
    BY <1>1
<1>9. Cardinality(Window) <= Batch
    BY <1>1, <1>4, <1>7, <1>8
<1> QED
  <2> SUFFICES ASSUME page # Window PROVE FALSE
    OBVIOUS
  <2>1. Cardinality(page) = Batch
    BY AnswerIs
  <2> QED
    BY <2>1, <1>6, <1>7, <1>9

\* What an answer that completeness can be had from leaves out lies behind it.
LEMMA NothingBefore ==
    ASSUME Inv, Reachable, NEW page \in Answers(cursor, asked.end, order)
    PROVE  \A a \in page, b \in Window \ page : a < b
<1>1. CASE order = "oldest"
    BY <1>1, AnswerIs
<1>2. CASE order # "oldest"
  <2>1. page = Window
    BY <1>2, FittingAnswer DEF Reachable
  <2> QED
    BY <2>1
<1> QED
    BY <1>1, <1>2

LEMMA EmptyAnswer ==
    ASSUME Inv, Reachable, NEW page \in Answers(cursor, asked.end, order),
           Kept(page) = {}
    PROVE  BarsIn(cursor, asked.end) = {}
<1> USE BackfillAssumption DEF Inv
<1> SUFFICES ASSUME NEW b \in BarsIn(cursor, asked.end) PROVE FALSE
    OBVIOUS
<1>1. b \in Window /\ b < asked.end
    BY DEF BarsIn, Window, TypeOK
<1>2. b \notin page
    BY <1>1 DEF Kept
<1>3. page = {}
  <2> SUFFICES ASSUME NEW a \in page PROVE FALSE
    OBVIOUS
  <2>1. a < b
    BY <1>1, <1>2, NothingBefore
  <2>2. a \in bars
    BY AnswerIs DEF Window
  <2>3. a < asked.end
    BY <1>1, <2>1, <2>2 DEF TypeOK, Window
  <2> QED
    BY <2>3 DEF Kept
<1>4. Cardinality(page) = Batch
    BY <1>1, <1>2, AnswerIs
<1> QED
    BY <1>3, <1>4, FS_EmptySet


\* The bars up to the newest one kept of an answer are the ones kept.
LEMMA KeptAreNext ==
    ASSUME Inv, Reachable, NEW page \in Answers(cursor, asked.end, order),
           NEW newest \in Kept(page), \A t \in Kept(page) : t <= newest
    PROVE  Kept(page) = {t \in bars : cursor <= t /\ t <= newest}
<1> USE DEF Inv
<1>1. /\ bars \subseteq Nat /\ cursor \in Nat /\ asked.end \in Nat
      /\ page \subseteq Window
      /\ newest \in page /\ newest < asked.end
    BY BarsAreTimes, AnswerIs DEF Kept, TypeOK
<1>2. ASSUME NEW t \in Kept(page)
      PROVE  t \in bars /\ cursor <= t /\ t <= newest
    BY <1>1 DEF Kept, Window
<1>3. ASSUME NEW t \in bars, cursor <= t, t <= newest
      PROVE  t \in Kept(page)
  <2>1. t \in Window /\ t < asked.end
    BY <1>1, <1>3 DEF Window
  <2>2. t \in page
    <3> SUFFICES ASSUME t \notin page PROVE FALSE
        OBVIOUS
    <3>1. newest < t
        BY <1>1, <2>1, NothingBefore
    <3>2. t \in Nat /\ newest \in Nat
        BY <1>1 DEF Window
    <3> QED
        BY <1>3, <3>1, <3>2
  <2> QED
    BY <2>1, <2>2 DEF Kept
<1> QED
    BY <1>2, <1>3

LEMMA FetchPageKeeps ==
    ASSUME Inv, NEW page \in SUBSET bars, NEW newest \in page,
           FetchPage(page, newest)
    PROVE  Inv'
<1> USE BackfillAssumption DEF Inv, run, storage
<1> DEFINE kept == Kept(page)
           batch == RecordsOf(kept)
<1>1. /\ pc = "page" /\ pc' = "page"
      /\ cursor < asked.end
      /\ page \in Answers(cursor, asked.end, order)
      /\ newest \in kept /\ \A t \in kept : t <= newest
      /\ cursor' = newest + 1
      /\ UNCHANGED <<now, bars, order, asked, todo, storage>>
  <2>1. /\ pc = "page"
        /\ cursor < asked.end
        /\ page \in Answers(cursor, asked.end, order)
        /\ newest \in kept /\ \A t \in kept : t <= newest
    BY DEF FetchPage
  <2>2. newest \in bars /\ cursor <= newest
    BY <2>1, AnswerIs DEF Kept, Window
  <2>3. newest \in Nat /\ cursor \in Nat
    BY <2>2, BarsAreTimes DEF TypeOK
  <2>4. ~(CursorAfter(newest) <= cursor)
    BY <2>2, <2>3 DEF CursorAfter
  <2> QED
    BY <2>1, <2>4 DEF FetchPage, CursorAfter
<1>2. batches' = Append(batches, batch)
    BY DEF FetchPage, RecordsOf
<1>3. /\ bars \subseteq Nat /\ cursor \in Nat /\ asked.end \in Nat
      /\ asked.start \in Nat /\ now \in Nat /\ batches \in Seq(SUBSET Records)
    BY BarsAreTimes DEF TypeOK
<1>4. /\ kept \subseteq bars /\ kept \subseteq Nat
      /\ \A t \in kept : cursor <= t /\ t < asked.end
    BY <1>1, <1>3, AnswerIs DEF Kept, Window
<1>5. /\ batch \subseteq Records
      /\ TimesOf(batch) = kept
      /\ \A r \in batch : r.t \in kept /\ r.closed = (r.t < now)
    BY <1>3, <1>4, RecordsOfType
<1>6. /\ batches' \in Seq(SUBSET Records)
      /\ DOMAIN batches' = 1..(Len(batches) + 1)
      /\ DOMAIN batches = 1..Len(batches) /\ Len(batches) \in Nat
      /\ \A i \in DOMAIN batches : batches'[i] = batches[i]
      /\ batches'[Len(batches) + 1] = batch
    BY <1>2, <1>3, <1>5
<1>7. newest \in Nat /\ cursor <= newest /\ newest < asked.end
    BY <1>1, <1>4
<1>8. Collected' = Collected \cup batch
  <2>1. \A r : r \in Collected' <=> \E i \in DOMAIN batches' : r \in batches'[i]
    BY DEF Collected
  <2>2. \A r : r \in Collected' <=> r \in batch \/ \E i \in DOMAIN batches : r \in batches[i]
    BY <1>6, <2>1
  <2> QED
    BY <2>2, CollectedIs
<1>9. TypeOK'
  <2>1. cursor' \in Nat
    BY <1>1, <1>7
  <2> QED
    BY <1>1, <1>6, <2>1 DEF TypeOK
<1>10. Paged'
  <2>1. asked'.start <= cursor' /\ cursor' <= asked'.end
    BY <1>1, <1>3, <1>7 DEF Paged
  <2>2. ASSUME NEW i \in DOMAIN batches, NEW r \in batches[i]
        PROVE  InWindow(r)'
    <3>1. InWindow(r)
        BY DEF Paged
    <3>2. r.t \in Nat /\ r.t < cursor
        BY <1>3, <3>1 DEF InWindow
    <3>3. r.t < cursor'
        BY <1>1, <1>3, <1>7, <3>2
    <3> QED
        BY <1>1, <3>1, <3>3 DEF InWindow, Pinned
  <2>3. ASSUME NEW r \in batch
        PROVE  InWindow(r)'
    <3>1. r.t \in kept /\ r.closed = (r.t < now)
        BY <1>5
    <3>2. /\ asked.start <= r.t /\ r.t < asked.end /\ r.t \in bars
          /\ r.t < cursor'
        BY <1>1, <1>3, <1>4, <1>7, <3>1 DEF Paged
    <3>3. ASSUME Pinned PROVE r.closed
      <4>1. asked.end <= asked.at /\ asked.at <= now /\ asked.at \in Nat
        BY <3>3 DEF Pinned, TypeOK
      <4>2. r.t \in Nat /\ asked.end \in Nat
        BY <1>3, <3>2
      <4>3. r.t < now
        BY <1>3, <3>2, <4>1, <4>2
      <4> QED
        BY <3>1, <4>3
    <3> QED
        BY <1>1, <3>2, <3>3 DEF InWindow, Pinned
  <2>4. \A i \in DOMAIN batches' : \A r \in batches'[i] : InWindow(r)'
    BY <1>6, <2>2, <2>3
  <2>5. OneOfEachTime(batch)
    BY <1>5 DEF OneOfEachTime, Records
  <2>6. \A i \in DOMAIN batches' : OneOfEachTime(batches'[i])
    BY <1>6, <2>5 DEF Paged
  <2> QED
    BY <1>1, <2>1, <2>4, <2>6 DEF Paged, OneOfEachTime
<1>11. BatchesAscend'
  <2> SUFFICES ASSUME NEW i \in DOMAIN batches', NEW j \in DOMAIN batches', i < j,
                      NEW a \in batches'[i], NEW b \in batches'[j]
               PROVE  a.t < b.t
    BY DEF BatchesAscend
  <2>1. i \in DOMAIN batches
    BY <1>6
  <2>2. CASE j \in DOMAIN batches
    BY <1>6, <2>1, <2>2 DEF BatchesAscend
  <2>3. CASE j \notin DOMAIN batches
    <3>1. b \in batch
        BY <1>6, <2>3
    <3>2. cursor <= b.t /\ b.t \in Nat
        BY <1>4, <1>5, <3>1
    <3>3. a.t < cursor /\ a.t \in Nat
        BY <1>3, <1>6, <2>1 DEF Paged, InWindow
    <3> QED
        BY <1>3, <3>2, <3>3
  <2> QED
    BY <2>2, <2>3
<1>12. Complete'
  <2> SUFFICES ASSUME Pinned', Reachable'
               PROVE  TimesOf(Collected)' = BarsIn(asked.start, cursor)'
    BY <1>1 DEF Complete
  <2>1. Pinned /\ Reachable
    BY <1>1 DEF Pinned, Reachable
  <2>2. TimesOf(Collected) = BarsIn(asked.start, cursor)
    BY <1>1, <2>1 DEF Complete
  <2>3. TimesOf(Collected') = TimesOf(Collected) \cup kept
    BY <1>5, <1>8 DEF TimesOf
  <2>4. kept = {t \in bars : cursor <= t /\ t <= newest}
    BY <1>1, <2>1, KeptAreNext
  <2>5. asked.start <= cursor
    BY DEF Paged
  <2>6. {t \in bars : asked.start <= t /\ t < newest + 1}
            = {t \in bars : asked.start <= t /\ t < cursor} \cup kept
    <3>1. asked.start <= cursor /\ cursor <= newest
        BY <1>7, <2>5
    <3>2. bars \in SUBSET Nat /\ asked.start \in Nat /\ cursor \in Nat
          /\ newest \in Nat
        BY <1>3, <1>7
    <3>3. {t \in bars : asked.start <= t /\ t < newest + 1}
            = {t \in bars : asked.start <= t /\ t < cursor}
                \cup {t \in bars : cursor <= t /\ t <= newest}
        BY <3>1, <3>2, WindowSplits
    <3> QED
        BY <3>3, <2>4
  <2>7. BarsIn(asked.start, cursor)' = BarsIn(asked.start, cursor) \cup kept
    BY <1>1, <2>6 DEF BarsIn
  <2> QED
    BY <2>2, <2>3, <2>7 DEF TimesOf
<1>13. Stored'
  <2>1. todo = {} /\ todo' = {}
    BY <1>1 DEF Stored, Written
  <2>2. Written'
    BY <1>1, <2>1 DEF Written
  <2> QED
    BY <1>1, <2>2, StorageKept DEF Stored
<1> QED
    BY <1>9, <1>10, <1>11, <1>12, <1>13


LEMMA EndPagingKeeps ==
    ASSUME Inv, EndPaging
    PROVE  Inv'
<1> USE BackfillAssumption DEF Inv, run, storage
<1>1. /\ pc = "page" /\ pc' = "write" /\ todo' = MonthsOf(Collected)
      /\ UNCHANGED <<now, bars, order, asked, cursor, batches>>
      /\ UNCHANGED <<store, manifest, unlisted, lastRun>>
    BY DEF EndPaging
<1>2. Collected' = Collected
    BY <1>1 DEF Collected
<1>3. TypeOK'
  <2>1. MonthsOf(Collected) \subseteq Months
    BY MonthsOfCollected
  <2> QED
    BY <1>1, <2>1 DEF TypeOK
<1>4. Paged'
    BY <1>1 DEF Paged, InWindow, Pinned
<1>5. BatchesAscend'
    BY <1>1 DEF BatchesAscend
<1>6. Complete'
  <2> SUFFICES ASSUME Pinned, Reachable
               PROVE  TimesOf(Collected) = BarsIn(asked.start, asked.end)
    BY <1>1, <1>2 DEF Complete, Pinned, Reachable, TimesOf, BarsIn
  <2>1. TimesOf(Collected) = BarsIn(asked.start, cursor)
    BY <1>1 DEF Complete
  <2>2. /\ asked.start <= cursor /\ cursor <= asked.end
        /\ asked.start \in Nat /\ cursor \in Nat /\ asked.end \in Nat
        /\ bars \subseteq Nat
    BY BarsAreTimes DEF Paged, TypeOK
  <2>3. CASE cursor >= asked.end
    <3>1. cursor = asked.end
        BY <2>2, <2>3
    <3> QED
        BY <2>1, <3>1
  <2>4. CASE cursor < asked.end
    <3>1. PICK page \in Answers(cursor, asked.end, order) : Kept(page) = {}
        BY <2>2, <2>4 DEF EndPaging
    <3>2. BarsIn(cursor, asked.end) = {}
        BY <3>1, EmptyAnswer
    <3>3. BarsIn(asked.start, asked.end)
            = BarsIn(asked.start, cursor) \cup BarsIn(cursor, asked.end)
        BY <2>2, WindowsJoin DEF BarsIn
    <3> QED
        BY <2>1, <3>2, <3>3
  <2> QED
    BY <2>2, <2>3, <2>4
<1>7. Stored'
  <2>1. Written'
    BY <1>1, <1>2 DEF Written, MonthsOf
  <2> QED
    BY <1>1, <2>1, StorageKept DEF Stored
<1> QED
    BY <1>3, <1>4, <1>5, <1>6, <1>7

LEMMA PutPartitionKeeps ==
    ASSUME Inv, NEW m \in Months, PutPartition(m)
    PROVE  Inv'
<1> USE BackfillAssumption DEF Inv, run, storage
<1>1. /\ pc = "write" /\ m \in todo
      /\ store' = [store EXCEPT ![m] = Partition(m)]
      /\ todo' = todo \ {m} /\ unlisted' = unlisted \cup {m}
      /\ UNCHANGED <<now, bars, pc, order, asked, cursor, batches>>
      /\ UNCHANGED <<manifest, lastRun>>
    BY DEF PutPartition
<1>2. Collected' = Collected
    BY <1>1 DEF Collected
<1>3. TypeOK'
  <2>1. Partition(m) \subseteq Records
    BY CollectedIs DEF Partition, TypeOK
  <2> QED
    BY <1>1, <2>1 DEF TypeOK
<1>4. Paged' /\ BatchesAscend'
    BY <1>1 DEF Paged, InWindow, Pinned, BatchesAscend
<1>5. Complete'
    BY <1>1, <1>2 DEF Complete, Pinned, Reachable, TimesOf, BarsIn
<1>6. Stored'
  <2>1. ASSUME NEW n \in MonthsOf(Collected) \ todo'
        PROVE  store'[n] = Partition(n)
    BY <1>1 DEF Stored, Written, TypeOK
  <2>2. \A n : Partition(n)' = Partition(n)
    BY <1>2 DEF Partition, MonthOf
  <2>3. MonthsOf(Collected)' = MonthsOf(Collected)
    BY <1>2 DEF MonthsOf, MonthOf
  <2>4. todo' \subseteq MonthsOf(Collected)
    BY <1>1 DEF Stored, Written
  <2>5. Written'
    BY <1>1, <2>1, <2>2, <2>3, <2>4 DEF Written
  <2>6. OneOfEachTime(Partition(m)) /\ \A r \in Partition(m) : MonthOf(r.t) = m
    BY CollectedOnce DEF Paged, Partition, OneOfEachTime
  <2>7. \A n \in Months : store'[n] = IF n = m THEN Partition(m) ELSE store[n]
    BY <1>1 DEF TypeOK
  <2>8. Partitions'
    BY <2>6, <2>7 DEF Stored, Partitions, OneOfEachTime, MonthOf
  <2>9. OneOfEachTime(Loaded)'
    <3>1. (manifest \subseteq Months)'
        BY <1>3 DEF TypeOK
    <3> QED
        BY <2>8, <3>1, MixIsSound, PTL
  <2>10. LoadsLastRun'
    <3>1. ASSUME NEW n \in manifest' \ unlisted'
          PROVE  store'[n] = {r \in lastRun' : MonthOf(r.t) = n}
        BY <1>1, <2>7 DEF Stored, LoadsLastRun, TypeOK
    <3> QED
        BY <1>1, <2>9, <3>1 DEF Stored, LoadsLastRun, MonthsOf, MonthOf
  <2> QED
    BY <2>5, <2>8, <2>10 DEF Stored
<1> QED
    BY <1>3, <1>4, <1>5, <1>6

LEMMA PutManifestKeeps ==
    ASSUME Inv, PutManifest
    PROVE  Inv'
<1> USE BackfillAssumption DEF Inv
<1>1. /\ pc = "write" /\ todo = {} /\ End
      /\ manifest' = MonthsOf(Collected) /\ unlisted' = {}
      /\ lastRun' = Collected /\ UNCHANGED <<now, bars, order, store>>
    BY DEF PutManifest
<1>2. \A m \in MonthsOf(Collected) : store[m] = Partition(m)
    BY <1>1 DEF Stored, Written
<1>3. Partitions'
    BY <1>1 DEF Stored, Partitions, OneOfEachTime, MonthOf
<1>4. MonthsOf(Collected) \subseteq Months
    BY MonthsOfCollected
<1>5. LoadsLastRun'
  <2>1. manifest' = MonthsOf(lastRun)'
    BY <1>1 DEF MonthsOf, MonthOf
  <2>2. \A m \in manifest' : store'[m] = {r \in lastRun' : MonthOf(r.t) = m}
    BY <1>1, <1>2 DEF Partition
  <2>3. OneOfEachTime(Loaded)'
    <3>1. (manifest \subseteq Months)'
        BY <1>1, <1>4
    <3> QED
        BY <1>3, <3>1, MixIsSound, PTL
  <2> QED
    BY <2>1, <2>2, <2>3 DEF LoadsLastRun, MonthOf
<1>6. Collected \subseteq Records
    BY CollectedIs DEF TypeOK
<1>7. store' \in [Months -> SUBSET Records]
    BY <1>1 DEF TypeOK
<1> QED
    BY <1>1, <1>3, <1>4, <1>5, <1>6, <1>7, EndKeeps

\* A run that stores nothing, or dies, leaves the store as it was.
LEMMA GivingUpKeeps ==
    ASSUME Inv, HandOver \/ Die
    PROVE  Inv'
<1>1. End /\ UNCHANGED <<now, bars, order, store, manifest, unlisted, lastRun>>
    BY DEF HandOver, Die, storage
<1>2. Partitions' /\ LoadsLastRun'
    BY <1>1, StorageKept DEF Inv, Stored
<1>3. /\ store' \in [Months -> SUBSET Records] /\ manifest' \subseteq Months
      /\ unlisted' \subseteq Months /\ lastRun' \subseteq Records
    BY <1>1 DEF Inv, TypeOK
<1> QED
    BY <1>1, <1>2, <1>3, EndKeeps

LEMMA StutterKeeps ==
    ASSUME Inv, UNCHANGED vars
    PROVE  Inv'
<1> USE DEF Inv, vars
<1>1. Collected' = Collected
    BY DEF Collected
<1>2. TypeOK' /\ Paged' /\ BatchesAscend'
    BY DEF TypeOK, Paged, InWindow, Pinned, BatchesAscend
<1>3. Complete'
    BY <1>1 DEF Complete, Pinned, Reachable, TimesOf, BarsIn
<1>4. Stored'
  <2>1. Written'
    BY <1>1 DEF Stored, Written, Partition, MonthsOf, MonthOf
  <2> QED
    BY <2>1, StorageKept DEF Stored
<1> QED
    BY <1>2, <1>3, <1>4

----------------------------------------------------------------------------
(***************************************************************************)
(* The inductive invariant: through paging, writing, failures and repeated *)
(* commands (page_klines, _write_partitions) paging stands where Paged and *)
(* Complete say and the store holds what Stored says.                      *)
(***************************************************************************)
THEOREM BackfillInvariant == Spec => []Inv
<1>1. ASSUME Inv, [Next]_vars PROVE Inv'
  <2>1. ASSUME NEW listed \in BOOLEAN, Tick(listed) PROVE Inv'
    BY <1>1, <2>1, TickKeeps
  <2>2. ASSUME NEW start \in 0..MaxTime, NEW end \in 0..MaxTime, Begin(start, end)
        PROVE  Inv'
    BY <1>1, <2>2, BeginKeeps
  <2>3. ASSUME NEW page \in SUBSET bars, NEW newest \in page,
               FetchPage(page, newest)
        PROVE  Inv'
    BY <1>1, <2>3, FetchPageKeeps
  <2>4. CASE EndPaging
    BY <1>1, <2>4, EndPagingKeeps
  <2>5. ASSUME NEW m \in Months, PutPartition(m) PROVE Inv'
    BY <1>1, <2>5, PutPartitionKeeps
  <2>6. CASE PutManifest
    BY <1>1, <2>6, PutManifestKeeps
  <2>7. CASE HandOver \/ Die
    BY <1>1, <2>7, GivingUpKeeps
  <2>8. CASE UNCHANGED vars
    BY <1>1, <2>8, StutterKeeps
  <2> QED
    BY <1>1, <2>1, <2>2, <2>3, <2>4, <2>5, <2>6, <2>7, <2>8 DEF Next, Working
<1> QED
    BY <1>1, InitInv, PTL DEF Spec

(***************************************************************************)
(* Paging never fetches a bar twice and never goes back                    *)
(* (backfill/common.py:89-95), for every batch size and either order of    *)
(* answers.                                                                *)
(***************************************************************************)
THEOREM PagingAscends == Spec => []BatchesAscend
<1>1. Inv => BatchesAscend
    BY DEF Inv
<1> QED
    BY <1>1, BackfillInvariant, PTL

(***************************************************************************)
(* A window that was over when it was asked for gives closed bars only,    *)
(* however long paging takes (paper/bootstrap.py:11-13).                   *)
(***************************************************************************)
THEOREM ClosedBarsOnly == Spec => []OnlyClosedBars
<1>1. Inv => OnlyClosedBars
    BY CollectedIs DEF Inv, Paged, InWindow, OnlyClosedBars
<1> QED
    BY <1>1, BackfillInvariant, PTL

(***************************************************************************)
(* Paging oldest first, or within one answer, misses no bar of the window, *)
(* whatever gaps the exchange has (backfill/common.py:61-95).              *)
(***************************************************************************)
THEOREM WindowIsWhole == Spec => []WholeWindow
<1>1. Inv => WholeWindow
    BY DEF Inv, Complete, Reachable, WholeWindow
<1> QED
    BY <1>1, BackfillInvariant, PTL

(***************************************************************************)
(* The partitions a manifest lists hold the records of the run that wrote  *)
(* it (cli/backfill.py:75-98), but for those a run that died has replaced  *)
(* since, and no mix of runs loads two bars of one time (mre/source.py:    *)
(* 110-112).                                                               *)
(***************************************************************************)
THEOREM ManifestIsOfOneRun == Spec => []LoadsLastRun
<1>1. Inv => LoadsLastRun
    BY DEF Inv, Stored
<1> QED
    BY <1>1, BackfillInvariant, PTL

============================================================================
