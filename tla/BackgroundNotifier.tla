-------------------------- MODULE BackgroundNotifier ------------------------
(***************************************************************************)
(* The notifier of the paper engine (src/trade/paper/notifier.py): a       *)
(* bounded queue, a daemon thread that sends what is in it, and the main   *)
(* thread, which never waits for a send while it trades and only so long   *)
(* for them when it shuts down.                                            *)
(*                                                                         *)
(* Accepted messages are numbered in the order notify accepts them; what   *)
(* they say is left out.  A send always ends (the transport has a timeout) *)
(* and its outcome is an input.                                            *)
(***************************************************************************)
EXTENDS Integers, Sequences

CONSTANTS
    MaxQueue,       \* capacity of the queue
    MaxMessages     \* bound: calls of notify

ASSUME NotifierAssumption ==
    /\ MaxQueue \in Nat \ {0}
    /\ MaxMessages \in Nat

VARIABLES
    queue,      \* queue.Queue: message numbers, and the sentinel
    accepted,   \* how many messages notify has put in the queue
    dropped,    \* how many it has dropped
    worker,     \* the thread: "get", "send" or "returned"
    held,       \* the item it has taken from the queue
    attempted,  \* the messages it has tried to send, in order
    sent,       \* those whose send succeeded
    main,       \* the main thread: see MainSteps
    gaveUp      \* the waits that ended at their deadline

vars == <<queue, accepted, dropped, worker, held, attempted, sent, main, gaveUp>>

\* Not a message number.
Sentinel == 0

\* The engine trades; its stop flushes; close flushes again, puts the
\* sentinel and joins the thread; the process exits.
MainSteps == {"trade", "flush_stop", "flush_close", "put", "join", "exited"}

NextStep(step) ==
    CASE step = "trade" -> "flush_stop"
      [] step = "flush_stop" -> "flush_close"
      [] step = "flush_close" -> "put"
      [] step = "put" -> "join"
      [] step = "join" -> "exited"

Init ==
    /\ queue = <<>>
    /\ accepted = 0
    /\ dropped = 0
    /\ worker = "get"
    /\ held = Sentinel
    /\ attempted = <<>>
    /\ sent = {}
    /\ main = "trade"
    /\ gaveUp = {}

----------------------------------------------------------------------------
\* Mutant: a full queue makes room by losing its oldest message.
NotifyDropOldest ==
    /\ main = "trade"
    /\ accepted + dropped < MaxMessages
    /\ accepted' = accepted + 1
    /\ IF Len(queue) < MaxQueue
       THEN queue' = Append(queue, accepted + 1)
       ELSE queue' = Append(Tail(queue), accepted + 1)
    /\ UNCHANGED <<dropped, worker, held, attempted, sent, main, gaveUp>>

\* notify: put_nowait, or count the message as dropped.
Notify ==
    /\ main = "trade"
    /\ accepted + dropped < MaxMessages
    /\ \/ /\ Len(queue) < MaxQueue
          /\ queue' = Append(queue, accepted + 1)
          /\ accepted' = accepted + 1
          /\ UNCHANGED dropped
       \/ /\ Len(queue) = MaxQueue
          /\ dropped' = dropped + 1
          /\ UNCHANGED <<queue, accepted>>
    /\ UNCHANGED <<worker, held, attempted, sent, main, gaveUp>>

\* _run: get blocks until there is an item.
Get ==
    /\ main # "exited"
    /\ worker = "get"
    /\ queue # <<>>
    /\ held' = Head(queue)
    /\ queue' = Tail(queue)
    /\ worker' = IF held' = Sentinel THEN "returned" ELSE "send"
    /\ UNCHANGED <<accepted, dropped, attempted, sent, main, gaveUp>>

\* Mutant: the thread dies of an exception of the wrapped notifier.
SendUnguarded(ok) ==
    /\ main # "exited"
    /\ worker = "send"
    /\ attempted' = Append(attempted, held)
    /\ sent' = IF ok THEN sent \cup {held} ELSE sent
    /\ held' = Sentinel
    /\ worker' = IF ok THEN "get" ELSE "returned"
    /\ UNCHANGED <<queue, accepted, dropped, main, gaveUp>>

\* The wrapped notifier returns or raises: the thread goes on.
Send(ok) ==
    /\ main # "exited"
    /\ worker = "send"
    /\ attempted' = Append(attempted, held)
    /\ sent' = IF ok THEN sent \cup {held} ELSE sent
    /\ held' = Sentinel
    /\ worker' = "get"
    /\ UNCHANGED <<queue, accepted, dropped, main, gaveUp>>

----------------------------------------------------------------------------
\* The main thread goes on to its next step.
Advance ==
    /\ main' = NextStep(main)
    /\ UNCHANGED <<accepted, dropped, worker, held, attempted, sent>>

\* run ends, by the end of its feed or an exception.
Stop ==
    /\ main = "trade"
    /\ Advance
    /\ UNCHANGED <<queue, gaveUp>>

\* flush polls until the queue is empty or its deadline is set.
Flushed ==
    /\ main \in {"flush_stop", "flush_close"}
    /\ queue = <<>>
    /\ Advance
    /\ UNCHANGED <<queue, gaveUp>>

\* Mutant: the sentinel overtakes the messages.
PutSentinelFirst ==
    /\ main = "put"
    /\ Len(queue) < MaxQueue
    /\ queue' = <<Sentinel>> \o queue
    /\ Advance
    /\ UNCHANGED gaveUp

\* close: this put blocks until there is room.
PutSentinel ==
    /\ main = "put"
    /\ Len(queue) < MaxQueue
    /\ queue' = Append(queue, Sentinel)
    /\ Advance
    /\ UNCHANGED gaveUp

Joined ==
    /\ main = "join"
    /\ worker = "returned"
    /\ Advance
    /\ UNCHANGED <<queue, gaveUp>>

\* The deadline of a flush or of the join.
TimeOut ==
    /\ main \in {"flush_stop", "flush_close", "join"}
    /\ gaveUp' = gaveUp \cup {main}
    /\ Advance
    /\ UNCHANGED queue

\* The daemon thread ends with the process.
Exited == main = "exited" /\ UNCHANGED vars

Main == Stop \/ Flushed \/ PutSentinel \/ Joined \/ TimeOut

Worker == Get \/ \E ok \in BOOLEAN : Send(ok)

Next == Notify \/ Main \/ Worker \/ Exited

(***************************************************************************)
(* The worker runs while it has something to do and a send ends (the       *)
(* transport's timeout, notifier.py:60); once run has ended, the main      *)
(* thread goes on.  Nothing makes run end.                                 *)
(***************************************************************************)
Fairness ==
    /\ WF_vars(Worker)
    /\ WF_vars(Flushed \/ PutSentinel \/ Joined \/ TimeOut)

Spec == Init /\ [][Next]_vars /\ Fairness

----------------------------------------------------------------------------
TypeOK ==
    /\ queue \in Seq(Nat) /\ Len(queue) <= MaxQueue
    /\ accepted \in Nat
    /\ dropped \in Nat
    /\ worker \in {"get", "send", "returned"}
    /\ held \in Nat
    /\ attempted \in Seq(Nat)
    /\ sent \subseteq Nat
    /\ main \in MainSteps
    /\ gaveUp \subseteq MainSteps

\* Messages the worker is done with or holds.
Taken == Len(attempted) + (IF worker = "send" THEN 1 ELSE 0)

(***************************************************************************)
(* What notify accepted ("True = accepted for delivery", notifier.py:119)  *)
(* is tried once and in order: tried, held and queued messages are, end to *)
(* end, all the accepted ones, with the sentinel behind them.              *)
(***************************************************************************)
NothingLost ==
    /\ \A i \in DOMAIN attempted : attempted[i] = i
    /\ worker = "send" => held = Taken
    /\ \A i \in DOMAIN queue :
         queue[i] = IF Taken + i <= accepted THEN Taken + i ELSE Sentinel
    /\ worker # "returned" => Taken + Len(queue) >= accepted

\* The thread returns only when every accepted message has been tried
\* (notifier.py:149-150): the sentinel overtakes nothing.
ReturnsLast == worker = "returned" => Len(attempted) = accepted

\* A process that exits without its join timing out has tried every accepted
\* message, although flush does not wait for the one in flight
\* (notifier.py:162, 165-168).
ExitAfterAll ==
    main = "exited" /\ "join" \notin gaveUp => Len(attempted) = accepted

\* Shutting down ends, although close puts its sentinel with a put that
\* blocks on a full queue (notifier.py:167): deadlines are on the waits only.
StopEnds == main = "flush_stop" ~> main = "exited"

\* While the process runs, an accepted message is tried: no failed send keeps
\* the next one from being sent (notifier.py:151-154).
AcceptedIsTried ==
    \A n \in 1..MaxMessages :
        accepted >= n ~> Len(attempted) >= n \/ main = "exited"

============================================================================
