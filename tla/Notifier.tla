------------------------------ MODULE Notifier ------------------------------
(***************************************************************************)
(* The way of a Telegram message, app/notify.py: emit(), in any thread,    *)
(* posts it to the event loop; _enqueue puts it into a queue that drops    *)
(* its oldest message when full; one worker delivers, under a cap per      *)
(* minute and with retries; stop() joins the queue for a while.  Which     *)
(* messages emit() holds back is in Alerts.tla.  Messages are numbered in  *)
(* the order in which they were emitted; an age past the cap's window is   *)
(* not told from a greater one.                                            *)
(***************************************************************************)
EXTENDS Naturals, Sequences

CONSTANTS MaxQueue,     \* MAX_QUEUE
          RatePerMin,   \* cfg["rate_per_min"]
          Minute,       \* the window of the cap, in ticks
          Attempts,     \* send_text's attempts
          MaxEmits      \* bound: messages

ASSUME NotifierAssumption ==
    /\ MaxQueue \in Nat \ {0} /\ RatePerMin \in Nat \ {0} /\ Minute \in Nat \ {0}
    /\ Attempts \in Nat \ {0} /\ MaxEmits \in Nat

VARIABLES life,       \* the notifier: up, flushing in stop(), down
          posted,     \* callbacks handed to the loop by call_soon_threadsafe
          queue,      \* the asyncio.Queue
          unfinished, \* its count of tasks not done, what join() waits for
          worker,     \* pc, the attempts made and the drops the message in hand reports
          sentAt,     \* _sent_at, as ages
          note,       \* _dropped_note
          stats,      \* sent, failed, dropped
          emitted,    \* bookkeeping: messages emitted so far
          told,       \* bookkeeping: drops reported by messages that are through
          unsent      \* bookkeeping: messages that had nowhere to go

bookVars == <<emitted, told, unsent>>
notifyVars == <<life, posted, queue, unfinished, worker, sentAt, note, stats, bookVars>>

Resting == [pc |-> "get", tries |-> 0, drops |-> 0]

NotifyInit ==
    /\ life = "up"
    /\ posted = <<>> /\ queue = <<>> /\ sentAt = <<>>
    /\ unfinished = 0 /\ note = 0 /\ told = 0 /\ emitted = 0 /\ unsent = 0
    /\ worker = Resting
    /\ stats = [sent |-> 0, failed |-> 0, dropped |-> 0]

-----------------------------------------------------------------------------
Emits ==
    /\ life # "down"
    /\ emitted < MaxEmits
    /\ emitted' = emitted + 1
    /\ posted' = Append(posted, emitted')
    /\ UNCHANGED <<life, queue, unfinished, worker, sentAt, note, stats, told, unsent>>

(* Fault: the message that makes room is not marked as done. *)
MakeRoom_NotDone == unfinished' = unfinished + 1

(* get_nowait and task_done of the oldest message, put_nowait of the new one. *)
MakeRoom == unfinished' = unfinished - 1 + 1

(* _enqueue, a callback of the loop. *)
Enqueue ==
    /\ life # "down"
    /\ posted # <<>>
    /\ posted' = Tail(posted)
    /\ \/ /\ Len(queue) >= MaxQueue
          /\ queue' = Append(Tail(queue), Head(posted))
          /\ MakeRoom
          /\ stats' = [stats EXCEPT !.dropped = @ + 1]
          /\ note' = note + 1
       \/ /\ Len(queue) < MaxQueue
          /\ queue' = Append(queue, Head(posted))
          /\ unfinished' = unfinished + 1
          /\ UNCHANGED <<stats, note>>
    /\ UNCHANGED <<life, worker, sentAt, bookVars>>

-----------------------------------------------------------------------------
Recent(ages) == SelectSeq(ages, LAMBDA a : a < Minute)

(* Over the cap: _deliver drops the message, and the worker marks it as done. *)
OverCap ==
    /\ worker.pc = "get"
    /\ queue # <<>>
    /\ Len(Recent(sentAt)) >= RatePerMin
    /\ queue' = Tail(queue)
    /\ sentAt' = Recent(sentAt)
    /\ stats' = [stats EXCEPT !.dropped = @ + 1]
    /\ note' = note + 1
    /\ unfinished' = unfinished - 1
    /\ worker' = [worker EXCEPT !.pc = "pace"]
    /\ UNCHANGED <<life, posted, bookVars>>

(* The chat was removed from the settings meanwhile: the message is gone without a trace. *)
NoChat ==
    /\ worker.pc = "get"
    /\ queue # <<>>
    /\ Len(Recent(sentAt)) < RatePerMin
    /\ queue' = Tail(queue)
    /\ sentAt' = Recent(sentAt)
    /\ unfinished' = unfinished - 1
    /\ worker' = [worker EXCEPT !.pc = "pace"]
    /\ unsent' = unsent + 1
    /\ UNCHANGED <<life, posted, note, stats, emitted, told>>

(* format: the message in hand reports the drops so far. *)
Format ==
    /\ worker' = [pc |-> "send", tries |-> 0, drops |-> note]
    /\ note' = 0

(* _deliver begins: the first call to Telegram goes out. *)
Deliver ==
    /\ worker.pc = "get"
    /\ queue # <<>>
    /\ Len(Recent(sentAt)) < RatePerMin
    /\ queue' = Tail(queue)
    /\ sentAt' = Append(Recent(sentAt), 0)
    /\ Format
    /\ UNCHANGED <<life, posted, unfinished, stats, bookVars>>

(* Fault: a refusal that asks to wait is obeyed without counting the attempt. *)
TryAgain_Uncounted ==
    /\ worker.pc = "send"
    /\ worker' = [worker EXCEPT !.tries = 1 - @]
    /\ UNCHANGED <<life, posted, queue, unfinished, sentAt, note, stats, bookVars>>

(* send_text: "too many requests", a network error or a parse error leaves another attempt. *)
TryAgain ==
    /\ worker.pc = "send"
    /\ worker.tries < Attempts - 1
    /\ worker' = [worker EXCEPT !.tries = @ + 1]
    /\ UNCHANGED <<life, posted, queue, unfinished, sentAt, note, stats, bookVars>>

(* send_text returns, _deliver counts it, and the worker's finally marks the message as done. *)
SendReturns ==
    /\ worker.pc = "send"
    /\ \/ stats' = [stats EXCEPT !.sent = @ + 1]
       \/ stats' = [stats EXCEPT !.failed = @ + 1]
    /\ told' = told + worker.drops
    /\ worker' = [Resting EXCEPT !.pc = "pace"]
    /\ unfinished' = unfinished - 1
    /\ UNCHANGED <<life, posted, queue, sentAt, note, emitted, unsent>>

Paced ==
    /\ worker.pc = "pace"
    /\ worker' = [worker EXCEPT !.pc = "get"]
    /\ UNCHANGED <<life, posted, queue, unfinished, sentAt, note, stats, bookVars>>

-----------------------------------------------------------------------------
StopBegins ==
    /\ life = "up"
    /\ life' = "flush"
    /\ UNCHANGED <<posted, queue, unfinished, worker, sentAt, note, stats, bookVars>>

(* stop: join() returned, or flush_s is over; the worker is cancelled, which takes the message in *)
(* hand with it, and the loop forgotten.                                                         *)
Down ==
    /\ life' = "down"
    /\ worker' = [Resting EXCEPT !.pc = "cancelled"]
    /\ unfinished' = IF worker.pc = "send" THEN unfinished - 1 ELSE unfinished
    /\ UNCHANGED <<posted, queue, sentAt, note, stats, bookVars>>

JoinReturns == life = "flush" /\ unfinished = 0 /\ Down

FlushTimeout == life = "flush" /\ unfinished > 0 /\ Down

Aged(ages) == [i \in DOMAIN ages |-> IF ages[i] < Minute THEN ages[i] + 1 ELSE Minute]

NotifyTick ==
    /\ life # "down"
    /\ sentAt' = Aged(sentAt)
    /\ UNCHANGED <<life, posted, queue, unfinished, worker, note, stats, bookVars>>

NotifyNext ==
    \/ Emits \/ Enqueue \/ OverCap \/ NoChat \/ Deliver \/ TryAgain \/ SendReturns \/ Paced
    \/ StopBegins \/ JoinReturns \/ FlushTimeout \/ NotifyTick

NotifySpec == NotifyInit /\ [][NotifyNext]_notifyVars

(* The event loop runs what is posted, a call to Telegram has a timeout, the pause ends, and the *)
(* attempts of a message are finitely many.                                                      *)
NotifyFairness ==
    /\ WF_notifyVars(Enqueue)
    /\ WF_notifyVars(OverCap \/ NoChat \/ Deliver)
    /\ WF_notifyVars(TryAgain \/ SendReturns)
    /\ WF_notifyVars(Paced)

NotifyFairSpec == NotifySpec /\ NotifyFairness

-----------------------------------------------------------------------------
NotifyTypeOK ==
    /\ life \in {"up", "flush", "down"}
    /\ posted \in Seq(1..MaxEmits) /\ queue \in Seq(1..MaxEmits)
    /\ unfinished \in Nat /\ note \in Nat /\ told \in Nat /\ unsent \in Nat /\ emitted \in 0..MaxEmits
    /\ worker \in [pc : {"get", "send", "pace", "cancelled"}, tries : 0..Attempts - 1, drops : Nat]
    /\ sentAt \in Seq(0..Minute)
    /\ stats \in [sent : Nat, failed : Nat, dropped : Nat]

InHand == IF worker.pc = "send" THEN 1 ELSE 0

(* The count join() waits for is exact: the queue's messages and the one in hand; with one too   *)
(* many every shutdown lasts flush_s, with one too few messages die in a queue that was "joined". *)
JoinIsExact == unfinished = Len(queue) + InHand

(* Every message that had somewhere to go has one fate, and is counted there once. *)
OneFate ==
    emitted = Len(posted) + Len(queue) + InHand + stats.sent + stats.failed + stats.dropped + unsent

(* Every drop is reported by a later message or still waits for one, although drops happen while *)
(* a message that reports earlier ones is on its way.                                            *)
DropsTold == stats.dropped = note + told + worker.drops

(* While the notifier is up its books are right: the count of messages not done (_enqueue,       *)
(* _worker and stop, notify.py), the fates of all messages, and the drops that the next message  *)
(* has to mention ("next message mentions the dropped ones", tests/smoke_notify.py).             *)
Accounted == life # "down" => JoinIsExact /\ OneFate /\ DropsTold

(* With the loop running, and Telegram answering or timing out, the queue gets empty again. *)
QueueDrains == (queue # <<>> /\ life = "up") ~> (queue = <<>> \/ life # "up")
=============================================================================
