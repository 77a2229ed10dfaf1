--------------------------- MODULE NotifierProofs ---------------------------
(***************************************************************************)
(* The books of the Telegram notifier, for any number of messages, any     *)
(* length of the queue and any cap; and what the server says of a disk     *)
(* that is low and of a day, for any intervals and numbers of days.        *)
(***************************************************************************)
EXTENDS Notifier, Alerts, TLAPS

Worker == [pc : {"get", "send", "pace", "cancelled"}, tries : Nat, drops : Nat]
Stats == [sent : Nat, failed : Nat, dropped : Nat]

(* The types the books need; the messages themselves do not matter. *)
Typed ==
    /\ life \in {"up", "flush", "down"}
    /\ posted \in Seq(Nat) /\ queue \in Seq(Nat)
    /\ unfinished \in Nat /\ note \in Nat /\ told \in Nat /\ unsent \in Nat /\ emitted \in Nat
    /\ worker \in Worker
    /\ stats \in Stats

(* Only a message in hand reports drops, and the worker is cancelled when the notifier is down. *)
Handling ==
    /\ worker.pc # "send" => worker.drops = 0
    /\ life = "down" <=> worker.pc = "cancelled"

(* The inductive invariant. *)
NInv == Typed /\ Handling /\ Accounted

USE NotifierAssumption

-----------------------------------------------------------------------------
(* The books of a notifier that is up, one equation each. *)
LEMMA JoinBook ==
    ASSUME NInv, life # "down"
    PROVE  /\ unfinished = Len(queue) + InHand
           /\ unfinished \in Nat /\ Len(queue) \in Nat /\ InHand \in Nat
<1>1. unfinished \in Nat /\ Len(queue) \in Nat /\ InHand \in Nat
    BY DEF NInv, Typed, InHand
<1> QED
    BY <1>1 DEF NInv, Accounted, JoinIsExact

LEMMA FateBook ==
    ASSUME NInv, life # "down"
    PROVE  /\ emitted = Len(posted) + Len(queue) + InHand + stats.sent + stats.failed + stats.dropped + unsent
           /\ Len(posted) \in Nat /\ Len(queue) \in Nat /\ InHand \in Nat /\ unsent \in Nat /\ emitted \in Nat
           /\ stats.sent \in Nat /\ stats.failed \in Nat /\ stats.dropped \in Nat
<1>1. Len(posted) \in Nat /\ Len(queue) \in Nat /\ unsent \in Nat /\ emitted \in Nat /\ InHand \in Nat
    BY DEF NInv, Typed, InHand
<1>2. stats.sent \in Nat /\ stats.failed \in Nat /\ stats.dropped \in Nat
    BY DEF NInv, Typed, Stats
<1> QED
    BY <1>1, <1>2 DEF NInv, Accounted, OneFate

LEMMA DropBook ==
    ASSUME NInv, life # "down"
    PROVE  /\ stats.dropped = note + told + worker.drops
           /\ stats.dropped \in Nat /\ note \in Nat /\ told \in Nat /\ worker.drops \in Nat
<1>1. stats.dropped \in Nat /\ note \in Nat /\ told \in Nat /\ worker.drops \in Nat
    BY DEF NInv, Typed, Stats, Worker
<1> QED
    BY <1>1 DEF NInv, Accounted, DropsTold

(* One more in a field of a record of numbers. *)
LEMMA DropCounted ==
    ASSUME NInv, stats' = [stats EXCEPT !.dropped = @ + 1]
    PROVE  /\ stats' \in Stats /\ stats'.dropped = stats.dropped + 1
           /\ stats'.sent = stats.sent /\ stats'.failed = stats.failed
<1>1. stats \in Stats /\ stats.dropped \in Nat
    BY DEF NInv, Typed, Stats
<1> DEFINE n == stats.dropped + 1
<1>2. n \in Nat
    BY <1>1
<1>3. stats' = [stats EXCEPT !.dropped = n]
    OBVIOUS
<1> HIDE DEF n
<1>4. /\ stats' \in Stats /\ stats'.dropped = n
      /\ stats'.sent = stats.sent /\ stats'.failed = stats.failed
    BY <1>1, <1>2, <1>3 DEF Stats
<1> QED
    BY <1>4 DEF n

(* The arithmetic of the books, on its own: a message leaves posted or the queue, and is counted as *)
(* dropped or unsent.                                                                               *)
LEMMA CountedElsewhere ==
    ASSUME NEW a, NEW b, a \in Nat, b \in Nat, a = b + 1, stats.dropped \in Nat, unsent \in Nat,
           stats'.dropped \in Nat, unsent' \in Nat, stats'.dropped + unsent' = stats.dropped + unsent + 1
    PROVE  a + stats.dropped + unsent = b + stats'.dropped + unsent'
OBVIOUS

LEMMA OneLessPosted ==
    ASSUME Len(posted) \in Nat, Len(queue) \in Nat, InHand \in Nat, stats.sent \in Nat, stats.failed \in Nat,
           Len(posted') \in Nat, Len(posted) = Len(posted') + 1
    PROVE  Len(posted) + Len(queue) + InHand + stats.sent + stats.failed
               = (Len(posted') + Len(queue) + InHand + stats.sent + stats.failed) + 1
OBVIOUS

LEMMA OneLessQueued ==
    ASSUME Len(posted) \in Nat, Len(queue) \in Nat, InHand \in Nat, stats.sent \in Nat, stats.failed \in Nat,
           Len(queue') \in Nat, Len(queue) = Len(queue') + 1
    PROVE  Len(posted) + Len(queue) + InHand + stats.sent + stats.failed
               = (Len(posted) + Len(queue') + InHand + stats.sent + stats.failed) + 1
OBVIOUS

LEMMA SumIsNat ==
    ASSUME NEW p, NEW q, NEW i, NEW s, NEW f, p \in Nat, q \in Nat, i \in Nat, s \in Nat, f \in Nat
    PROVE  p + q + i + s + f \in Nat
OBVIOUS

LEMMA FromPosted ==
    ASSUME emitted = Len(posted) + Len(queue) + InHand + stats.sent + stats.failed + stats.dropped + unsent,
           Len(posted) \in Nat, Len(queue) \in Nat, InHand \in Nat, stats.sent \in Nat, stats.failed \in Nat,
           Len(posted') \in Nat, Len(posted) = Len(posted') + 1, stats.dropped \in Nat, unsent \in Nat,
           stats'.dropped \in Nat, unsent' \in Nat, stats'.dropped + unsent' = stats.dropped + unsent + 1
    PROVE  emitted = Len(posted') + Len(queue) + InHand + stats.sent + stats.failed + stats'.dropped + unsent'
BY CountedElsewhere, OneLessPosted, SumIsNat, Zenon

LEMMA FromQueue ==
    ASSUME emitted = Len(posted) + Len(queue) + InHand + stats.sent + stats.failed + stats.dropped + unsent,
           Len(posted) \in Nat, Len(queue) \in Nat, InHand \in Nat, stats.sent \in Nat, stats.failed \in Nat,
           Len(queue') \in Nat, Len(queue) = Len(queue') + 1, stats.dropped \in Nat, unsent \in Nat,
           stats'.dropped \in Nat, unsent' \in Nat, stats'.dropped + unsent' = stats.dropped + unsent + 1
    PROVE  emitted = Len(posted) + Len(queue') + InHand + stats.sent + stats.failed + stats'.dropped + unsent'
BY CountedElsewhere, OneLessQueued, SumIsNat, Zenon

LEMMA DroppedAndNoted ==
    ASSUME stats.dropped = note + told, stats.dropped \in Nat, note \in Nat, told \in Nat, stats'.dropped \in Nat,
           note' \in Nat, stats'.dropped + note = stats.dropped + note'
    PROVE  stats'.dropped = note' + told
OBVIOUS

LEMMA OneMoreDropped ==
    ASSUME stats.dropped \in Nat, unsent \in Nat, stats'.dropped = stats.dropped + 1
    PROVE  stats'.dropped \in Nat /\ stats'.dropped + unsent = stats.dropped + unsent + 1
OBVIOUS

(* A queue that has lost its head, as a sequence. *)
LEMMA TailFacts ==
    ASSUME NEW s \in Seq(Nat), s # <<>>
    PROVE  Tail(s) \in Seq(Nat) /\ Len(s) = Len(Tail(s)) + 1 /\ Len(Tail(s)) \in Nat /\ Head(s) \in Nat
OBVIOUS

LEMMA EmitsKeeps == ASSUME NInv, Emits PROVE NInv'
<1>1. /\ posted' \in Seq(Nat) /\ Len(posted') = Len(posted) + 1
      /\ emitted' = emitted + 1 /\ emitted' \in Nat /\ life # "down"
    BY DEF Emits, NInv, Typed
<1>2. UNCHANGED <<life, queue, unfinished, worker, note, stats, told, unsent, InHand>>
    BY DEF Emits, InHand
<1>3. Typed' /\ Handling'
    BY <1>1, <1>2 DEF NInv, Typed, Handling
<1>4. JoinIsExact' /\ DropsTold'
    BY <1>1, <1>2, JoinBook, DropBook DEF JoinIsExact, DropsTold
<1>5. OneFate'
    <2>1. /\ emitted = Len(posted) + Len(queue) + InHand + stats.sent + stats.failed + stats.dropped + unsent
          /\ Len(posted) \in Nat /\ Len(queue) \in Nat /\ InHand \in Nat /\ unsent \in Nat
          /\ stats.sent \in Nat /\ stats.failed \in Nat /\ stats.dropped \in Nat
        BY <1>1, FateBook
    <2>2. emitted + 1 = (Len(posted) + 1) + Len(queue) + InHand + stats.sent + stats.failed + stats.dropped + unsent
        BY <2>1, SMTT(30)
    <2> QED
        BY <1>1, <1>2, <2>2 DEF OneFate
<1> QED
    BY <1>3, <1>4, <1>5 DEF NInv, Accounted

LEMMA EnqueueKeeps == ASSUME NInv, Enqueue PROVE NInv'
<1>1. /\ life # "down" /\ Head(posted) \in Nat
      /\ posted' \in Seq(Nat) /\ Len(posted) = Len(posted') + 1 /\ Len(posted') \in Nat
    BY TailFacts DEF Enqueue, NInv, Typed
<1>2. UNCHANGED <<life, worker, emitted, told, unsent, InHand>>
    BY DEF Enqueue, bookVars, InHand
<1>3. CASE Len(queue) >= MaxQueue /\ queue' = Append(Tail(queue), Head(posted))
           /\ MakeRoom /\ stats' = [stats EXCEPT !.dropped = @ + 1] /\ note' = note + 1
    <2>1. queue \in Seq(Nat) /\ queue # <<>>
        BY <1>3 DEF NInv, Typed, NotifierAssumption
    <2>2. queue' \in Seq(Nat) /\ Len(queue') = Len(queue)
        BY <1>1, <1>3, <2>1, TailFacts
    <2>3. /\ stats' \in Stats /\ stats'.dropped = stats.dropped + 1
          /\ stats'.sent = stats.sent /\ stats'.failed = stats.failed
        BY <1>3, DropCounted
    <2>4. unfinished' = unfinished /\ unfinished' \in Nat /\ note' = note + 1 /\ note' \in Nat
        <3>1. unfinished' = unfinished - 1 + 1 /\ unfinished \in Nat /\ note \in Nat /\ note' = note + 1
            BY <1>3 DEF MakeRoom, NInv, Typed
        <3> QED
            BY <3>1
    <2>5. Typed' /\ Handling'
        BY <1>1, <1>2, <2>2, <2>3, <2>4 DEF NInv, Typed, Handling
    <2>6. Accounted'
        <3>1. JoinIsExact'
            BY <1>1, <1>2, <2>2, <2>4, JoinBook DEF JoinIsExact
        <3>2. OneFate'
            <4>1. /\ emitted = Len(posted) + Len(queue) + InHand + stats.sent + stats.failed + stats.dropped + unsent
                  /\ Len(posted) \in Nat /\ Len(queue) \in Nat /\ InHand \in Nat /\ unsent \in Nat
                  /\ stats.sent \in Nat /\ stats.failed \in Nat /\ stats.dropped \in Nat
                BY <1>1, FateBook
            <4>2. stats'.dropped \in Nat /\ stats'.dropped + unsent' = stats.dropped + unsent + 1 /\ unsent' \in Nat
                BY <1>2, <2>3, <4>1, OneMoreDropped
            <4>3. emitted = Len(posted') + Len(queue) + InHand + stats.sent + stats.failed + stats'.dropped + unsent'
                BY <1>1, <4>1, <4>2, FromPosted, Zenon
            <4> QED
                BY <1>2, <2>2, <2>3, <4>3 DEF OneFate
        <3>3. DropsTold'
            BY <1>1, <1>2, <2>3, <2>4, DropBook DEF DropsTold
        <3> QED
            BY <3>1, <3>2, <3>3 DEF Accounted
    <2> QED
        BY <2>5, <2>6 DEF NInv
<1>4. CASE queue' = Append(queue, Head(posted)) /\ unfinished' = unfinished + 1 /\ UNCHANGED <<stats, note>>
    <2>1. queue' \in Seq(Nat) /\ Len(queue') = Len(queue) + 1
        BY <1>1, <1>4 DEF NInv, Typed
    <2>2. Typed' /\ Handling'
        BY <1>1, <1>2, <1>4, <2>1 DEF NInv, Typed, Handling
    <2>3. Accounted'
        BY <1>1, <1>2, <1>4, <2>1, JoinBook, FateBook, DropBook DEF Accounted, JoinIsExact, OneFate, DropsTold
    <2> QED
        BY <2>2, <2>3 DEF NInv
<1> QED
    BY <1>3, <1>4 DEF Enqueue

(* The worker takes a message out of the queue and is through with it at once. *)
LEMMA PassedOver ==
    ASSUME NInv, worker.pc = "get", queue # <<>>, queue' = Tail(queue), unfinished' = unfinished - 1,
           worker' = [worker EXCEPT !.pc = "pace"], UNCHANGED <<life, posted, emitted, told>>,
           stats' \in Stats, note' \in Nat, unsent' \in Nat,
           stats'.sent = stats.sent, stats'.failed = stats.failed,
           stats'.dropped + unsent' = stats.dropped + unsent + 1,
           stats'.dropped + note = stats.dropped + note'
    PROVE  NInv'
<1>1. /\ queue' \in Seq(Nat) /\ Len(queue) = Len(queue') + 1 /\ Len(queue') \in Nat
    BY TailFacts DEF NInv, Typed
<1>2. worker' \in Worker /\ worker'.pc = "pace" /\ worker'.drops = worker.drops /\ worker.drops = 0
    BY DEF NInv, Typed, Worker, Handling
<1>3. life # "down" /\ InHand = 0 /\ InHand' = 0
    BY <1>2 DEF NInv, Handling, InHand
<1>4. unfinished' \in Nat
    BY <1>1, <1>3, JoinBook
<1>5. Typed' /\ Handling'
    BY <1>1, <1>2, <1>3, <1>4 DEF NInv, Typed, Handling
<1>6. JoinIsExact'
    BY <1>1, <1>3, JoinBook DEF JoinIsExact
<1>7. stats'.dropped \in Nat /\ unsent \in Nat /\ note \in Nat /\ told \in Nat
    BY DEF NInv, Typed, Stats
<1>8. OneFate'
    <2>1. /\ emitted = Len(posted) + Len(queue) + InHand + stats.sent + stats.failed + stats.dropped + unsent
          /\ Len(posted) \in Nat /\ Len(queue) \in Nat /\ InHand \in Nat /\ unsent \in Nat
          /\ stats.sent \in Nat /\ stats.failed \in Nat /\ stats.dropped \in Nat
        BY <1>3, FateBook
    <2>2. emitted = Len(posted) + Len(queue') + InHand + stats.sent + stats.failed + stats'.dropped + unsent'
        BY <1>1, <1>7, <2>1, FromQueue, Zenon
    <2> QED
        BY <1>3, <2>2 DEF OneFate
<1>9. DropsTold'
    <2>1. stats.dropped = note + told /\ stats.dropped \in Nat
        BY <1>2, <1>3, DropBook
    <2>2. stats'.dropped = note' + told
        BY <1>7, <2>1, DroppedAndNoted, Zenon
    <2> QED
        BY <1>2, <1>7, <2>2, SMTT(30) DEF DropsTold
<1> QED
    BY <1>5, <1>6, <1>8, <1>9 DEF NInv, Accounted

LEMMA OverCapKeeps == ASSUME NInv, OverCap PROVE NInv'
<1>1. /\ stats' \in Stats /\ stats'.dropped = stats.dropped + 1
      /\ stats'.sent = stats.sent /\ stats'.failed = stats.failed
    BY DropCounted DEF OverCap
<1>2. note' = note + 1 /\ note \in Nat /\ unsent' = unsent /\ unsent \in Nat /\ stats.dropped \in Nat
    BY DEF OverCap, bookVars, NInv, Typed, Stats
<1>3. stats'.dropped + unsent' = stats.dropped + unsent + 1 /\ stats'.dropped + note = stats.dropped + note'
    BY <1>1, <1>2
<1> QED
    BY <1>1, <1>2, <1>3, PassedOver DEF OverCap, bookVars

LEMMA NoChatKeeps == ASSUME NInv, NoChat PROVE NInv'
<1>1. stats' = stats /\ stats \in Stats /\ note' = note /\ note \in Nat
    BY DEF NoChat, NInv, Typed
<1>2. unsent' = unsent + 1 /\ unsent \in Nat /\ stats.dropped \in Nat
    BY DEF NoChat, NInv, Typed, Stats
<1>3. stats'.dropped + unsent' = stats.dropped + unsent + 1 /\ stats'.dropped + note = stats.dropped + note'
    BY <1>1, <1>2
<1> QED
    BY <1>1, <1>2, <1>3, PassedOver DEF NoChat

(* A message gets in hand: it takes the note of the drops with it. *)
LEMMA DeliverKeeps == ASSUME NInv, Deliver PROVE NInv'
<1>1. /\ queue' \in Seq(Nat) /\ Len(queue) = Len(queue') + 1 /\ Len(queue') \in Nat
    BY TailFacts DEF Deliver, NInv, Typed
<1>2. /\ worker' \in Worker /\ worker'.pc = "send" /\ worker'.drops = note /\ note' = 0
      /\ worker.pc = "get" /\ worker.drops = 0
    BY DEF Deliver, Format, NInv, Typed, Worker, Handling
<1>3. life # "down" /\ InHand = 0 /\ InHand' = 1
    BY <1>2 DEF NInv, Handling, InHand
<1>4. UNCHANGED <<life, posted, unfinished, stats, emitted, told, unsent>>
    BY DEF Deliver, bookVars
<1>5. Typed' /\ Handling'
    BY <1>1, <1>2, <1>3, <1>4 DEF NInv, Typed, Handling
<1>6. JoinIsExact' /\ OneFate'
    BY <1>1, <1>3, <1>4, JoinBook, FateBook DEF JoinIsExact, OneFate, NInv, Typed
<1>7. DropsTold'
    BY <1>2, <1>3, <1>4, DropBook DEF DropsTold, NInv, Typed
<1> QED
    BY <1>5, <1>6, <1>7 DEF NInv, Accounted

LEMMA TryAgainKeeps == ASSUME NInv, TryAgain PROVE NInv'
<1>1. /\ worker' \in Worker /\ worker'.pc = worker.pc /\ worker'.drops = worker.drops
    <2>1. worker \in Worker /\ worker.tries \in Nat
        BY DEF NInv, Typed, Worker
    <2> DEFINE n == worker.tries + 1
    <2>2. n \in Nat /\ worker' = [worker EXCEPT !.tries = n]
        BY <2>1 DEF TryAgain
    <2> HIDE DEF n
    <2> QED
        BY <2>1, <2>2 DEF Worker
<1>2. UNCHANGED <<life, posted, queue, unfinished, note, stats, emitted, told, unsent>>
    BY DEF TryAgain, bookVars
<1>3. InHand' = InHand
    BY <1>1 DEF InHand
<1> QED
    BY <1>1, <1>2, <1>3 DEF NInv, Typed, Handling, Accounted, JoinIsExact, OneFate, DropsTold

LEMMA SendReturnsKeeps == ASSUME NInv, SendReturns PROVE NInv'
<1>1. /\ worker' \in Worker /\ worker'.pc = "pace" /\ worker'.drops = 0 /\ worker.pc = "send"
    BY DEF SendReturns, Resting, Worker
<1>2. /\ life # "down" /\ InHand = 1 /\ InHand' = 0
    BY <1>1 DEF NInv, Handling, InHand
<1>3. UNCHANGED <<life, posted, queue, note, emitted, unsent>> /\ unfinished' = unfinished - 1
    BY DEF SendReturns
<1>4. stats \in Stats /\ stats.sent \in Nat /\ stats.failed \in Nat /\ stats.dropped \in Nat
    BY DEF NInv, Typed, Stats
<1>5. /\ stats' \in Stats /\ stats'.dropped = stats.dropped
      /\ \/ stats'.sent = stats.sent + 1 /\ stats'.failed = stats.failed
         \/ stats'.sent = stats.sent /\ stats'.failed = stats.failed + 1
    <2>1. CASE stats' = [stats EXCEPT !.sent = @ + 1]
        BY <1>4, <2>1 DEF Stats
    <2>2. CASE stats' = [stats EXCEPT !.failed = @ + 1]
        BY <1>4, <2>2 DEF Stats
    <2> QED
        BY <2>1, <2>2 DEF SendReturns
<1>6. told' = told + worker.drops /\ told \in Nat /\ worker.drops \in Nat /\ note \in Nat
    BY DEF SendReturns, NInv, Typed, Worker
<1>7. unfinished' \in Nat
    BY <1>2, <1>3, JoinBook DEF NInv, Typed
<1>8. Typed' /\ Handling'
    BY <1>1, <1>2, <1>3, <1>5, <1>6, <1>7 DEF NInv, Typed, Handling
<1>9. JoinIsExact'
    BY <1>2, <1>3, JoinBook DEF JoinIsExact, NInv, Typed
<1>10. OneFate'
    <2>1. stats'.sent + stats'.failed = stats.sent + stats.failed + 1
        BY <1>4, <1>5
    <2>2. stats'.sent \in Nat /\ stats'.failed \in Nat /\ unsent \in Nat /\ stats'.dropped = stats.dropped
        BY <1>4, <1>5 DEF NInv, Typed
    <2>3. emitted = Len(posted) + Len(queue) + 1 + stats.sent + stats.failed + stats.dropped + unsent
        BY <1>2, FateBook
    <2>4. Len(posted) \in Nat /\ Len(queue) \in Nat
        BY <1>2, FateBook
    <2>5. emitted = Len(posted) + Len(queue) + 0 + (stats.sent + stats.failed + 1) + stats.dropped + unsent
        BY <1>4, <2>2, <2>3, <2>4
    <2>6. emitted = Len(posted) + Len(queue) + 0 + (stats'.sent + stats'.failed) + stats'.dropped + unsent
        BY <2>1, <2>2, <2>5
    <2>7. emitted = Len(posted) + Len(queue) + 0 + stats'.sent + stats'.failed + stats'.dropped + unsent
        BY <2>2, <2>4, <2>6, <1>4
    <2> QED
        BY <1>2, <1>3, <2>7 DEF OneFate
<1>11. DropsTold'
    <2>1. stats.dropped = note + told + worker.drops
        BY <1>2, DropBook
    <2> QED
        BY <1>1, <1>3, <1>5, <1>6, <2>1 DEF DropsTold
<1> QED
    BY <1>8, <1>9, <1>10, <1>11 DEF NInv, Accounted

LEMMA PacedKeeps == ASSUME NInv, Paced PROVE NInv'
<1>1. /\ worker' \in Worker /\ worker.pc = "pace" /\ worker'.pc = "get" /\ worker'.drops = worker.drops
    BY DEF Paced, NInv, Typed, Worker
<1>2. UNCHANGED <<life, posted, queue, unfinished, note, stats, emitted, told, unsent>>
    BY DEF Paced, bookVars
<1>3. InHand' = InHand
    BY <1>1 DEF InHand
<1> QED
    BY <1>1, <1>2, <1>3 DEF NInv, Typed, Handling, Accounted, JoinIsExact, OneFate, DropsTold

(* stop() cancels the worker: what it leaves unfinished is a number, and nobody counts any more. *)
LEMMA DownKeeps == ASSUME NInv, life = "flush", Down PROVE NInv'
<1>1. worker' \in Worker /\ worker'.pc = "cancelled" /\ worker'.drops = 0
    BY DEF Down, Resting, Worker
<1>2. unfinished' \in Nat
    <2>1. CASE worker.pc = "send"
        BY <2>1, JoinBook DEF Down, InHand, NInv, Typed
    <2>2. CASE worker.pc # "send"
        BY <2>2 DEF Down, NInv, Typed
    <2> QED
        BY <2>1, <2>2
<1>3. life' = "down" /\ UNCHANGED <<posted, queue, note, stats, emitted, told, unsent>>
    BY DEF Down, bookVars
<1> QED
    BY <1>1, <1>2, <1>3 DEF NInv, Typed, Handling, Accounted

LEMMA StopBeginsKeeps == ASSUME NInv, StopBegins PROVE NInv'
<1>1. life = "up" /\ life' = "flush"
      /\ UNCHANGED <<posted, queue, unfinished, worker, note, stats, emitted, told, unsent, InHand>>
    BY DEF StopBegins, bookVars, InHand
<1> QED
    BY <1>1 DEF NInv, Typed, Handling, Accounted, JoinIsExact, OneFate, DropsTold

LEMMA TickKeeps ==
    ASSUME NInv,
           UNCHANGED <<life, posted, queue, unfinished, worker, note, stats, emitted, told, unsent>>
    PROVE  NInv'
BY DEF NInv, Typed, Handling, Accounted, JoinIsExact, OneFate, DropsTold, InHand

-----------------------------------------------------------------------------
LEMMA NInvInit == NotifyInit => NInv
<1> SUFFICES ASSUME NotifyInit PROVE NInv
    OBVIOUS
<1>1. Typed /\ Handling
    BY DEF NotifyInit, Typed, Handling, Resting, Worker, Stats
<1>2. Len(<<>>) = 0 /\ InHand = 0
    BY DEF NotifyInit, Resting, InHand
<1>3. Accounted
    BY <1>2 DEF NotifyInit, Accounted, JoinIsExact, OneFate, DropsTold, Resting
<1> QED
    BY <1>1, <1>3 DEF NInv

LEMMA NInvNext == NInv /\ [NotifyNext]_notifyVars => NInv'
<1> SUFFICES ASSUME NInv, [NotifyNext]_notifyVars PROVE NInv'
    OBVIOUS
<1>1. CASE UNCHANGED notifyVars
    BY <1>1, TickKeeps DEF notifyVars, bookVars
<1>2. CASE NotifyTick
    BY <1>2, TickKeeps DEF NotifyTick, bookVars
<1>3. CASE JoinReturns \/ FlushTimeout
    BY <1>3, DownKeeps DEF JoinReturns, FlushTimeout
<1> QED
    BY <1>1, <1>2, <1>3, EmitsKeeps, EnqueueKeeps, OverCapKeeps, NoChatKeeps, DeliverKeeps, TryAgainKeeps,
       SendReturnsKeeps, PacedKeeps, StopBeginsKeeps DEF NotifyNext

(* _enqueue, _deliver and _worker: while the notifier is up, join() waits for exactly the        *)
(* messages that are there, each message has one fate, and no drop is left untold, however many  *)
(* messages arrive between any two steps of the worker.                                          *)
THEOREM BooksAreRight == NotifySpec => []Accounted
<1>1. NInv => Accounted
    BY DEF NInv
<1> QED
    BY NInvInit, NInvNext, <1>1, PTL DEF NotifySpec

-----------------------------------------------------------------------------
(* Alerts: what is said of a disk and of a day. *)
HIDE NotifierAssumption

LEMMA Bounds == Repeat \in Nat /\ Repeat >= 1 /\ MaxDays \in Nat /\ MaxDays >= 1
    BY AlertsAssumption

-----------------------------------------------------------------------------
(* The disk's warning (Alerts).  What keeps a new incident from being held back as a repeat is   *)
(* that the key is only remembered while the incident that set it has not been told to be over;  *)
(* silent never runs ahead of the age of that key.                                               *)
DiskTyped ==
    /\ seen \in [Incidents -> 0..Never]
    /\ flagged \in BOOLEAN /\ limitOn \in BOOLEAN /\ warned \in BOOLEAN
    /\ silent \in Nat

Told ==
    /\ flagged = TRUE => warned = TRUE
    /\ seen["lowdisk"] # Never => warned = TRUE

Paused == silent <= seen["lowdisk"] /\ silent <= Repeat

DInv == DiskTyped /\ Told /\ Paused

(* A round ages the key by one, up to Never; emit keeps what it holds back. *)
LEMMA AgesGrow ==
    ASSUME DiskTyped
    PROVE  /\ Older(seen) \in [Incidents -> 0..Never]
           /\ Older(seen)["lowdisk"] = IF seen["lowdisk"] < Never THEN seen["lowdisk"] + 1 ELSE Never
           /\ "lowdisk" \in Incidents
           /\ seen["lowdisk"] \in 0..Never
    BY Bounds DEF DiskTyped, Older, Incidents, Never

LEMMA DInvInit == AlertsInit => DInv
<1> SUFFICES ASSUME AlertsInit PROVE DInv
    OBVIOUS
<1>1. seen \in [Incidents -> 0..Never] /\ seen["lowdisk"] = Never /\ Never \in Nat
    BY Bounds DEF AlertsInit, Incidents, Never
<1>2. DiskTyped
    BY <1>1 DEF AlertsInit, DiskTyped
<1>3. Told
    BY <1>1 DEF AlertsInit, Told
<1>4. Paused
    BY <1>1, Bounds DEF AlertsInit, Paused, Never
<1> QED
    BY <1>2, <1>3, <1>4 DEF DInv

LEMMA DiskLowKeeps == ASSUME DInv, DiskLow PROVE DInv'
<1> DEFINE age == Older(seen)["lowdisk"]
<1>1. age \in 0..Never /\ (age < Never => age = seen["lowdisk"] + 1 /\ seen["lowdisk"] < Never)
    BY AgesGrow, Bounds DEF DInv, Never
<1>2. /\ seen' \in [Incidents -> 0..Never]
      /\ seen'["lowdisk"] = IF age < Repeat THEN age ELSE 0
    BY AgesGrow, Bounds DEF DInv, DiskLow, Emitted, Never
<1>3. /\ flagged' = TRUE /\ limitOn' = limitOn
      /\ warned' \in BOOLEAN
      /\ age >= Repeat => warned' = TRUE
      /\ warned = TRUE => warned' = TRUE
      /\ silent' = IF age >= Repeat THEN 0 ELSE silent + 1
    BY DEF DiskLow
<1> HIDE DEF age
<1>4. Told'
  <2>1. CASE age < Repeat
    <3>1. seen["lowdisk"] # Never
        BY <2>1, <1>1, Bounds DEF Never
    <3> QED
        BY <3>1, <1>3 DEF DInv, Told
  <2>2. CASE age >= Repeat
      BY <2>2, <1>3 DEF Told
  <2>3. age < Repeat \/ age >= Repeat
      BY <1>1, Bounds DEF Never
  <2> QED
      BY <2>1, <2>2, <2>3
<1>5. Paused' /\ silent' \in Nat
  <2>1. silent \in Nat /\ silent <= seen["lowdisk"] /\ seen["lowdisk"] \in Nat
      BY AgesGrow, Bounds DEF DInv, DiskTyped, Paused, Never
  <2>2. CASE age < Repeat
    <3>1. age = seen["lowdisk"] + 1 /\ seen'["lowdisk"] = age /\ silent' = silent + 1
        BY <2>2, <1>1, <1>2, <1>3, Bounds DEF Never
    <3>2. age \in Nat /\ silent + 1 <= age /\ silent + 1 \in Nat
        BY <3>1, <2>1, <1>1, Bounds DEF Never
    <3>3. silent' <= seen'["lowdisk"] /\ silent' \in Nat
        BY <3>1, <3>2
    <3>4. silent' <= Repeat
        BY <3>1, <3>2, <2>2, Bounds
    <3> QED
        BY <3>3, <3>4 DEF Paused
  <2>3. CASE age >= Repeat
    <3>1. seen'["lowdisk"] = 0 /\ silent' = 0
        BY <2>3, <1>1, <1>2, <1>3, Bounds DEF Never
    <3> QED
        BY <3>1, Bounds DEF Paused
  <2>4. age < Repeat \/ age >= Repeat
      BY <1>1, Bounds DEF Never
  <2> QED
      BY <2>2, <2>3, <2>4
<1>6. DiskTyped'
    BY <1>2, <1>3, <1>5 DEF DInv, DiskTyped
<1> QED
    BY <1>4, <1>5, <1>6 DEF DInv

(* The disk is told to be OK, or the server starts again: everything is forgotten. *)
LEMMA Forgotten ==
    ASSUME DInv, seen' \in [Incidents -> 0..Never], seen'["lowdisk"] = Never,
           flagged' = FALSE, warned' = FALSE, silent' = 0, limitOn' = limitOn
    PROVE  DInv'
<1>1. DiskTyped'
    BY DEF DInv, DiskTyped
<1>2. Told'
    BY DEF Told
<1>3. Paused'
    BY Bounds DEF Paused, Never
<1> QED
    BY <1>1, <1>2, <1>3 DEF DInv

LEMMA DInvNext == DInv /\ [AlertsNext]_alertVars => DInv'
<1> SUFFICES ASSUME DInv, [AlertsNext]_alertVars PROVE DInv'
    OBVIOUS
<1> USE DEF diskVars, streakVars, reportVars
<1>1. CASE DiskLow
    BY <1>1, DiskLowKeeps
<1>2. CASE DiskRecovered
  <2>1. seen' \in [Incidents -> 0..Never] /\ seen'["lowdisk"] = Never
      BY <1>2, AgesGrow, Bounds DEF DInv, DiskRecovered, Never
  <2> QED
      BY <1>2, <2>1, Forgotten DEF DiskRecovered
<1>3. CASE DiskBetween
  <2>1. /\ seen' \in [Incidents -> 0..Never]
        /\ seen'["lowdisk"] # Never => seen["lowdisk"] # Never
        /\ seen["lowdisk"] <= seen'["lowdisk"] /\ seen["lowdisk"] \in Nat /\ seen'["lowdisk"] \in Nat
      BY <1>3, AgesGrow, Bounds DEF DInv, DiskBetween, Never
  <2>2. flagged' = flagged /\ limitOn' = limitOn /\ warned' = warned /\ silent' = silent
      BY <1>3 DEF DiskBetween
  <2>3. DiskTyped'
      BY <2>1, <2>2 DEF DInv, DiskTyped
  <2>4. Told'
      BY <2>1, <2>2 DEF DInv, Told
  <2>5. Paused'
      BY <2>1, <2>2 DEF DInv, DiskTyped, Paused
  <2> QED
      BY <2>3, <2>4, <2>5 DEF DInv
<1>4. CASE DiskQuiet
  <2>1. /\ seen' \in [Incidents -> 0..Never]
        /\ seen'["lowdisk"] # Never => seen["lowdisk"] # Never
        /\ seen'["lowdisk"] \in Nat
      BY <1>4, AgesGrow, Bounds DEF DInv, DiskQuiet, Never
  <2>2. flagged' = FALSE /\ limitOn' = limitOn /\ warned' = warned /\ silent' = 0
      BY <1>4 DEF DiskQuiet
  <2>3. DiskTyped'
      BY <2>1, <2>2 DEF DInv, DiskTyped
  <2>4. Told'
      BY <2>1, <2>2 DEF DInv, Told
  <2>5. Paused'
      BY <2>1, <2>2, Bounds DEF Paused
  <2> QED
      BY <2>3, <2>4, <2>5 DEF DInv
<1>5. CASE Configure
  <2>1. limitOn' \in BOOLEAN /\ UNCHANGED <<seen, flagged, warned, silent>>
      BY <1>5 DEF Configure
  <2> QED
      BY <2>1 DEF DInv, DiskTyped, Told, Paused
<1>6. CASE RunFails
  <2>1. seen' \in [Incidents -> 0..Never] /\ seen'["lowdisk"] = seen["lowdisk"]
      BY <1>6, Bounds DEF DInv, DiskTyped, RunFails, Emitted, Incidents, Never
  <2>2. UNCHANGED <<flagged, limitOn, warned, silent>>
      BY <1>6 DEF RunFails
  <2> QED
      BY <2>1, <2>2 DEF DInv, DiskTyped, Told, Paused
<1>7. CASE RunAnswers
    BY <1>7 DEF DInv, DiskTyped, Told, Paused, RunAnswers
<1>8. CASE TimePasses \/ ReportBegins \/ ReportAccepted \/ ReportRefused
  <2>1. UNCHANGED <<seen, flagged, limitOn, warned, silent>>
      BY <1>8 DEF TimePasses, ReportBegins, ReportAccepted, ReportRefused
  <2> QED
      BY <2>1 DEF DInv, DiskTyped, Told, Paused
<1>9. CASE Reload
  <2>1. seen' \in [Incidents -> 0..Never] /\ seen'["lowdisk"] = Never
      BY <1>9, Bounds DEF Reload, Incidents, Never
  <2> QED
      BY <1>9, <2>1, Forgotten DEF Reload
<1>10. CASE UNCHANGED alertVars
    BY <1>10 DEF DInv, DiskTyped, Told, Paused, alertVars
<1> QED
    BY <1>1, <1>2, <1>3, <1>4, <1>5, <1>6, <1>7, <1>8, <1>9, <1>10 DEF AlertsNext

LEMMA DiskIsTold == AlertsSpec => []DInv
<1> QED
    BY DInvInit, DInvNext, PTL DEF AlertsSpec

(* watch_disk: a disk that is low, and has not been told to be OK since, has been warned of;     *)
(* whatever the admin does with the limit meanwhile.                                             *)
THEOREM LowDiskIsTold == AlertsSpec => []NewIncidentWarned
<1>1. DInv => NewIncidentWarned
    BY Zenon DEF DInv, DiskTyped, Told, NewIncidentWarned
<1> QED
    BY <1>1, DiskIsTold, PTL

(* README.md, "repeated every 6 hours while it stays low": emit's memory of the key never makes  *)
(* the pause longer than that.                                                                   *)
THEOREM WarningsRepeat == AlertsSpec => []WarningRepeats
<1>1. DInv => WarningRepeats
    BY DEF DInv, Paused, WarningRepeats
<1> QED
    BY <1>1, DiskIsTold, PTL

-----------------------------------------------------------------------------
(* The daily report.  A report that is sent is of a later day than the last one remembered; a    *)
(* day up to that one has been taken once more than the process restarted at most, a later day   *)
(* only as often as it restarted.                                                                *)
ReportTyped ==
    /\ clock \in [day : 1..MaxDays, due : BOOLEAN]
    /\ report \in 0..MaxDays
    /\ lastSent \in [memory : 0..MaxDays, file : 0..MaxDays]
    /\ reloads \in Nat
    /\ accepted \in [1..MaxDays -> Nat]

InOrder ==
    /\ lastSent.file <= lastSent.memory /\ lastSent.memory <= clock.day
    /\ report # 0 => lastSent.memory < report /\ report <= clock.day

Counted ==
    \A d \in 1..MaxDays :
        /\ accepted[d] <= 1 + reloads
        /\ d > lastSent.memory => accepted[d] <= reloads

RInv == ReportTyped /\ InOrder /\ Counted

LEMMA RInvInit == AlertsInit => RInv
    BY Bounds DEF AlertsInit, RInv, ReportTyped, InOrder, Counted

LEMMA AcceptedKeeps == ASSUME RInv, ReportAccepted PROVE RInv'
<1>1. /\ report # 0 /\ report' = 0 /\ clock' = clock /\ reloads' = reloads
      /\ accepted' = [accepted EXCEPT ![report] = @ + 1]
      /\ lastSent'.memory = report
      /\ lastSent'.file \in {report, lastSent.file}
      /\ lastSent' \in [memory : 0..MaxDays, file : 0..MaxDays]
    BY DEF ReportAccepted, MarkReportSent, RInv, ReportTyped
<1>2. report \in 1..MaxDays /\ lastSent.memory < report /\ report <= clock.day
    BY <1>1 DEF RInv, ReportTyped, InOrder
<1>3. ReportTyped'
    BY <1>1, <1>2, Bounds DEF RInv, ReportTyped
<1>4. InOrder'
    BY <1>1, <1>2, Bounds DEF RInv, ReportTyped, InOrder
<1>5. ASSUME NEW d \in 1..MaxDays
      PROVE  accepted'[d] <= 1 + reloads' /\ (d > lastSent'.memory => accepted'[d] <= reloads')
  <2>1. CASE d = report
      BY <2>1, <1>1, <1>2, Bounds DEF RInv, ReportTyped, Counted
  <2>2. CASE d # report
      BY <2>2, <1>1, <1>2, Bounds DEF RInv, ReportTyped, Counted
  <2> QED
      BY <2>1, <2>2
<1> QED
    BY <1>3, <1>4, <1>5 DEF RInv, Counted

LEMMA ReloadKeeps == ASSUME RInv, Reload PROVE RInv'
<1>1. /\ report' = 0 /\ clock' = clock /\ reloads' = reloads + 1
      /\ lastSent' = [lastSent EXCEPT !.memory = lastSent.file]
      /\ \/ accepted' = accepted
         \/ report # 0 /\ accepted' = [accepted EXCEPT ![report] = @ + 1]
    BY DEF Reload
<1>2. lastSent'.memory = lastSent.file /\ lastSent'.file = lastSent.file
      /\ lastSent' \in [memory : 0..MaxDays, file : 0..MaxDays]
    BY <1>1 DEF RInv, ReportTyped
<1>3. ReportTyped'
  <2>1. accepted' \in [1..MaxDays -> Nat]
      BY <1>1 DEF RInv, ReportTyped
  <2>2. reloads' \in Nat /\ report' \in 0..MaxDays
      BY <1>1, Bounds DEF RInv, ReportTyped
  <2>3. clock' \in [day : 1..MaxDays, due : BOOLEAN]
      BY <1>1 DEF RInv, ReportTyped
  <2> QED
      BY <1>2, <2>1, <2>2, <2>3 DEF ReportTyped
<1>4. InOrder'
    BY <1>1, <1>2, Bounds DEF RInv, ReportTyped, InOrder
<1>5. ASSUME NEW d \in 1..MaxDays
      PROVE  accepted'[d] <= reloads'
  <2>1. /\ accepted[d] \in Nat /\ accepted[d] <= 1 + reloads /\ reloads \in Nat
        /\ d > lastSent.memory => accepted[d] <= reloads
      BY DEF RInv, ReportTyped, Counted
  <2>2. CASE accepted' = accepted
      BY <2>1, <2>2, <1>1
  <2>3. CASE report # 0 /\ accepted' = [accepted EXCEPT ![report] = accepted[report] + 1]
    <3>1. lastSent.memory < report
        BY <2>3 DEF RInv, InOrder
    <3>2. accepted'[d] = IF d = report THEN accepted[d] + 1 ELSE accepted[d]
        BY <2>3 DEF RInv, ReportTyped
    <3> QED
        BY <3>1, <3>2, <2>1, <1>1
  <2> QED
      BY <2>2, <2>3, <1>1
<1>6. Counted'
  <2>1. SUFFICES ASSUME NEW d \in 1..MaxDays
                 PROVE  accepted'[d] <= 1 + reloads' /\ (d > lastSent'.memory => accepted'[d] <= reloads')
      BY DEF Counted
  <2>2. accepted'[d] \in Nat /\ reloads' \in Nat
      BY <1>3 DEF ReportTyped
  <2> QED
      BY <1>5, <2>2
<1> QED
    BY <1>3, <1>4, <1>6 DEF RInv

LEMMA RInvNext == RInv /\ [AlertsNext]_alertVars => RInv'
<1> SUFFICES ASSUME RInv, [AlertsNext]_alertVars PROVE RInv'
    OBVIOUS
<1> USE DEF diskVars, streakVars, reportVars
<1>1. CASE DiskLow \/ DiskRecovered \/ DiskBetween \/ DiskQuiet \/ RunFails \/ RunAnswers
    BY <1>1 DEF RInv, ReportTyped, InOrder, Counted,
                DiskLow, DiskRecovered, DiskBetween, DiskQuiet, RunFails, RunAnswers
<1>2. CASE Configure
    BY <1>2, Bounds DEF RInv, ReportTyped, InOrder, Counted, Configure
<1>3. CASE TimePasses
  <2>1. /\ clock' \in [day : 1..MaxDays, due : BOOLEAN]
        /\ clock.day <= clock'.day /\ clock.day \in Nat /\ clock'.day \in Nat
    <3>1. clock \in [day : 1..MaxDays, due : BOOLEAN]
        BY DEF RInv, ReportTyped
    <3>2. CASE clock' = [clock EXCEPT !.due = TRUE]
      <4>1. clock'.day = clock.day /\ clock' \in [day : 1..MaxDays, due : BOOLEAN]
          BY <3>1, <3>2
      <4> QED
          BY <3>1, <4>1, Bounds
    <3>3. CASE clock.day < MaxDays /\ clock' = [day |-> clock.day + 1, due |-> FALSE]
        BY <3>1, <3>3, Bounds
    <3> QED
        BY <1>3, <3>2, <3>3 DEF TimePasses
  <2>2. UNCHANGED <<report, lastSent, reloads, accepted>>
      BY <1>3 DEF TimePasses
  <2>3. ReportTyped'
      BY <2>1, <2>2 DEF RInv, ReportTyped
  <2>4. InOrder'
      BY <2>1, <2>2, Bounds DEF RInv, ReportTyped, InOrder
  <2> QED
      BY <2>2, <2>3, <2>4 DEF RInv, Counted
<1>4. CASE ReportBegins
    BY <1>4, Bounds DEF RInv, ReportTyped, InOrder, Counted, ReportBegins
<1>5. CASE ReportAccepted
    BY <1>5, AcceptedKeeps
<1>6. CASE ReportRefused
  <2>1. report' = 0 /\ UNCHANGED <<clock, lastSent, reloads, accepted>>
      BY <1>6 DEF ReportRefused
  <2>2. ReportTyped'
      BY <2>1, Bounds DEF RInv, ReportTyped
  <2>3. InOrder'
      BY <2>1 DEF RInv, InOrder
  <2> QED
      BY <2>1, <2>2, <2>3 DEF RInv, Counted
<1>7. CASE Reload
    BY <1>7, ReloadKeeps
<1>8. CASE UNCHANGED alertVars
    BY <1>8 DEF RInv, ReportTyped, InOrder, Counted, alertVars
<1> QED
    BY <1>1, <1>2, <1>3, <1>4, <1>5, <1>6, <1>7, <1>8 DEF AlertsNext

(* reportjob and mark_report_sent: a day's report is taken once, and once more at most for each  *)
(* restart, whatever fails to be written and however late the answers come.                      *)
THEOREM ReportsAreCounted == AlertsSpec => []OneReportPerDay
<1>1. RInv => OneReportPerDay
    BY DEF RInv, Counted, OneReportPerDay
<1> QED
    BY <1>1, RInvInit, RInvNext, PTL DEF AlertsSpec
=============================================================================
