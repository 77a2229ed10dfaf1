-------------------------- MODULE LiveRelayProofs ---------------------------
(***************************************************************************)
(* Theorems about the live relay, for any number of streams, sessions and  *)
(* requests: the types, the registry's invariant, the streams that are     *)
(* marked dead, and who is evicted.                                        *)
(***************************************************************************)
EXTENDS LiveRelay, FiniteSetTheorems, TLAPS

Session == [stream : Streams \cup {None}, left : Nat, idle : 0..Window, dead : BOOLEAN]

(* A request that is past its first read knows a real stream or a real session. *)
RequestsOK ==
    \A r \in Requests :
        /\ req[r].pc = "start" => req[r].stream \in Streams
        /\ req[r].pc \in {"fetch", "mark"} => req[r].sid \in Ids /\ sess[req[r].sid].stream \in Streams

(* The inductive invariant. *)
IInv == TypeOK /\ RegistryOK /\ RequestsOK

USE RelayAssumption

-----------------------------------------------------------------------------
(* Objects that are still referred to keep what they were given. *)
LEMMA AliveFacts ==
    ASSUME NEW f \in [Ids -> Session], sess' = Alive(f)
    PROVE  /\ sess' \in [Ids -> Session]
           /\ \A i \in Ids : i \in live' \/ i \in Held' => sess'[i] = f[i]
<1>1. NoSession \in Session
    BY DEF NoSession, Session
<1> QED
    BY <1>1 DEF Alive

(* Who a request holds is held. *)
LEMMA HeldFacts == \A r \in Requests : req'[r].sid \in Held'
    BY DEF Held

(* Dropping sessions leaves a good registry. *)
LEMMA DropKeepsRegistry ==
    ASSUME IInv, NEW S, Drop(S), life' = life,
           \A i \in live' : sess'[i] = sess[i]
    PROVE  RegistryOK' /\ live' \in SUBSET Ids /\ byStream' \in [Streams -> Ids \cup {None}]
<1>1. live' \in SUBSET Ids /\ byStream' \in [Streams -> Ids \cup {None}]
    BY DEF IInv, TypeOK, Drop
<1>2. OneSessionPerStream'
    <2>1. ASSUME NEW i \in live'
          PROVE  sess'[i].stream \in Streams /\ byStream'[sess'[i].stream] = i
        BY <2>1 DEF IInv, TypeOK, RegistryOK, OneSessionPerStream, Drop
    <2>2. ASSUME NEW s \in Streams, byStream'[s] # None
          PROVE  byStream'[s] \in live' /\ sess'[byStream'[s]].stream = s
        <3>1. byStream'[s] = byStream[s] /\ byStream[s] \notin S
            BY <2>2 DEF Drop
        <3>2. byStream[s] \in live /\ sess[byStream[s]].stream = s
            BY <2>2, <3>1 DEF IInv, RegistryOK, OneSessionPerStream
        <3> QED
            BY <3>1, <3>2 DEF Drop
    <2> QED
        BY <2>1, <2>2 DEF OneSessionPerStream
<1>3. Bounded'
    <2>1. IsFiniteSet(live) /\ live' \subseteq live
        BY FS_Subset DEF IInv, TypeOK, Drop
    <2>2. Cardinality(live') <= Cardinality(live) /\ Cardinality(live') \in Nat /\ Cardinality(live) \in Nat
        BY <2>1, FS_Subset, FS_CardinalityType
    <2> QED
        BY <2>2 DEF IInv, RegistryOK, Bounded
<1>4. WithinLife'
    BY DEF IInv, RegistryOK, WithinLife, Drop
<1> QED
    BY <1>1, <1>2, <1>3, <1>4 DEF RegistryOK

(* Nor does a change of `idle` or `dead` touch it. *)
LEMMA SameRegistry ==
    ASSUME IInv, live' = live, byStream' = byStream, life' = life,
           \A i \in live : sess'[i].stream = sess[i].stream /\ sess'[i].left = sess[i].left
    PROVE  RegistryOK'
<1>1. OneSessionPerStream'
    BY DEF IInv, RegistryOK, OneSessionPerStream
<1>2. Bounded'
    BY DEF IInv, RegistryOK, Bounded
<1>3. WithinLife'
    BY DEF IInv, RegistryOK, WithinLife, OneSessionPerStream
<1> QED
    BY <1>1, <1>2, <1>3 DEF RegistryOK

(* Ttl stays below what the source allows. *)
LEMMA TtlFacts ==
    ASSUME IInv, NEW s \in Streams
    PROVE  Ttl(s) \in Nat /\ (Life[s] > 0 /\ Ttl(s) > 0 => Ttl(s) < life[s])
    BY DEF IInv, TypeOK, Ttl

-----------------------------------------------------------------------------
LEMMA InitEstablishes == Init => IInv
<1> SUFFICES ASSUME Init PROVE IInv
    OBVIOUS
<1>1. TypeOK
    BY DEF Init, TypeOK, NoSession, Away
<1>2. RegistryOK
    <2>1. Cardinality({}) = 0
        BY FS_EmptySet
    <2> QED
        BY <2>1 DEF Init, RegistryOK, OneSessionPerStream, Bounded, WithinLife
<1>3. RequestsOK
    BY DEF Init, RequestsOK, Away
<1> QED
    BY <1>1, <1>2, <1>3 DEF IInv

(* The requests that wait stay good when one of them goes on, as their sessions keep their stream. *)
LEMMA OthersOK ==
    ASSUME IInv, NEW r \in Requests, NEW q \in [pc : {"away", "start", "fetch", "mark"},
                                                stream : Streams \cup {None}, sid : Ids \cup {None}],
           req' = [req EXCEPT ![r] = q],
           q.pc = "start" => q.stream \in Streams,
           q.pc \in {"fetch", "mark"} => q.sid \in Ids /\ sess'[q.sid].stream \in Streams,
           \A k \in Requests : k # r /\ req[k].pc \in {"fetch", "mark"}
                => sess'[req[k].sid].stream = sess[req[k].sid].stream
    PROVE  RequestsOK' /\ req' \in [Requests -> [pc : {"away", "start", "fetch", "mark"},
                                                stream : Streams \cup {None}, sid : Ids \cup {None}]]
<1>1. req \in [Requests -> [pc : {"away", "start", "fetch", "mark"},
                           stream : Streams \cup {None}, sid : Ids \cup {None}]]
    BY DEF IInv, TypeOK
<1>2. \A k \in Requests : req'[k] = IF k = r THEN q ELSE req[k]
    BY <1>1
<1> QED
    BY <1>1, <1>2 DEF IInv, RequestsOK

(* A request that holds no session hands its place back. *)
LEMMA StartLeaves ==
    ASSUME IInv, NEW r \in Requests, Starting(r), NEW f \in [Ids -> Session], sess' = Alive(f),
           \A i \in Held : i \in Ids => f[i].stream = sess[i].stream
    PROVE  RequestsOK' /\ req' \in [Requests -> [pc : {"away", "start", "fetch", "mark"},
                                                stream : Streams \cup {None}, sid : Ids \cup {None}]]
<1>1. Away \in [pc : {"away", "start", "fetch", "mark"}, stream : Streams \cup {None}, sid : Ids \cup {None}]
      /\ Away.pc = "away"
    BY DEF Away
<1>2. ASSUME NEW k \in Requests, k # r, req[k].pc \in {"fetch", "mark"}
      PROVE  sess'[req[k].sid].stream = sess[req[k].sid].stream
    <2>1. req'[k] = req[k] /\ req[k].sid \in Ids
        BY <1>2 DEF Starting, IInv, TypeOK, RequestsOK
    <2>2. req[k].sid \in Held' /\ req[k].sid \in Held
        BY <2>1, HeldFacts DEF Held
    <2>3. sess'[req[k].sid] = f[req[k].sid]
        BY <2>1, <2>2, AliveFacts
    <2> QED
        BY <2>1, <2>2, <2>3
<1> QED
    BY <1>1, <1>2, OthersOK DEF Starting

-----------------------------------------------------------------------------
LEMMA StartReadsKeeps ==
    ASSUME IInv, NEW r \in Requests, NEW s \in Streams, StartReads(r, s)
    PROVE  IInv'
<1>1. RegistryOK'
    BY SameRegistry DEF StartReads
<1>2. RequestsOK' /\ req' \in [Requests -> [pc : {"away", "start", "fetch", "mark"},
                                           stream : Streams \cup {None}, sid : Ids \cup {None}]]
    <2> DEFINE q == [Away EXCEPT !.pc = "start", !.stream = s]
    <2>1. q \in [pc : {"away", "start", "fetch", "mark"}, stream : Streams \cup {None}, sid : Ids \cup {None}]
          /\ q.pc = "start" /\ q.stream = s
        BY DEF Away
    <2> HIDE DEF q
    <2> QED
        BY <2>1, OthersOK DEF StartReads, q
<1>3. TypeOK'
    BY <1>2 DEF StartReads, IInv, TypeOK
<1> QED
    BY <1>1, <1>2, <1>3 DEF IInv

LEMMA StartDropsKeeps ==
    ASSUME IInv, NEW r \in Requests, StartRefused(r) \/ StartFull(r)
    PROVE  IInv'
<1>1. CASE StartRefused(r)
    <2>1. RegistryOK'
        BY <1>1, SameRegistry DEF StartRefused, Starting
    <2>2. Away \in [pc : {"away", "start", "fetch", "mark"}, stream : Streams \cup {None}, sid : Ids \cup {None}]
          /\ Away.pc = "away"
        BY DEF Away
    <2>3. RequestsOK' /\ req' \in [Requests -> [pc : {"away", "start", "fetch", "mark"},
                                               stream : Streams \cup {None}, sid : Ids \cup {None}]]
        BY <1>1, <2>2, OthersOK DEF StartRefused, Starting
    <2>4. TypeOK'
        BY <1>1, <2>3 DEF StartRefused, Starting, IInv, TypeOK
    <2> QED
        BY <2>1, <2>3, <2>4 DEF IInv
<1>2. CASE StartFull(r)
    <2>1. PICK S : Drop(S)
        BY <1>2 DEF StartFull
    <2>2. Starting(r) /\ sess' = Alive(sess) /\ sess \in [Ids -> Session]
        BY <1>2 DEF StartFull, IInv, TypeOK, Session
    <2>3. sess' \in [Ids -> Session] /\ \A i \in Ids : i \in live' => sess'[i] = sess[i]
        BY <2>2, AliveFacts
    <2>4. live' \subseteq Ids
        BY <2>1 DEF Drop, IInv, TypeOK
    <2>5. RegistryOK' /\ live' \in SUBSET Ids /\ byStream' \in [Streams -> Ids \cup {None}]
        BY <2>1, <2>2, <2>3, <2>4, DropKeepsRegistry DEF Starting
    <2>6. RequestsOK' /\ req' \in [Requests -> [pc : {"away", "start", "fetch", "mark"},
                                               stream : Streams \cup {None}, sid : Ids \cup {None}]]
        BY <2>2, StartLeaves
    <2>7. TypeOK'
        BY <2>2, <2>3, <2>5, <2>6 DEF Starting, IInv, TypeOK, Session
    <2> QED
        BY <2>5, <2>6, <2>7 DEF IInv
<1> QED
    BY <1>1, <1>2

LEMMA StartReusesKeeps ==
    ASSUME IInv, NEW r \in Requests, StartReuses(r)
    PROVE  IInv'
<1> DEFINE s == req[r].stream
           i == byStream[s]
           top == IF sess[i].left > Ttl(s) THEN sess[i].left ELSE Ttl(s)
           f == [sess EXCEPT ![i] = Renewed(@, Ttl(s))]
<1>1. s \in Streams /\ Starting(r)
    BY DEF StartReuses, Starting, IInv, RequestsOK
<1>2. i \in live /\ i \in Ids /\ i \notin Expired /\ Drop(Expired) /\ sess' = Alive(f)
    BY DEF StartReuses, IInv, TypeOK
<1>3. sess \in [Ids -> Session] /\ Ttl(s) \in Nat /\ (Life[s] > 0 /\ Ttl(s) > 0 => Ttl(s) < life[s])
    BY <1>1, TtlFacts DEF IInv, TypeOK, Session
<1>4. /\ f \in [Ids -> Session]
      /\ \A k \in Ids : f[k].stream = sess[k].stream
      /\ \A k \in Ids : k # i => f[k] = sess[k]
      /\ f[i].left = top
    <2>1. sess[i] \in Session
        BY <1>2, <1>3
    <2>3. sess[i].left \in Nat /\ Ttl(s) \in Nat
        BY <2>1, <1>3 DEF Session
    <2>4. 0 \in 0..Window
        OBVIOUS
    <2>2. /\ Renewed(sess[i], Ttl(s)) \in Session
          /\ Renewed(sess[i], Ttl(s)).stream = sess[i].stream
          /\ Renewed(sess[i], Ttl(s)).left = top
        BY <2>1, <2>3, <2>4 DEF Session, Renewed
    <2> QED
        BY <1>2, <1>3, <2>2
<1> HIDE DEF f
<1>5. live' \subseteq live /\ live \subseteq Ids /\ i \in live' /\ life' = life
    BY <1>1, <1>2 DEF Drop, Starting, IInv, TypeOK
<1>6. sess' \in [Ids -> Session] /\ \A k \in live' : sess'[k] = f[k]
    BY <1>2, <1>4, <1>5, AliveFacts
<1>7. OneSessionPerStream'
    <2>1. ASSUME NEW k \in live'
          PROVE  sess'[k].stream \in Streams /\ byStream'[sess'[k].stream] = k
        BY <1>2, <1>4, <1>5, <1>6 DEF IInv, TypeOK, RegistryOK, OneSessionPerStream, Drop
    <2>2. ASSUME NEW t \in Streams, byStream'[t] # None
          PROVE  byStream'[t] \in live' /\ sess'[byStream'[t]].stream = t
        <3>1. byStream'[t] = byStream[t] /\ byStream[t] \notin Expired
            BY <2>2, <1>2 DEF Drop
        <3>2. byStream[t] \in live /\ sess[byStream[t]].stream = t
            BY <2>2, <3>1 DEF IInv, RegistryOK, OneSessionPerStream
        <3> QED
            BY <1>2, <1>4, <1>5, <1>6, <3>1, <3>2 DEF Drop
    <2> QED
        BY <2>1, <2>2 DEF OneSessionPerStream
<1>8. Bounded'
    <2>1. IsFiniteSet(live)
        BY <1>5, FS_Subset
    <2>2. Cardinality(live') <= Cardinality(live) /\ Cardinality(live') \in Nat /\ Cardinality(live) \in Nat
        BY <2>1, <1>5, FS_Subset, FS_CardinalityType
    <2> QED
        BY <2>2 DEF IInv, RegistryOK, Bounded
<1>9. WithinLife'
    <2>1. sess[i].stream = s /\ sess[i].left \in Nat
        BY <1>1, <1>2, <1>3 DEF IInv, RegistryOK, OneSessionPerStream, Session
    <2>2. ASSUME NEW k \in live', sess'[k].left > 0, Life[sess'[k].stream] > 0
          PROVE  sess'[k].left < life'[sess'[k].stream]
        <3>1. CASE k = i
            <4>1. sess'[i].left = top /\ sess'[i].stream = s
                BY <1>4, <1>5, <1>6, <2>1, <1>2
            <4>2. CASE sess[i].left > Ttl(s)
                <5>1. sess[i].left < life[s]
                    BY <1>2, <2>1, <2>2, <3>1, <4>1, <4>2, <1>3 DEF IInv, RegistryOK, WithinLife
                <5> QED
                    BY <3>1, <4>1, <4>2, <5>1, <1>5
            <4>3. CASE ~(sess[i].left > Ttl(s))
                BY <3>1, <4>1, <4>3, <2>2, <1>3, <1>5
            <4> QED
                BY <4>2, <4>3
        <3>2. CASE k # i
            BY <3>2, <2>2, <1>4, <1>5, <1>6 DEF IInv, RegistryOK, WithinLife
        <3> QED
            BY <3>1, <3>2
    <2> QED
        BY <2>2 DEF WithinLife
<1>10. RequestsOK' /\ req' \in [Requests -> [pc : {"away", "start", "fetch", "mark"},
                                            stream : Streams \cup {None}, sid : Ids \cup {None}]]
    BY <1>1, <1>2, <1>4, StartLeaves
<1>11. TypeOK'
    BY <1>1, <1>2, <1>5, <1>6, <1>10 DEF Starting, IInv, TypeOK, Session, Drop
<1> QED
    BY <1>7, <1>8, <1>9, <1>10, <1>11 DEF IInv, RegistryOK

(* The only way into the registry: there is room for one more, and the stream had no session left. *)
LEMMA StartCreatesKeeps ==
    ASSUME IInv, NEW r \in Requests, StartCreates(r)
    PROVE  IInv'
<1> DEFINE s == req[r].stream
           others == live \ Worn(s)
<1>1. s \in Streams /\ Starting(r) /\ Ttl(s) > 0 /\ byStream[s] \notin others
    BY DEF StartCreates, Starting, IInv, RequestsOK
<1>2. PICK i \in Ids \ (live \cup Held) :
        /\ \E out \in IF Cardinality(others) >= MaxSessions
                      THEN {{e} : e \in LeastRecent(others)} ELSE {{}} :
             /\ live' = (others \ out) \cup {i}
             /\ byStream' = [t \in Streams |-> IF t = s THEN i
                                               ELSE IF byStream[t] \in others \ out THEN byStream[t]
                                               ELSE None]
        /\ sess' = Alive([sess EXCEPT ![i] = [stream |-> s, left |-> Ttl(s), idle |-> 0, dead |-> FALSE]])
    BY DEF StartCreates
<1> DEFINE new == [stream |-> s, left |-> Ttl(s), idle |-> 0, dead |-> FALSE]
           f == [sess EXCEPT ![i] = new]
<1>3. PICK out \in IF Cardinality(others) >= MaxSessions
                   THEN {{e} : e \in LeastRecent(others)} ELSE {{}} :
        /\ live' = (others \ out) \cup {i}
        /\ byStream' = [t \in Streams |-> IF t = s THEN i
                                          ELSE IF byStream[t] \in others \ out THEN byStream[t]
                                          ELSE None]
    BY <1>2
<1>4. /\ sess \in [Ids -> Session] /\ live \subseteq Ids /\ byStream \in [Streams -> Ids \cup {None}]
      /\ Ttl(s) \in Nat /\ (Life[s] > 0 => Ttl(s) < life[s])
      /\ life' = life
    BY <1>1, TtlFacts DEF IInv, TypeOK, Session, Starting
<1>5. new \in Session
    <2>1. 0 \in 0..Window
        OBVIOUS
    <2> QED
        BY <1>1, <1>4, <2>1 DEF Session
<1>6. /\ f \in [Ids -> Session] /\ f[i] = new
      /\ \A k \in Ids : k # i => f[k] = sess[k]
    <2> HIDE DEF new
    <2> QED
        BY <1>2, <1>4, <1>5
<1>7. sess' = Alive(f) /\ i \in Ids /\ i \notin live /\ i \notin Held
    BY <1>2
<1>8. others \subseteq live /\ live' \subseteq Ids
    BY <1>3, <1>4, <1>7
<1>9. new.stream = s /\ new.left = Ttl(s)
    OBVIOUS
<1> HIDE DEF f, new
<1>10. sess' \in [Ids -> Session] /\ \A k \in live' : sess'[k] = f[k]
    BY <1>6, <1>7, <1>8, AliveFacts
<1>11. sess'[i] = new /\ i \in live' /\ \A k \in others \ out : k # i /\ sess'[k] = sess[k] /\ k \in live /\ k \in Ids
    BY <1>3, <1>4, <1>6, <1>7, <1>8, <1>10
<1> HIDE DEF others
<1>12. OneSessionPerStream'
    <2>1. \A k \in others \ out : sess[k].stream \in Streams /\ byStream[sess[k].stream] = k
        BY <1>11 DEF IInv, RegistryOK, OneSessionPerStream
    <2>2. ASSUME NEW k \in live'
          PROVE  sess'[k].stream \in Streams /\ byStream'[sess'[k].stream] = k
        <3>1. CASE k = i
            BY <3>1, <1>1, <1>3, <1>9, <1>11
        <3>2. CASE k \in others \ out
            BY <3>2, <2>1, <1>1, <1>3, <1>11
        <3> QED
            BY <3>1, <3>2, <1>3
    <2>3. ASSUME NEW t \in Streams, byStream'[t] # None
          PROVE  byStream'[t] \in live' /\ sess'[byStream'[t]].stream = t
        <3>1. CASE t = s
            BY <3>1, <1>3, <1>9, <1>11
        <3>2. CASE t # s
            <4>1. byStream'[t] = byStream[t] /\ byStream[t] \in others \ out
                BY <2>3, <3>2, <1>3
            <4>2. sess[byStream[t]].stream = t
                BY <2>3, <4>1 DEF IInv, RegistryOK, OneSessionPerStream
            <4> QED
                BY <4>1, <4>2, <1>3, <1>11
        <3> QED
            BY <3>1, <3>2
    <2> QED
        BY <2>2, <2>3 DEF OneSessionPerStream
<1>13. Bounded'
    <2>1. IsFiniteSet(live) /\ Cardinality(live) \in Nat /\ Cardinality(live) <= MaxSessions
        BY <1>4, FS_Subset, FS_CardinalityType DEF IInv, RegistryOK, Bounded
    <2>2. IsFiniteSet(others) /\ Cardinality(others) \in Nat /\ Cardinality(others) <= Cardinality(live)
        BY <1>8, <2>1, FS_Subset, FS_CardinalityType
    <2>3. IsFiniteSet(others \ out) /\ Cardinality(others \ out) \in Nat /\ Cardinality(others \ out) < MaxSessions
        <3>1. CASE Cardinality(others) >= MaxSessions
            <4>1. PICK e \in LeastRecent(others) : out = {e}
                BY <3>1, <1>3
            <4>2. e \in others
                BY DEF LeastRecent
            <4>3. Cardinality(others \ {e}) = Cardinality(others) - 1 /\ IsFiniteSet(others \ {e})
                BY <2>2, <4>2, FS_RemoveElement
            <4>4. Cardinality(others \ {e}) \in Nat
                BY <4>3, FS_CardinalityType
            <4> QED
                BY <2>1, <2>2, <4>1, <4>3, <4>4
        <3>2. CASE ~(Cardinality(others) >= MaxSessions)
            <4>1. out = {}
                BY <3>2, <1>3
            <4>2. others \ {} = others
                OBVIOUS
            <4> QED
                BY <3>2, <2>2, <4>1, <4>2
        <3> QED
            BY <3>1, <3>2
    <2>4. i \notin others \ out
        BY <1>7, <1>8
    <2>5. Cardinality(live') = Cardinality(others \ out) + 1
        BY <1>3, <2>3, <2>4, FS_AddElement
    <2> QED
        BY <2>3, <2>5 DEF Bounded
<1>14. WithinLife'
    <2>1. ASSUME NEW k \in live', sess'[k].left > 0, Life[sess'[k].stream] > 0
          PROVE  sess'[k].left < life'[sess'[k].stream]
        <3>1. CASE k = i
            BY <2>1, <3>1, <1>4, <1>9, <1>11
        <3>2. CASE k \in others \ out
            BY <2>1, <3>2, <1>4, <1>11 DEF IInv, RegistryOK, WithinLife
        <3> QED
            BY <3>1, <3>2, <1>3
    <2> QED
        BY <2>1 DEF WithinLife
<1>15. RequestsOK' /\ req' \in [Requests -> [pc : {"away", "start", "fetch", "mark"},
                                            stream : Streams \cup {None}, sid : Ids \cup {None}]]
    <2>1. \A k \in Held : k \in Ids => f[k].stream = sess[k].stream
        BY <1>6, <1>7
    <2> QED
        BY <1>1, <1>6, <1>7, <2>1, StartLeaves
<1>16. TypeOK'
    <2>1. byStream' \in [Streams -> Ids \cup {None}]
        BY <1>3, <1>4, <1>7
    <2> QED
        BY <1>1, <1>8, <1>10, <1>15, <2>1 DEF Starting, IInv, TypeOK, Session
<1> QED
    BY <1>12, <1>13, <1>14, <1>15, <1>16 DEF IInv, RegistryOK

-----------------------------------------------------------------------------
(* What the requests and the admin drop. *)
LEMMA DropsKeep ==
    ASSUME IInv, NEW S, Drop(S), sess' = Alive(sess), UNCHANGED <<marked, life, req, faults>>
    PROVE  IInv'
<1>1. sess \in [Ids -> Session] /\ live' \subseteq Ids
    BY DEF IInv, TypeOK, Session, Drop
<1>2. sess' \in [Ids -> Session] /\ \A i \in Ids : i \in live' \/ i \in Held' => sess'[i] = sess[i]
    BY <1>1, AliveFacts
<1>3. RegistryOK' /\ live' \in SUBSET Ids /\ byStream' \in [Streams -> Ids \cup {None}]
    BY <1>1, <1>2, DropKeepsRegistry
<1>4. RequestsOK'
    BY <1>2, HeldFacts DEF IInv, RequestsOK
<1>5. TypeOK'
    BY <1>2, <1>3 DEF IInv, TypeOK, Session
<1> QED
    BY <1>3, <1>4, <1>5 DEF IInv

LEMMA ServeKeeps ==
    ASSUME IInv, NEW r \in Requests, NEW i \in Ids, Serve(r, i)
    PROVE  IInv'
<1> DEFINE q == [Away EXCEPT !.pc = "fetch", !.sid = i]
           watched == [sess[i] EXCEPT !.idle = 0]
<1>1. i \in live /\ sess \in [Ids -> Session] /\ sess[i].stream \in Streams
    BY DEF Serve, IInv, TypeOK, Session, RegistryOK, OneSessionPerStream
<1>2. watched \in Session /\ watched.stream = sess[i].stream /\ watched.left = sess[i].left
    <2>1. sess[i] \in Session /\ 0 \in 0..Window
        BY <1>1
    <2> QED
        BY <2>1 DEF Session
<1>3. sess' = [sess EXCEPT ![i] = watched]
    BY DEF Serve
<1> HIDE DEF watched
<1>4. /\ sess' \in [Ids -> Session]
      /\ \A k \in Ids : sess'[k].stream = sess[k].stream /\ sess'[k].left = sess[k].left
    BY <1>1, <1>2, <1>3
<1>5. live \subseteq Ids /\ live' = live /\ byStream' = byStream /\ life' = life
    BY DEF IInv, TypeOK, Serve
<1>6. RegistryOK'
    BY <1>4, <1>5, SameRegistry
<1>7. q \in [pc : {"away", "start", "fetch", "mark"}, stream : Streams \cup {None}, sid : Ids \cup {None}]
      /\ q.pc = "fetch" /\ q.sid = i
    BY DEF Away
<1>8. req' = req \/ req' = [req EXCEPT ![r] = q]
    BY DEF Serve
<1> HIDE DEF q
<1>9. \A k \in Requests : req[k].pc \in {"fetch", "mark"} => req[k].sid \in Ids
    BY DEF IInv, RequestsOK
<1>10. RequestsOK' /\ req' \in [Requests -> [pc : {"away", "start", "fetch", "mark"},
                                            stream : Streams \cup {None}, sid : Ids \cup {None}]]
    <2>1. CASE req' = req
        BY <2>1, <1>4, <1>9 DEF IInv, TypeOK, RequestsOK
    <2>2. CASE req' = [req EXCEPT ![r] = q]
        BY <2>2, <1>1, <1>4, <1>7, <1>9, OthersOK
    <2> QED
        BY <1>8, <2>1, <2>2
<1>11. TypeOK'
    BY <1>4, <1>5, <1>10 DEF Serve, IInv, TypeOK, Session
<1> QED
    BY <1>6, <1>10, <1>11 DEF IInv

(* The fetch and the update of the row change no session but for `dead`. *)
LEMMA AnswersKeep ==
    ASSUME IInv, NEW r \in Requests, req[r].pc \in {"fetch", "mark"},
           NEW q \in [pc : {"away", "start", "fetch", "mark"}, stream : Streams \cup {None},
                      sid : Ids \cup {None}],
           q.pc \in {"away", "mark"}, q.pc = "mark" => q.sid = req[r].sid,
           req' = [req EXCEPT ![r] = q],
           NEW f \in [Ids -> Session], sess' = Alive(f),
           \A i \in Ids : f[i].stream = sess[i].stream /\ f[i].left = sess[i].left,
           UNCHANGED <<live, byStream, life>>, marked' \in SUBSET Streams, faults' \in Nat
    PROVE  IInv'
<1>1. live \subseteq Ids /\ live' = live
    BY DEF IInv, TypeOK
<1>2. /\ sess' \in [Ids -> Session]
      /\ \A i \in Ids : i \in live \/ i \in Held' => sess'[i].stream = sess[i].stream /\ sess'[i].left = sess[i].left
    BY <1>1, AliveFacts
<1>3. RegistryOK'
    BY <1>1, <1>2, SameRegistry
<1>4. req'[r] = q /\ \A k \in Requests : k # r => req'[k] = req[k]
    BY DEF IInv, TypeOK
<1>5. \A k \in Requests : req[k].pc \in {"fetch", "mark"} => req[k].sid \in Ids /\ sess[req[k].sid].stream \in Streams
    BY DEF IInv, RequestsOK
<1>6. \A k \in Requests : k # r /\ req[k].pc \in {"fetch", "mark"} => sess'[req[k].sid].stream = sess[req[k].sid].stream
    BY <1>2, <1>4, <1>5, HeldFacts
<1>7. q.pc = "mark" => q.sid \in Ids /\ sess'[q.sid].stream \in Streams
    <2> SUFFICES ASSUME q.pc = "mark" PROVE q.sid \in Ids /\ sess'[q.sid].stream \in Streams
        OBVIOUS
    <2>1. q.sid \in Ids /\ sess[q.sid].stream \in Streams
        BY <1>5
    <2>2. q.sid \in Held'
        BY <1>4, HeldFacts
    <2> QED BY <1>2, <2>1, <2>2
<1>8. RequestsOK' /\ req' \in [Requests -> [pc : {"away", "start", "fetch", "mark"},
                                           stream : Streams \cup {None}, sid : Ids \cup {None}]]
    BY <1>6, <1>7, OthersOK
<1>9. TypeOK'
    BY <1>1, <1>2, <1>8 DEF IInv, TypeOK, Session
<1> QED
    BY <1>3, <1>8, <1>9 DEF IInv

LEMMA FetchEnds ==
    ASSUME IInv, NEW r \in Requests, Fetched(r) \/ Refused(r) \/ MarkDead(r)
    PROVE  IInv'
<1>1. /\ sess \in [Ids -> Session] /\ marked \in SUBSET Streams /\ faults \in Nat
      /\ req[r].pc \in {"fetch", "mark"} /\ req[r].sid \in Ids /\ sess[req[r].sid].stream \in Streams
      /\ req[r] \in [pc : {"away", "start", "fetch", "mark"}, stream : Streams \cup {None}, sid : Ids \cup {None}]
    BY DEF Fetched, Refused, MarkDead, IInv, TypeOK, Session, RequestsOK
<1>2. Away \in [pc : {"away", "start", "fetch", "mark"}, stream : Streams \cup {None}, sid : Ids \cup {None}]
      /\ Away.pc = "away"
    BY DEF Away
<1>3. CASE Fetched(r)
    BY <1>1, <1>2, <1>3, AnswersKeep DEF Fetched
<1>4. CASE Refused(r)
    <2> DEFINE told == [sess[req[r].sid] EXCEPT !.dead = TRUE]
               f == [sess EXCEPT ![req[r].sid] = told]
               next == [req[r] EXCEPT !.pc = "mark"]
               q == IF sess[req[r].sid].dead THEN Away ELSE next
    <2>1. told \in Session /\ told.stream = sess[req[r].sid].stream /\ told.left = sess[req[r].sid].left
        <3>1. sess[req[r].sid] \in Session
            BY <1>1
        <3> QED
            BY <3>1 DEF Session
    <2>2. next \in [pc : {"away", "start", "fetch", "mark"}, stream : Streams \cup {None}, sid : Ids \cup {None}]
          /\ next.pc = "mark" /\ next.sid = req[r].sid
        BY <1>1
    <2>3. sess' = Alive(f) /\ req' = [req EXCEPT ![r] = q] /\ UNCHANGED <<live, byStream, marked, life, faults>>
        BY <1>4 DEF Refused
    <2> HIDE DEF told, next
    <2>4. /\ f \in [Ids -> Session]
          /\ \A i \in Ids : f[i].stream = sess[i].stream /\ f[i].left = sess[i].left
        BY <1>1, <2>1
    <2>5. /\ q \in [pc : {"away", "start", "fetch", "mark"}, stream : Streams \cup {None}, sid : Ids \cup {None}]
          /\ q.pc \in {"away", "mark"} /\ (q.pc = "mark" => q.sid = req[r].sid)
        BY <1>2, <2>2
    <2> HIDE DEF f, q
    <2> QED
        BY <1>1, <2>3, <2>4, <2>5, AnswersKeep
<1>5. CASE MarkDead(r)
    <2>1. marked' \in SUBSET Streams /\ faults' \in Nat
        BY <1>1, <1>5 DEF MarkDead
    <2> QED
        BY <1>1, <1>2, <1>5, <2>1, AnswersKeep DEF MarkDead
<1> QED
    BY <1>3, <1>4, <1>5

-----------------------------------------------------------------------------
(* A session's clock and its source's run down together. *)
LEMMA TickKeeps ==
    ASSUME IInv, Tick
    PROVE  IInv'
<1>1. sess \in [Ids -> Session] /\ life \in [Streams -> Nat] /\ live \subseteq Ids
    BY DEF IInv, TypeOK, Session
<1> DEFINE left(i) == IF sess[i].left > 0 THEN sess[i].left - 1 ELSE 0
           idle(i) == IF i \in live /\ sess[i].idle < Window THEN sess[i].idle + 1 ELSE sess[i].idle
           older(i) == [sess[i] EXCEPT !.left = left(i), !.idle = idle(i)]
<1>2. ASSUME NEW i \in Ids
      PROVE  older(i) \in Session /\ older(i).stream = sess[i].stream /\ older(i).left = left(i)
    <2>1. sess[i] \in Session
        BY <1>1
    <2>2. left(i) \in Nat /\ idle(i) \in 0..Window
        BY <2>1 DEF Session
    <2> HIDE DEF left, idle
    <2> QED
        BY <2>1, <2>2 DEF Session
<1>3. sess' = [i \in Ids |-> older(i)]
    BY DEF Tick
<1> HIDE DEF older
<1>4. /\ sess' \in [Ids -> Session]
      /\ \A i \in Ids : /\ sess'[i].stream = sess[i].stream
                        /\ sess'[i].left = IF sess[i].left > 0 THEN sess[i].left - 1 ELSE 0
    BY <1>2, <1>3
<1>5. /\ life' \in [Streams -> Nat]
      /\ \A s \in Streams : life'[s] = IF life[s] > 0 THEN life[s] - 1 ELSE 0
    <2>1. life' = [s \in Streams |-> IF life[s] > 0 THEN life[s] - 1 ELSE 0]
        BY DEF Tick
    <2> QED
        BY <1>1, <2>1
<1>6. OneSessionPerStream'
    BY <1>1, <1>4 DEF Tick, IInv, RegistryOK, OneSessionPerStream
<1>7. Bounded'
    BY DEF Tick, IInv, RegistryOK, Bounded
<1>8. WithinLife'
    <2> SUFFICES ASSUME NEW i \in live', sess'[i].left > 0, Life[sess'[i].stream] > 0
                 PROVE  sess'[i].left < life'[sess'[i].stream]
        BY DEF WithinLife
    <2>1. i \in live /\ i \in Ids /\ sess[i].stream \in Streams
        BY <1>1 DEF Tick, IInv, RegistryOK, OneSessionPerStream
    <2>2. sess[i].left \in Nat /\ life[sess[i].stream] \in Nat
        BY <1>1, <2>1 DEF Session
    <2> HIDE DEF left, idle
    <2>3. sess'[i].stream = sess[i].stream /\ sess'[i].left = IF sess[i].left > 0 THEN sess[i].left - 1 ELSE 0
        BY <1>4, <2>1
    <2>4. sess[i].left > 0
        BY <2>2, <2>3
    <2>5. sess[i].left < life[sess[i].stream]
        BY <2>1, <2>3, <2>4 DEF IInv, RegistryOK, WithinLife
    <2>6. sess'[i].left = sess[i].left - 1 /\ life'[sess[i].stream] = life[sess[i].stream] - 1
        BY <1>5, <2>1, <2>2, <2>3, <2>4, <2>5
    <2> QED
        BY <2>2, <2>3, <2>5, <2>6
<1>9. RequestsOK'
    BY <1>4 DEF Tick, IInv, RequestsOK
<1>10. TypeOK'
    BY <1>1, <1>4, <1>5 DEF Tick, IInv, TypeOK, Session
<1> QED
    BY <1>6, <1>7, <1>8, <1>9, <1>10 DEF IInv, RegistryOK

(* After a restart the registry is empty. *)
LEMMA RestartKeeps ==
    ASSUME IInv, Restart
    PROVE  IInv'
<1>1. NoSession \in Session /\ Away.pc = "away"
      /\ Away \in [pc : {"away", "start", "fetch", "mark"}, stream : Streams \cup {None}, sid : Ids \cup {None}]
    BY DEF NoSession, Session, Away
<1>2. TypeOK'
    BY <1>1 DEF Restart, IInv, TypeOK, Session
<1>3. RegistryOK'
    <2>1. Cardinality({}) = 0
        BY FS_EmptySet
    <2> QED
        BY <2>1 DEF Restart, RegistryOK, OneSessionPerStream, Bounded, WithinLife
<1>4. RequestsOK'
    BY <1>1 DEF Restart, RequestsOK
<1> QED
    BY <1>2, <1>3, <1>4 DEF IInv

LEMMA NextKeeps ==
    ASSUME IInv, [Next]_vars
    PROVE  IInv'
<1>1. ASSUME NEW r \in Requests, NEW s \in Streams, StartReads(r, s)
      PROVE  IInv'
    BY <1>1, StartReadsKeeps
<1>2. ASSUME NEW r \in Requests, StartLive(r)
      PROVE  IInv'
    BY <1>2, StartDropsKeeps, StartReusesKeeps, StartCreatesKeeps DEF StartLive
<1>3. ASSUME NEW r \in Requests, NEW i \in Ids, ServeGone(r, i)
      PROVE  IInv'
    BY <1>3, DropsKeep DEF ServeGone
<1>4. ASSUME NEW r \in Requests, NEW i \in Ids, Serve(r, i)
      PROVE  IInv'
    BY <1>4, ServeKeeps
<1>5. ASSUME NEW r \in Requests, Fetched(r) \/ Refused(r) \/ MarkDead(r)
      PROVE  IInv'
    BY <1>5, FetchEnds
<1>6. ASSUME NEW i \in Ids, End(i)
      PROVE  IInv'
    BY <1>6, DropsKeep DEF End
<1>7. CASE Snapshot
    BY <1>7, DropsKeep DEF Snapshot
<1>8. CASE Tick
    BY <1>8, TickKeeps
<1>9. CASE Restart
    BY <1>9, RestartKeeps
<1>10. CASE UNCHANGED vars
    BY <1>10 DEF vars, IInv, TypeOK, RegistryOK, OneSessionPerStream, Bounded, WithinLife, RequestsOK
<1> QED
    BY <1>1, <1>2, <1>3, <1>4, <1>5, <1>6, <1>7, <1>8, <1>9, <1>10 DEF Next

LEMMA IInvAlways == Spec => []IInv
<1>1. IInv /\ [Next]_vars => IInv'
    BY NextKeeps
<1> QED
    BY InitEstablishes, <1>1, PTL DEF Spec
-----------------------------------------------------------------------------
(* A refusal that was heard: DeadIsMarked is inductive next to IInv.  Most steps neither make a  *)
(* session dead nor end the update of a row.                                                     *)
LEMMA NoNewRefusal ==
    ASSUME IInv, DeadIsMarked, marked \subseteq marked', faults' = 0 => faults = 0,
           \A i \in live' : sess'[i].dead =>
                i \in live /\ sess[i].dead /\ sess'[i].stream = sess[i].stream,
           \A k \in Requests : faults' = 0 /\ req[k].pc = "mark" =>
                \/ sess[req[k].sid].stream \in marked'
                \/ /\ req'[k].pc = "mark"
                   /\ sess'[req'[k].sid].stream = sess[req[k].sid].stream
    PROVE  DeadIsMarked'
<1> SUFFICES ASSUME faults' = 0, NEW i \in live', sess'[i].dead
             PROVE  \/ sess'[i].stream \in marked'
                    \/ \E r \in Requests : req'[r].pc = "mark" /\ sess'[req'[r].sid].stream = sess'[i].stream
    BY DEF DeadIsMarked
<1>1. i \in live /\ sess[i].dead /\ sess'[i].stream = sess[i].stream
    OBVIOUS
<1>2. \/ sess[i].stream \in marked
      \/ \E r \in Requests : req[r].pc = "mark" /\ sess[req[r].sid].stream = sess[i].stream
    BY <1>1 DEF DeadIsMarked
<1> QED
    BY <1>1, <1>2

(* What the registry and the requests still refer to stays as it is in every step that only drops. *)
LEMMA DropsKeepDead ==
    ASSUME IInv, DeadIsMarked, NEW S, Drop(S), sess' = Alive(sess), UNCHANGED <<marked, life, faults>>,
           \A k \in Requests : req[k].pc = "mark" => req'[k] = req[k]
    PROVE  DeadIsMarked'
<1>1. sess \in [Ids -> Session] /\ live' \subseteq Ids /\ live' \subseteq live
    BY DEF IInv, TypeOK, Session, Drop
<1>2. \A i \in Ids : i \in live' \/ i \in Held' => sess'[i] = sess[i]
    BY <1>1, AliveFacts
<1>3. \A k \in Requests : req[k].pc = "mark" => sess'[req'[k].sid] = sess[req[k].sid]
    BY <1>2, HeldFacts DEF IInv, RequestsOK
<1> QED
    BY <1>1, <1>2, <1>3, NoNewRefusal

LEMMA StartLiveKeepsDead ==
    ASSUME IInv, DeadIsMarked, NEW r \in Requests, StartLive(r)
    PROVE  DeadIsMarked'
<1>1. \A k \in Requests : req[k].pc = "mark" => req'[k] = req[k]
    BY DEF StartLive, StartRefused, StartReuses, StartFull, StartCreates, Starting, IInv, TypeOK
<1>2. /\ UNCHANGED <<marked, life, faults>> /\ sess \in [Ids -> Session]
      /\ req[r].stream \in Streams /\ live \subseteq Ids
    BY DEF StartLive, StartRefused, StartReuses, StartFull, StartCreates, Starting, IInv, TypeOK,
           RequestsOK, Session
<1>3. CASE StartRefused(r)
    <2>1. UNCHANGED <<sess, live>>
        BY <1>3 DEF StartRefused
    <2> QED
        BY <1>1, <1>2, <2>1, NoNewRefusal
<1>4. CASE StartFull(r)
    <2>1. Drop(Worn(req[r].stream)) /\ sess' = Alive(sess)
        BY <1>4 DEF StartFull
    <2> QED
        BY <1>1, <1>2, <2>1, DropsKeepDead
<1>5. CASE StartReuses(r)
    <2> DEFINE i == byStream[req[r].stream]
               f == [sess EXCEPT ![i] = Renewed(@, Ttl(req[r].stream))]
    <2>1. Drop(Expired) /\ sess' = Alive(f) /\ i \in live
        BY <1>5 DEF StartReuses
    <2>2. /\ f \in [Ids -> Session]
          /\ \A k \in Ids : f[k].dead = sess[k].dead /\ f[k].stream = sess[k].stream
        <3> DEFINE x == Renewed(sess[i], Ttl(req[r].stream))
        <3>1. sess[i] \in Session /\ Ttl(req[r].stream) \in Nat /\ i \in Ids
            BY <1>2, <2>1, TtlFacts
        <3>2. x \in Session /\ x.dead = sess[i].dead /\ x.stream = sess[i].stream
            <4> DEFINE left == IF sess[i].left > Ttl(req[r].stream) THEN sess[i].left ELSE Ttl(req[r].stream)
            <4>1. x = [sess[i] EXCEPT !.left = left, !.idle = 0]
                BY DEF Renewed
            <4>2. left \in Nat /\ 0 \in 0..Window
                BY <3>1 DEF Session
            <4> HIDE DEF x, left
            <4> QED BY <3>1, <4>1, <4>2 DEF Session
        <3> HIDE DEF x
        <3>3. f = [sess EXCEPT ![i] = x]
            BY DEF x
        <3> HIDE DEF f
        <3> QED BY <1>2, <3>1, <3>2, <3>3
    <2> HIDE DEF f, i
    <2>3. \A k \in Ids : k \in live' \/ k \in Held' => sess'[k] = f[k]
        BY <2>1, <2>2, AliveFacts
    <2>4. live' \subseteq live
        BY <2>1 DEF Drop
    <2>5. \A k \in Requests : req[k].pc = "mark" =>
                req'[k] = req[k] /\ req[k].sid \in Ids /\ req[k].sid \in Held'
        <3>1. \A k \in Requests : req[k].pc = "mark" => req[k].sid \in Ids
            BY DEF IInv, RequestsOK
        <3> QED BY <1>1, <3>1, HeldFacts
    <2>6. \A k \in Requests : req[k].pc = "mark" => sess'[req'[k].sid].stream = sess[req[k].sid].stream
        <3> SUFFICES ASSUME NEW k \in Requests, req[k].pc = "mark"
                     PROVE  sess'[req'[k].sid].stream = sess[req[k].sid].stream
            OBVIOUS
        <3>1. req'[k] = req[k] /\ req[k].sid \in Ids /\ req[k].sid \in Held'
            BY <2>5
        <3>2. sess'[req[k].sid] = f[req[k].sid]
            BY <2>3, <3>1
        <3>3. f[req[k].sid].stream = sess[req[k].sid].stream
            BY <2>2, <3>1
        <3> QED BY <3>1, <3>2, <3>3
    <2>7. \A k \in live' : sess'[k].dead => k \in live /\ sess[k].dead /\ sess'[k].stream = sess[k].stream
        BY <1>2, <2>2, <2>3, <2>4
    <2> QED
        BY <1>1, <1>2, <2>6, <2>7, NoNewRefusal
<1>6. CASE StartCreates(r)
    <2> DEFINE s == req[r].stream
               new == [stream |-> s, left |-> Ttl(s), idle |-> 0, dead |-> FALSE]
    <2>1. PICK i \in Ids \ (live \cup Held) :
                /\ live' \subseteq live \cup {i}
                /\ sess' = Alive([sess EXCEPT ![i] = new])
        BY <1>6 DEF StartCreates
    <2> DEFINE f == [sess EXCEPT ![i] = new]
    <2>2. new \in Session /\ new.dead = FALSE
        BY <1>2, TtlFacts DEF Session
    <2> HIDE DEF new
    <2>3. f \in [Ids -> Session] /\ f[i].dead = FALSE /\ \A k \in Ids : k # i => f[k] = sess[k]
        BY <1>2, <2>2
    <2> HIDE DEF f
    <2>4. \A k \in Ids : k \in live' \/ k \in Held' => sess'[k] = f[k]
        BY <2>1, <2>3, AliveFacts DEF f
    <2>5. \A k \in Requests : req[k].pc = "mark" =>
                req[k].sid \in Ids /\ req[k].sid # i /\ req'[k].sid \in Held'
        BY <1>1, <2>1, HeldFacts DEF IInv, RequestsOK, Held
    <2>6. \A k \in Requests : req[k].pc = "mark" => sess'[req'[k].sid] = sess[req[k].sid]
        BY <1>1, <2>3, <2>4, <2>5
    <2>7. \A k \in live' : sess'[k].dead => k \in live /\ sess[k].dead /\ sess'[k].stream = sess[k].stream
        BY <1>2, <2>1, <2>3, <2>4
    <2> QED
        BY <1>1, <1>2, <2>6, <2>7, NoNewRefusal
<1> QED
    BY <1>3, <1>4, <1>5, <1>6 DEF StartLive

(* The refusal itself: the request goes on to mark the stream, unless somebody did before it.    *)
LEMMA RefusedKeepsDead ==
    ASSUME IInv, DeadIsMarked, NEW r \in Requests, Refused(r)
    PROVE  DeadIsMarked'
<1> DEFINE n == req[r].sid
           f == [sess EXCEPT ![n].dead = TRUE]
<1>1. /\ n \in Ids /\ sess \in [Ids -> Session] /\ live' = live /\ live \subseteq Ids
      /\ sess' = Alive(f) /\ marked' = marked /\ faults' = faults
    BY DEF Refused, IInv, TypeOK, RequestsOK, Session
<1>2. /\ f \in [Ids -> Session]
      /\ \A k \in Ids : f[k].stream = sess[k].stream /\ (k # n => f[k] = sess[k])
    <2> DEFINE x == [sess[n] EXCEPT !.dead = TRUE]
    <2>1. x \in Session /\ x.stream = sess[n].stream
        BY <1>1 DEF Session
    <2>2. f = [sess EXCEPT ![n] = x]
        OBVIOUS
    <2> HIDE DEF x, f
    <2> QED BY <1>1, <2>1, <2>2
<1> HIDE DEF f
<1>3. \A k \in Ids : k \in live' \/ k \in Held' => sess'[k] = f[k]
    BY <1>1, <1>2, AliveFacts
<1>4. \A k \in Requests : req[k].pc = "mark" =>
            req'[k].pc = "mark" /\ sess'[req'[k].sid].stream = sess[req[k].sid].stream
    <2> SUFFICES ASSUME NEW k \in Requests, req[k].pc = "mark"
                 PROVE  req'[k].pc = "mark" /\ sess'[req'[k].sid].stream = sess[req[k].sid].stream
        OBVIOUS
    <2>1. req'[k] = req[k]
        BY DEF Refused, IInv, TypeOK
    <2>2. req[k].sid \in Ids /\ req'[k].sid \in Held'
        BY HeldFacts DEF IInv, RequestsOK
    <2>3. sess'[req[k].sid] = f[req[k].sid]
        BY <1>3, <2>1, <2>2
    <2>4. f[req[k].sid].stream = sess[req[k].sid].stream
        BY <1>2, <2>2
    <2> QED BY <2>1, <2>3, <2>4
<1>5. CASE sess[n].dead
    <2>1. \A i \in live' : sess'[i].dead => i \in live /\ sess[i].dead /\ sess'[i].stream = sess[i].stream
        BY <1>1, <1>2, <1>3, <1>5
    <2> QED
        BY <1>1, <1>4, <2>1, NoNewRefusal
<1>6. CASE ~sess[n].dead
    <2>1. req'[r].pc = "mark" /\ req'[r].sid = n
        BY <1>6 DEF Refused, IInv, TypeOK
    <2>2. sess'[n].stream = sess[n].stream
        BY <1>1, <1>2, <1>3, <2>1, HeldFacts
    <2> SUFFICES ASSUME faults = 0, NEW i \in live, sess'[i].dead, i # n
                 PROVE  \/ sess'[i].stream \in marked
                        \/ \E k \in Requests : /\ req'[k].pc = "mark"
                                               /\ sess'[req'[k].sid].stream = sess'[i].stream
        BY <1>1, <2>1, <2>2 DEF DeadIsMarked
    <2>3. sess[i].dead /\ sess'[i].stream = sess[i].stream
        BY <1>1, <1>2, <1>3
    <2>4. \/ sess[i].stream \in marked
          \/ \E k \in Requests : req[k].pc = "mark" /\ sess[req[k].sid].stream = sess[i].stream
        BY <2>3 DEF DeadIsMarked
    <2> QED
        BY <1>4, <2>3, <2>4
<1> QED
    BY <1>5, <1>6

LEMMA NextKeepsDead ==
    ASSUME IInv, DeadIsMarked, [Next]_vars
    PROVE  DeadIsMarked'
<1>1. ASSUME NEW r \in Requests, NEW s \in Streams, StartReads(r, s)
      PROVE  DeadIsMarked'
    <2>1. \A k \in Requests : req[k].pc = "mark" => req'[k] = req[k]
        BY <1>1 DEF StartReads, IInv, TypeOK
    <2> QED
        BY <1>1, <2>1, NoNewRefusal DEF StartReads
<1>2. ASSUME NEW r \in Requests, StartLive(r)
      PROVE  DeadIsMarked'
    BY <1>2, StartLiveKeepsDead
<1>3. ASSUME NEW r \in Requests, NEW i \in Ids, ServeGone(r, i)
      PROVE  DeadIsMarked'
    BY <1>3, DropsKeepDead DEF ServeGone
<1>4. ASSUME NEW r \in Requests, NEW i \in Ids, Serve(r, i)
      PROVE  DeadIsMarked'
    <2>1. \A k \in Requests : req[k].pc = "mark" => req'[k] = req[k]
        BY <1>4 DEF Serve, IInv, TypeOK
    <2>2. \A k \in Ids : sess'[k].dead = sess[k].dead /\ sess'[k].stream = sess[k].stream
        BY <1>4 DEF Serve, IInv, TypeOK
    <2>3. \A k \in Requests : req[k].pc = "mark" => req[k].sid \in Ids
        BY DEF IInv, RequestsOK
    <2> QED
        BY <1>4, <2>1, <2>2, <2>3, NoNewRefusal DEF Serve, IInv, TypeOK
<1>5. ASSUME NEW r \in Requests, Fetched(r)
      PROVE  DeadIsMarked'
    <2>1. /\ \A k \in Requests : req[k].pc = "mark" => req'[k] = req[k]
          /\ sess \in [Ids -> Session] /\ live \subseteq Ids
        BY <1>5 DEF Fetched, IInv, TypeOK, Session
    <2>2. \A i \in Ids : i \in live' \/ i \in Held' => sess'[i] = sess[i]
        BY <1>5, <2>1, AliveFacts DEF Fetched
    <2>3. \A k \in Requests : req[k].pc = "mark" => sess'[req'[k].sid] = sess[req[k].sid]
        BY <2>1, <2>2, HeldFacts DEF IInv, RequestsOK
    <2> QED
        BY <1>5, <2>1, <2>2, <2>3, NoNewRefusal DEF Fetched
<1>6. ASSUME NEW r \in Requests, Refused(r)
      PROVE  DeadIsMarked'
    BY <1>6, RefusedKeepsDead
<1>7. ASSUME NEW r \in Requests, MarkDead(r)
      PROVE  DeadIsMarked'
    <2>1. /\ \A k \in Requests : k # r => req'[k] = req[k]
          /\ sess \in [Ids -> Session] /\ live \subseteq Ids /\ live' = live
          /\ marked \subseteq marked' /\ faults \in Nat /\ (faults' = faults \/ faults' = faults + 1)
          /\ faults' = 0 => sess[req[r].sid].stream \in marked' /\ faults = 0
        BY <1>7 DEF MarkDead, IInv, TypeOK, Session
    <2>2. \A i \in Ids : i \in live' \/ i \in Held' => sess'[i] = sess[i]
        BY <1>7, <2>1, AliveFacts DEF MarkDead
    <2>3. \A k \in Requests : k # r /\ req[k].pc = "mark" => sess'[req'[k].sid] = sess[req[k].sid]
        BY <2>1, <2>2, HeldFacts DEF IInv, RequestsOK
    <2> QED
        BY <2>1, <2>2, <2>3, NoNewRefusal
<1>8. ASSUME NEW i \in Ids, End(i)
      PROVE  DeadIsMarked'
    BY <1>8, DropsKeepDead DEF End
<1>9. CASE Snapshot
    BY <1>9, DropsKeepDead DEF Snapshot
<1>10. CASE Tick
    <2>1. \A i \in Ids : sess'[i].dead = sess[i].dead /\ sess'[i].stream = sess[i].stream
        <3> SUFFICES ASSUME NEW i \in Ids
                     PROVE  sess'[i].dead = sess[i].dead /\ sess'[i].stream = sess[i].stream
            OBVIOUS
        <3> DEFINE left == IF sess[i].left > 0 THEN sess[i].left - 1 ELSE 0
                   idle == IF i \in live /\ sess[i].idle < Window THEN sess[i].idle + 1 ELSE sess[i].idle
        <3>1. sess'[i] = [sess[i] EXCEPT !.left = left, !.idle = idle]
            BY <1>10 DEF Tick
        <3>2. sess[i] \in Session
            BY DEF IInv, TypeOK, Session
        <3> HIDE DEF left, idle
        <3> QED BY <3>1, <3>2 DEF Session
    <2>2. UNCHANGED <<live, marked, req, faults>> /\ live \subseteq Ids
        BY <1>10 DEF Tick, IInv, TypeOK
    <2>3. \A k \in Requests : req[k].pc = "mark" => sess'[req[k].sid].stream = sess[req[k].sid].stream
        BY <2>1 DEF IInv, RequestsOK
    <2> QED
        BY <2>1, <2>2, <2>3, NoNewRefusal
<1>11. CASE Restart
    BY <1>11 DEF Restart, DeadIsMarked
<1>12. CASE UNCHANGED vars
    BY <1>12 DEF vars, DeadIsMarked
<1> QED
    BY <1>1, <1>2, <1>3, <1>4, <1>5, <1>6, <1>7, <1>8, <1>9, <1>10, <1>11, <1>12 DEF Next

-----------------------------------------------------------------------------
(* Only a start creates a session, and what it forgets to make room is not being watched: were   *)
(* the least recent of the others active, all of them were, and there would be no room at all.   *)
LEMMA CreatesEvictIdle ==
    ASSUME IInv, NEW r \in Requests, StartCreates(r), \A k \in live \ Expired : ~sess[k].dead
    PROVE  \A i \in live \ live' : ~IsActive(i)
<1> DEFINE s == req[r].stream
           others == live \ Worn(s)
           active == {i \in live : IsActive(i)}
<1>1. PICK out \in IF Cardinality(others) >= MaxSessions
                   THEN {{e} : e \in LeastRecent(others)} ELSE {{}} :
            others \ out \subseteq live'
    BY DEF StartCreates
<1>2. Cardinality(active) < MaxActive
    BY DEF StartCreates
<1>3. IsFiniteSet(live) /\ IsFiniteSet(active) /\ IsFiniteSet(others)
    BY FS_Subset DEF IInv, TypeOK
<1>4. live \subseteq Ids /\ sess \in [Ids -> Session]
    BY DEF IInv, TypeOK, Session
<1> SUFFICES ASSUME NEW i \in live \ live', IsActive(i)
             PROVE  FALSE
    OBVIOUS
<1>5. i \in others
    BY <1>4 DEF Worn, Expired, IsActive, Session
<1>6. Cardinality(others) >= MaxSessions /\ i \in LeastRecent(others)
    BY <1>1, <1>5
<1>7. others \subseteq active
    <2> SUFFICES ASSUME NEW k \in others PROVE k \in active
        OBVIOUS
    <2>1. k \in live /\ sess[k] \in Session /\ sess[i] \in Session /\ sess[k].left # 0 /\ ~sess[k].dead
        BY <1>4 DEF Worn, Expired
    <2>2. sess[i].idle >= sess[k].idle /\ sess[i].idle < Window
        BY <1>6 DEF LeastRecent, IsActive
    <2>3. IsActive(k)
        BY <2>1, <2>2 DEF IsActive, Session
    <2> QED BY <2>1, <2>3
<1>8. /\ Cardinality(others) <= Cardinality(active)
      /\ Cardinality(others) \in Nat /\ Cardinality(active) \in Nat
    BY <1>3, <1>7, FS_Subset, FS_CardinalityType
<1> QED
    BY <1>2, <1>6, <1>8

(* No other step makes the registry larger. *)
LEMMA NextEvictsIdle ==
    ASSUME IInv, [Next]_vars, live' \ live # {}, \A k \in live \ Expired : ~sess[k].dead
    PROVE  \A i \in live \ live' : ~IsActive(i)
<1>1. \E r \in Requests : StartCreates(r)
    BY DEF Next, vars, StartLive, StartReads, StartRefused, StartReuses, StartFull, ServeGone, Serve,
           Fetched, Refused, MarkDead, End, Snapshot, Tick, Restart, Drop
<1> QED
    BY <1>1, CreatesEvictIdle

-----------------------------------------------------------------------------
(* The registry, the requests and the rows of the streams always have the types liverelay.py and *)
(* routers/live.py give them; in particular only rows of streams are ever marked dead.           *)
THEOREM RelayTypeCorrect == Spec => []TypeOK
<1>1. IInv => TypeOK
    BY DEF IInv
<1> QED
    BY <1>1, IInvAlways, PTL

(* Whatever requests, refusals, evictions, restarts and minutes come in whatever order:          *)
(* LiveRegistry's two tables agree, so a stream never has two sessions, there are never more     *)
(* than max_sessions of them, and no link outlives the one of the source it hides.               *)
THEOREM RegistryHolds == Spec => []RegistryOK
<1>1. IInv => RegistryOK
    BY DEF IInv
<1> QED
    BY <1>1, IInvAlways, PTL

(* "The source refused this link" is known to everybody who asks for the stream, as long as no   *)
(* commit fails: the stream of a refused session is marked, or the request that heard the        *)
(* refusal first is on its way to do it, whatever is dropped, evicted or restarted meanwhile.    *)
THEOREM RefusalsAreMarked == Spec => []DeadIsMarked
<1>1. Init => DeadIsMarked
    BY DEF Init, DeadIsMarked
<1>2. IInv /\ DeadIsMarked /\ [Next]_vars => DeadIsMarked'
    BY NextKeepsDead
<1> QED
    BY <1>1, <1>2, IInvAlways, PTL DEF Spec

(* LiveRegistry.start: making room for a new session never cuts off one that is being watched,   *)
(* unless a dead one takes a place among the recently used (see EvictsIdle).                     *)
THEOREM WatchedStay == Spec => EvictsIdle
<1> DEFINE Evicts == (live' \ live # {} /\ \A k \in live \ Expired : ~sess[k].dead)
                         => \A i \in live \ live' : ~IsActive(i)
<1>1. IInv /\ [Next]_vars => Evicts
    BY NextEvictsIdle
<1>2. [][Next]_vars /\ []IInv => [][Evicts]_vars
    BY <1>1, PTL
<1> QED
    BY <1>2, IInvAlways, PTL DEF Spec, EvictsIdle
=============================================================================
