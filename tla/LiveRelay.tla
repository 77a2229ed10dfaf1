----------------------------- MODULE LiveRelay ------------------------------
(***************************************************************************)
(* The live relay (app/liverelay.py, app/routers/live.py): the registry of *)
(* sessions in memory, the requests of the players, and the flag `dead` of *)
(* a stream in the database, which a refusal by the source sets.           *)
(*                                                                         *)
(* A request runs alone between its awaits: the read of the stream's row,  *)
(* the fetch from the source, the update of the row.  A request that is    *)
(* fetching holds its session object even after the registry dropped it.   *)
(***************************************************************************)
EXTENDS Naturals, FiniteSets

CONSTANTS
    Streams,      \* rows of streams; each belongs to one API key, as its task does
    Ids,          \* session objects (bound; one that nobody refers to is used again)
    None,         \* no session
    Requests,     \* HTTP requests under way at once (bound)
    MaxActive,    \* LIVE_MAX_SESSIONS
    MaxSessions,  \* max_sessions
    Window,       \* active_window, in minutes
    LinkTtl,      \* HLS_LINK_TTL_MIN
    Life,         \* minutes to the stream's expires_at, 0 when the source told none
    MaxFaults     \* bound: failing commits

ASSUME RelayAssumption ==
    /\ Ids \subseteq Nat /\ IsFiniteSet(Ids) /\ None \notin Ids
    /\ {MaxActive, MaxSessions, Window, LinkTtl} \subseteq Nat \ {0}
    /\ MaxActive <= MaxSessions
    /\ Life \in [Streams -> Nat] /\ MaxFaults \in Nat

VARIABLES
    sess,      \* the LiveSession objects; `left` minutes to expires, `idle` minutes since last_seen, up to Window
    live,      \* the keys of registry.sessions
    byStream,  \* registry._by_stream
    marked,    \* the streams whose row says `dead`
    life,      \* minutes to the streams' expires_at
    req,       \* the requests
    faults

vars == <<sess, live, byStream, marked, life, req, faults>>

NoSession == [stream |-> None, left |-> 0, idle |-> 0, dead |-> FALSE]
Away == [pc |-> "away", stream |-> None, sid |-> None]

Init ==
    /\ sess = [i \in Ids |-> NoSession]
    /\ live = {}
    /\ byStream = [s \in Streams |-> None]
    /\ marked = {}
    /\ life = Life
    /\ req = [r \in Requests |-> Away]
    /\ faults = 0

-----------------------------------------------------------------------------
(* The registry *)

Held == {req[r].sid : r \in Requests}

(* An object is there as long as the registry or a request refers to it. *)
Alive(f) == [i \in Ids |-> IF i \in live' \cup Held' THEN f[i] ELSE NoSession]

(* Fault: _by_stream keeps what is gone. *)
Drop_KeepsLink(S) ==
    /\ live' = live \ S
    /\ UNCHANGED byStream

(* _drop for every session of S. *)
Drop(S) ==
    /\ live' = live \ S
    /\ byStream' = [s \in Streams |-> IF byStream[s] \in S THEN None ELSE byStream[s]]

(* What _gc drops. *)
Expired == {i \in live : sess[i].left = 0}

IsActive(i) == ~sess[i].dead /\ sess[i].left > 0 /\ sess[i].idle < Window

(* Fault: the most recently used. *)
LeastRecent_Most(S) == {i \in S : \A k \in S : sess[i].idle <= sess[k].idle}

(* The candidates for min(..., key=last_seen); among those idle for Window or longer it is left open. *)
LeastRecent(S) == {i \in S : \A k \in S : sess[i].idle >= sess[k].idle}

-----------------------------------------------------------------------------
(* POST /v1/tasks/{id}/live *)

(* The link we hand out ends a minute before the source's. *)
Ttl(s) ==
    IF Life[s] = 0 THEN LinkTtl
    ELSE IF life[s] <= 1 THEN 0
    ELSE IF life[s] - 1 < LinkTtl THEN life[s] - 1 ELSE LinkTtl

(* The row is read; everything after it runs in one go. *)
StartReads(r, s) ==
    /\ req[r].pc = "away"
    /\ s \notin marked
    /\ req' = [req EXCEPT ![r] = [Away EXCEPT !.pc = "start", !.stream = s]]
    /\ UNCHANGED <<sess, live, byStream, marked, life, faults>>

Starting(r) == req[r].pc = "start" /\ req' = [req EXCEPT ![r] = Away] /\ UNCHANGED <<marked, life, faults>>

(* 410: the source's link is about to end. *)
StartRefused(r) ==
    /\ Starting(r)
    /\ Ttl(req[r].stream) = 0
    /\ UNCHANGED <<sess, live, byStream>>

(* A session that is asked for again lasts as long as the later of the two links. *)
Renewed(old, ttl) == [old EXCEPT !.left = IF @ > ttl THEN @ ELSE ttl, !.idle = 0]

StartReuses(r) ==
    /\ Starting(r)
    /\ LET s == req[r].stream
           i == byStream[s]
       IN  /\ Ttl(s) > 0
           /\ i \in live \ Expired /\ ~sess[i].dead
           /\ Drop(Expired)
           /\ sess' = Alive([sess EXCEPT ![i] = Renewed(@, Ttl(s))])

(* What start drops in any case: what expired, and the stream's own session when it is dead. *)
Worn(s) == Expired \cup {i \in live : i = byStream[s] /\ sess[i].dead}

(* 429 live_capacity. *)
StartFull(r) ==
    /\ Starting(r)
    /\ LET s == req[r].stream
       IN  /\ Ttl(s) > 0
           /\ byStream[s] \notin live \ Worn(s)
           /\ Cardinality({i \in live : IsActive(i)}) >= MaxActive
           /\ Drop(Worn(s))
           /\ sess' = Alive(sess)

(* A new session; the least recently used one is forgotten when there are too many. *)
StartCreates(r) ==
    /\ Starting(r)
    /\ LET s == req[r].stream
           others == live \ Worn(s)
       IN  /\ Ttl(s) > 0
           /\ byStream[s] \notin others
           /\ Cardinality({i \in live : IsActive(i)}) < MaxActive
           /\ \E i \in Ids \ (live \cup Held) :
                /\ \A k \in Ids \ (live \cup Held) : i <= k
                /\ \E out \in IF Cardinality(others) >= MaxSessions
                              THEN {{e} : e \in LeastRecent(others)} ELSE {{}} :
                     /\ live' = (others \ out) \cup {i}
                     /\ byStream' = [t \in Streams |-> IF t = s THEN i
                                                       ELSE IF byStream[t] \in others \ out THEN byStream[t]
                                                       ELSE None]
                /\ sess' = Alive([sess EXCEPT ![i] = [stream |-> s, left |-> Ttl(s), idle |-> 0,
                                                      dead |-> FALSE]])

-----------------------------------------------------------------------------
(* GET /l/{session}/{n}.{ext}.  A link that is not valid any more changes nothing. *)

(* The session is unknown, or registry.get drops it now. *)
ServeGone(r, i) ==
    /\ req[r].pc = "away"
    /\ i \in Expired
    /\ Drop({i})
    /\ UNCHANGED <<marked, life, req, faults>>
    /\ sess' = Alive(sess)

(* A request counts as watching; on a dead session it is answered at once, as for an unknown number. *)
Serve(r, i) ==
    /\ req[r].pc = "away"
    /\ i \in live \ Expired
    /\ req' = IF sess[i].dead THEN req ELSE [req EXCEPT ![r] = [Away EXCEPT !.pc = "fetch", !.sid = i]]
    /\ sess' = [sess EXCEPT ![i].idle = 0]
    /\ UNCHANGED <<live, byStream, marked, life, faults>>

(* The source answered, or failed in a way that says nothing about the link. *)
Fetched(r) ==
    /\ req[r].pc = "fetch"
    /\ req' = [req EXCEPT ![r] = Away]
    /\ UNCHANGED <<live, byStream, marked, life, faults>>
    /\ sess' = Alive(sess)

(* Fault: the flag is set before it is asked whether this was the first refusal. *)
Refused_FlagFirst(r) ==
    /\ req[r].pc = "fetch"
    /\ req' = [req EXCEPT ![r] = Away]
    /\ UNCHANGED <<live, byStream, marked, life, faults>>
    /\ sess' = Alive([sess EXCEPT ![req[r].sid].dead = TRUE])

(* The source refuses the link (401, 403, 410; 404 for a playlist): the first one to hear it marks the stream. *)
Refused(r) ==
    /\ req[r].pc = "fetch"
    /\ req' = [req EXCEPT ![r] = IF sess[req[r].sid].dead THEN Away ELSE [@ EXCEPT !.pc = "mark"]]
    /\ UNCHANGED <<live, byStream, marked, life, faults>>
    /\ sess' = Alive([sess EXCEPT ![req[r].sid].dead = TRUE])

(* _mark_dead; a failing commit is only logged. *)
MarkDead(r) ==
    /\ req[r].pc = "mark"
    /\ req' = [req EXCEPT ![r] = Away]
    /\ \/ marked' = marked \cup {sess[req[r].sid].stream} /\ UNCHANGED faults
       \/ faults < MaxFaults /\ faults' = faults + 1 /\ UNCHANGED marked
    /\ UNCHANGED <<live, byStream, life>>
    /\ sess' = Alive(sess)

-----------------------------------------------------------------------------
(* DELETE /v1/live/{id}, by the player or the admin. *)
End(i) ==
    /\ i \in live
    /\ Drop({i})
    /\ UNCHANGED <<marked, life, req, faults>>
    /\ sess' = Alive(sess)

(* GET /admin/live cleans up first. *)
Snapshot ==
    /\ Expired # {}
    /\ Drop(Expired)
    /\ UNCHANGED <<marked, life, req, faults>>
    /\ sess' = Alive(sess)

(* A minute passes. *)
Tick ==
    /\ sess' = [i \in Ids |-> [sess[i] EXCEPT !.left = IF @ > 0 THEN @ - 1 ELSE 0,
                                              !.idle = IF i \in live /\ @ < Window THEN @ + 1 ELSE @]]
    /\ life' = [s \in Streams |-> IF life[s] > 0 THEN life[s] - 1 ELSE 0]
    /\ UNCHANGED <<live, byStream, marked, req, faults>>

(* Sessions live in memory. *)
Restart ==
    /\ sess' = [i \in Ids |-> NoSession]
    /\ live' = {}
    /\ byStream' = [s \in Streams |-> None]
    /\ req' = [r \in Requests |-> Away]
    /\ UNCHANGED <<marked, life, faults>>

StartLive(r) == StartRefused(r) \/ StartReuses(r) \/ StartFull(r) \/ StartCreates(r)

Next ==
    \/ \E r \in Requests :
        \/ \E s \in Streams : StartReads(r, s)
        \/ StartLive(r)
        \/ \E i \in Ids : ServeGone(r, i) \/ Serve(r, i)
        \/ Fetched(r)
        \/ Refused(r)
        \/ MarkDead(r)
    \/ \E i \in Ids : End(i)
    \/ Snapshot
    \/ Tick
    \/ Restart

Spec == Init /\ [][Next]_vars

-----------------------------------------------------------------------------
TypeOK ==
    /\ sess \in [Ids -> [stream : Streams \cup {None}, left : Nat, idle : 0..Window, dead : BOOLEAN]]
    /\ live \in SUBSET Ids
    /\ byStream \in [Streams -> Ids \cup {None}]
    /\ marked \in SUBSET Streams
    /\ life \in [Streams -> Nat]
    /\ req \in [Requests -> [pc : {"away", "start", "fetch", "mark"}, stream : Streams \cup {None},
                             sid : Ids \cup {None}]]
    /\ faults \in Nat

(* "The same stream of the same key shares one session": the two tables of the registry agree. *)
OneSessionPerStream ==
    /\ \A i \in live : sess[i].stream \in Streams /\ byStream[sess[i].stream] = i
    /\ \A s \in Streams : byStream[s] # None => byStream[s] \in live /\ sess[byStream[s]].stream = s

(* "Keep memory bounded." *)
Bounded == Cardinality(live) <= MaxSessions

(* "The link we hand out never claims to live longer than the source's own." *)
WithinLife ==
    \A i \in live : (sess[i].left > 0 /\ Life[sess[i].stream] > 0) => sess[i].left < life[sess[i].stream]

(* The registry holds one session per stream, not too many of them, none longer than its source. *)
RegistryOK == OneSessionPerStream /\ Bounded /\ WithinLife

(* To make room for a new session no stream that is being watched is cut off. (A dead session    *)
(* counts as recently used but not as active, so that next to one this is not so.)               *)
EvictsIdle ==
    [][(live' \ live # {} /\ \A k \in live \ Expired : ~sess[k].dead)
         => \A i \in live \ live' : ~IsActive(i)]_vars

(* A source's refusal becomes known everywhere: the stream of a session that the source refused  *)
(* is marked, or somebody is about to do it (a failing commit is not tried again).               *)
DeadIsMarked ==
    faults = 0 =>
        \A i \in live : sess[i].dead =>
            \/ sess[i].stream \in marked
            \/ \E r \in Requests : req[r].pc = "mark" /\ sess[req[r].sid].stream = sess[i].stream

=============================================================================
