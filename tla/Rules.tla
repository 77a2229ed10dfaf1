------------------------------- MODULE Rules --------------------------------
(***************************************************************************)
(* Functions of the program that only compute: each as the code computes   *)
(* it, and next to it what its answer has to be.  A behaviour is one       *)
(* question to one of them.  Those with a loop are given their entries one *)
(* after the other, and the answer so far has to be right after each, so   *)
(* that every list up to the bound is asked about.                         *)
(***************************************************************************)
EXTENDS Integers, FiniteSets, SequencesExt

CONSTANTS MaxSize,   \* bound: bytes of a file, ends of links, times
          MaxRows,   \* bound: sources to put in order, links of a task
          MaxItems,  \* bound: entries of a list
          MaxEvents, \* bound: pieces, line ends and looks of a followed log
          MaxLimit,  \* bound: requests a key may make in a minute
          MaxFiles,  \* SUBTITLE_MAX_FILES
          MaxTable,  \* MAX_TABLE of liverelay.py
          RateMinute,\* the minute of the rate limit
          MaxLines   \* MAX_LINES of testlog.py

ASSUME RulesAssumption ==
    {MaxSize, MaxRows, MaxItems, MaxEvents, MaxLimit, MaxFiles, MaxTable, RateMinute, MaxLines} \subseteq Nat \ {0}

VARIABLES question,  \* which function is asked, and what it is asked besides a list
          given,     \* the entries of the list so far
          made       \* what its loop has made of them

rulesVars == <<question, given, made>>

Unasked == <<"none">>
Absent == -1

Ask(q, start) ==
    /\ question = Unasked
    /\ question' = q
    /\ made' = start
    /\ UNCHANGED given

Give(rule, bound, x, result) ==
    /\ question[1] = rule
    /\ Len(given) < bound
    /\ given' = Append(given, x)
    /\ made' = result
    /\ UNCHANGED question

(* The entries of s that are in S, in their order. *)
Only(s, S) ==
    LET I == {i \in DOMAIN s : s[i] \in S}
    IN  [n \in 1..Cardinality(I) |-> s[CHOOSE i \in I : Cardinality({j \in I : j <= i}) = n]]

-----------------------------------------------------------------------------
(* parse_range: what a request with "bytes=from-to" gets of a file. *)
ParseRange(h, size) ==
    LET last == IF h.to = Absent \/ h.to > size - 1 THEN size - 1 ELSE h.to IN
    CASE h.from = Absent /\ h.to = Absent -> <<"ignore">>
      [] h.from = Absent /\ h.to = 0 -> <<"refuse">>
      [] h.from = Absent /\ h.to > 0 -> <<"send", IF h.to > size THEN 0 ELSE size - h.to, size - 1>>
      [] h.from # Absent /\ (h.from >= size \/ h.from > last) -> <<"refuse">>
      [] OTHER -> <<"send", h.from, last>>

Ranges == [from : 0..MaxSize \cup {Absent}, to : 0..MaxSize \cup {Absent}, size : 1..MaxSize]

(* The bytes the client means, as far as the file has them; none of them is a refusal. *)
RangeRight(q) ==
    LET wanted == {b \in 0..q.size - 1 : IF q.from = Absent THEN b >= q.size - q.to
                                         ELSE b >= q.from /\ (q.to = Absent \/ b <= q.to)}
        answer == ParseRange(q, q.size)
    IN  CASE answer[1] = "ignore" -> q.from = Absent /\ q.to = Absent
          [] answer[1] = "refuse" -> wanted = {}
          [] answer[1] = "send"   -> wanted # {} /\ answer[2]..answer[3] = wanted

-----------------------------------------------------------------------------
Segs == {"s1", "s2"}
Texts == {"tag", "inf", "end"} \cup Segs

(* One line of hls.rewrite_playlist, until a segment is not there. *)
RewriteLine(acc, line, exists) ==
    CASE ~acc.on -> acc
      [] acc.on /\ line = "inf" -> [acc EXCEPT !.pending = <<"inf">>]
      [] acc.on /\ line \in {"tag", "end"} -> [acc EXCEPT !.out = Append(@, line)]
      [] acc.on /\ line \in exists -> [acc EXCEPT !.out = Append(@ \o acc.pending, line), !.pending = <<>>]
      [] OTHER -> [acc EXCEPT !.on = FALSE]

(* Fault: what is cut off keeps its end tag. *)
RewritePlaylist_KeepsEnd(acc) == acc.out

RewritePlaylist(acc) == IF acc.on THEN acc.out ELSE Only(acc.out, Texts \ {"end"})

AskPlaylist ==
    \E exists \in SUBSET Segs : Ask(<<"playlist", exists>>, [out |-> <<>>, pending |-> <<>>, on |-> TRUE])

GiveLine ==
    \E line \in Texts : Give("playlist", MaxItems, line, RewriteLine(made, line, question[2]))

(* A player is sent to the longest run of finished segments, and told of an end only when        *)
(* nothing is missing ("a half-written playlist can never point at something missing").          *)
PlaylistRight(exists, lines, acc) ==
    LET out == RewritePlaylist(acc)
        all == Only(lines, Segs)
        sent == Only(out, Segs)
    IN  /\ ToSet(sent) \subseteq exists
        /\ IsPrefix(sent, all)
        /\ sent # all => all[Len(sent) + 1] \notin exists
        /\ Contains(out, "end") <=> Contains(lines, "end") /\ sent = all

-----------------------------------------------------------------------------
(* ranking.order_key; a source without a rank has rank 0 here. *)
OrderKey(rows, id, starredFirst) ==
    <<IF ~starredFirst \/ rows[id].starred THEN 0 ELSE 1, IF rows[id].rank = 0 THEN 1 ELSE 0, rows[id].rank, id>>

KeyLess(k, l) == \E i \in 1..4 : k[i] < l[i] /\ \A j \in 1..(i - 1) : k[j] = l[j]

Rankings == [rows : [1..MaxRows -> [starred : BOOLEAN, rank : 0..2]], starredFirst : BOOLEAN]

(* What TaskRun assumes of Before: no ties, so every search tries the sources in one order; a    *)
(* better rank is tried first, one without a rank last, and the starred ones before all if asked. *)
OrderRight(q) ==
    LET Sooner(s, t) == KeyLess(OrderKey(q.rows, s, q.starredFirst), OrderKey(q.rows, t, q.starredFirst))
    IN  \A s, t \in 1..MaxRows :
            /\ s # t => (Sooner(s, t) <=> ~Sooner(t, s))
            /\ \A u \in 1..MaxRows : Sooner(s, t) /\ Sooner(t, u) => Sooner(s, u)
            /\ q.starredFirst /\ q.rows[s].starred /\ ~q.rows[t].starred => Sooner(s, t)
            /\ (~q.starredFirst \/ q.rows[s].starred = q.rows[t].starred)
               /\ q.rows[s].rank # 0 /\ (q.rows[t].rank = 0 \/ q.rows[s].rank < q.rows[t].rank) => Sooner(s, t)

-----------------------------------------------------------------------------
Langs == {"en", "fa"}
Tracks == [url : 0..2, lang : Langs]

(* One subtitle of a source in plan_subtitles: url 0 is not one that can be fetched; no          *)
(* languages allow all of them.                                                                  *)
PickSubtitle(picked, d, allow) ==
    IF d.url = 0 \/ Contains(picked, d) \/ (allow # {} /\ d.lang \notin allow) THEN picked
    ELSE Append(picked, d)

PlanSubtitles(picked) ==
    LET kept == SubSeq(picked, 1, IF Len(picked) > MaxFiles THEN MaxFiles ELSE Len(picked))
        Nth(i) == Cardinality({j \in 1..i : kept[j].lang = kept[i].lang})
    IN  [cands |-> [i \in DOMAIN kept |-> [n |-> i, lang |-> kept[i].lang, url |-> kept[i].url,
                                           label |-> <<kept[i].lang, Nth(i)>>]],
         over |-> Len(picked) - Len(kept)]

AskPlan == \E allow \in SUBSET Langs : Ask(<<"plan", allow>>, <<>>)

GiveSubtitle ==
    \E d \in Tracks : Give("plan", MaxItems, d, PickSubtitle(made, d, question[2]))

(* Every subtitle the request allows is fetched once or counted as too many, and a viewer can    *)
(* tell the files apart by number and by label.                                                  *)
PlanRight(allow, raw, picked) ==
    LET wanted == {d \in ToSet(raw) : d.url # 0 /\ (allow = {} \/ d.lang \in allow)}
        plan == PlanSubtitles(picked)
        planned == {[url |-> c.url, lang |-> c.lang] : c \in ToSet(plan.cands)}
    IN  /\ planned \subseteq wanted
        /\ Cardinality(planned) = Len(plan.cands)
        /\ Len(plan.cands) + plan.over = Cardinality(wanted)
        /\ plan.over > 0 => Len(plan.cands) = MaxFiles
        /\ Cardinality({c.label : c \in ToSet(plan.cands)}) = Len(plan.cands)
        /\ \A i \in DOMAIN plan.cands : plan.cands[i].n = i

-----------------------------------------------------------------------------
(* LiveRegistry.register for one address of a playlist: 0 is the entry point of the session. *)
RegisterUrl(acc, url) ==
    CASE acc.full -> acc
      [] ~acc.full /\ Contains(acc.table, url) ->
             [acc EXCEPT !.numbers = Append(@, (CHOOSE n \in DOMAIN acc.table : acc.table[n] = url) - 1)]
      [] ~acc.full /\ ~Contains(acc.table, url) /\ Len(acc.table) >= MaxTable -> [acc EXCEPT !.full = TRUE]
      [] OTHER -> [acc EXCEPT !.numbers = Append(@, Len(acc.table)), !.table = Append(@, url)]

AskNumbers == Ask(<<"numbering">>, [table |-> <<0>>, numbers |-> <<>>, full |-> FALSE])

GiveUrl == \E url \in 0..MaxTable : Give("numbering", MaxItems, url, RegisterUrl(made, url))

(* A number a player was given leads to the same address for as long as the session lives, and   *)
(* a playlist is refused only when its addresses do not fit.                                     *)
NumberingRight(urls, acc) ==
    /\ acc.table[1] = 0
    /\ Cardinality(ToSet(acc.table)) = Len(acc.table)
    /\ \A i \in DOMAIN acc.numbers : acc.table[acc.numbers[i] + 1] = urls[i]
    /\ acc.full <=> Cardinality(ToSet(urls) \cup {0}) > MaxTable

-----------------------------------------------------------------------------
(* The requests at the head of the deque that auth._check_rate takes off it. *)
Outdated(hits, now) == {i \in DOMAIN hits : \A j \in 1..i : now - hits[j] > RateMinute}

(* auth._check_rate for a request that comes a pause after the one before. *)
CheckRate(acc, pause, limit) ==
    LET now == acc.now + pause
        recent == SubSeq(acc.hits, Cardinality(Outdated(acc.hits, now)) + 1, Len(acc.hits))
    IN  IF Len(recent) >= limit
          THEN [acc EXCEPT !.now = now, !.hits = recent, !.refused = @ \cup {now}]
          ELSE [acc EXCEPT !.now = now, !.hits = Append(recent, now), !.accepted = Append(@, now)]

AskRate ==
    \E limit \in 1..MaxLimit :
        Ask(<<"rate", limit>>, [now |-> 0, hits |-> <<>>, accepted |-> <<>>, refused |-> {}])

GiveRequest == \E pause \in 0..MaxSize : Give("rate", MaxItems, pause, CheckRate(made, pause, question[2]))

(* No minute has more than the limit, and a request is refused in a full minute only. *)
RateRight(limit, acc) ==
    LET InMinute(t) == Cardinality({i \in DOMAIN acc.accepted : acc.accepted[i] \in (t - RateMinute)..t})
    IN  /\ \A i \in DOMAIN acc.accepted : InMinute(acc.accepted[i]) <= limit
        /\ \A t \in acc.refused : InMinute(t) = limit

-----------------------------------------------------------------------------
(* taskstate.results_view: a link's end, 0 if it tells none; dead links and past ones are left   *)
(* out, and the task's own end caps the others.                                                  *)
Ending(s, cap) == IF s.end = 0 \/ s.end > cap THEN cap ELSE s.end

StreamAlive(s, now) == ~s.dead /\ (s.end = 0 \/ s.end > now)

ResultsView(streams, cap, now) ==
    LET ends == {<<i, Ending(streams[i], cap)>> : i \in {j \in DOMAIN streams : StreamAlive(streams[j], now)}}
    IN  [alive |-> Cardinality(ends),
         last |-> IF ends = {} THEN 0 ELSE CHOOSE t \in {e[2] : e \in ends} : \A e \in ends : e[2] <= t]

Views == {q \in [streams : SeqOf([end : 0..MaxSize, dead : BOOLEAN], MaxRows), cap : 1..MaxSize, now : 0..MaxSize] :
             q.now < q.cap}

(* Until "last", and not a moment longer, something of a task that has not expired can be played. *)
ViewRight(q) ==
    LET view == ResultsView(q.streams, q.cap, q.now)
        PlayableAt(t) == t < q.cap /\ \E i \in DOMAIN q.streams : StreamAlive(q.streams[i], t)
    IN  /\ view.alive = 0 <=> view.last = 0
        /\ view.alive > 0 => \A t \in q.now..MaxSize : t < view.last <=> PlayableAt(t)

-----------------------------------------------------------------------------
(* TestRun: what a script prints arrives in pieces, with or without the end of a line; the panel *)
(* asks for the lines since its last answer.  A line is the number of its pieces; one too long   *)
(* to wait for ends where it is published (MAX_LINE_CHARS), what that cuts off is left out.      *)
AddLine(acc, line) ==
    CASE Len(acc.lines) < MaxLines -> [acc EXCEPT !.lines = Append(@, line)]
      [] Len(acc.lines) = MaxLines -> [acc EXCEPT !.lines = Append(@, 0)]
      [] OTHER -> acc

Since(acc) == [acc EXCEPT !.got = @ \o SubSeq(acc.lines, acc.next + 1, Len(acc.lines)), !.next = Len(acc.lines)]

Feed(acc, event) ==
    CASE event = "piece" -> [acc EXCEPT !.partial = @ + 1]
      [] event = "eol"   -> AddLine([acc EXCEPT !.partial = 0], acc.partial + 1)
      [] event = "poll"  -> Since(acc)

(* finish(), and the last answer of the panel. *)
TestLog(acc) == Since(IF acc.partial > 0 THEN AddLine(acc, acc.partial) ELSE acc)

LogEvents == {"piece", "eol", "poll"}

AskLog == Ask(<<"log">>, [lines |-> <<>>, partial |-> 0, next |-> 0, got |-> <<>>])

GiveOutput == \E e \in LogEvents : Give("log", MaxEvents, e, Feed(made, e))

(* The pieces of a line that are there after event i. *)
Pieces(events, i) ==
    Cardinality({j \in 1..i : events[j] = "piece" /\ \A k \in j..i : events[k] # "eol"})

Printed(events) ==
    Only([i \in DOMAIN events |-> IF events[i] = "eol" THEN Pieces(events, i - 1) + 1 ELSE 0], Nat \ {0})

(* However the pieces and the answers fall, the panel gets every line once and whole, up to the  *)
(* cap and then one note that there was more.                                                    *)
LogRight(events, acc) ==
    LET rest == Pieces(events, Len(events))
        printed == IF rest > 0 THEN Append(Printed(events), rest) ELSE Printed(events)
    IN  TestLog(acc).got = IF Len(printed) <= MaxLines THEN printed
                           ELSE Append(SubSeq(printed, 1, MaxLines), 0)

-----------------------------------------------------------------------------
RulesInit ==
    /\ question = Unasked
    /\ given = <<>>
    /\ made = <<>>

(* The functions without a loop get all they need with the question. *)
AskOnce ==
    \/ \E q \in Ranges : Ask(<<"range", q>>, made)
    \/ \E q \in Rankings : Ask(<<"order", q>>, made)
    \/ \E q \in Views : Ask(<<"view", q>>, made)

RulesNext ==
    \/ AskOnce
    \/ AskPlaylist \/ GiveLine
    \/ AskPlan \/ GiveSubtitle
    \/ AskNumbers \/ GiveUrl
    \/ AskRate \/ GiveRequest
    \/ AskLog \/ GiveOutput

RulesSpec == RulesInit /\ [][RulesNext]_rulesVars

(* Each of these functions gives the answer it has to give: byte ranges (rangeutil.py), the      *)
(* playlist of a growing video (hls.py), the order of sources (ranking.py), the subtitles to     *)
(* fetch (subengine.py), the numbers of a relayed playlist (liverelay.py), the rate limit        *)
(* (auth.py), what is left of a task's results (taskstate.py), a followed test log (testlog.py). *)
RulesAgree ==
    /\ question[1] = "range" => RangeRight(question[2])
    /\ question[1] = "order" => OrderRight(question[2])
    /\ question[1] = "view" => ViewRight(question[2])
    /\ question[1] = "playlist" => PlaylistRight(question[2], given, made)
    /\ question[1] = "plan" => PlanRight(question[2], given, made)
    /\ question[1] = "numbering" => NumberingRight(given, made)
    /\ question[1] = "rate" => RateRight(question[2], made)
    /\ question[1] = "log" => LogRight(given, made)
=============================================================================
