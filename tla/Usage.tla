--------------------------------- MODULE Usage ---------------------------------
(***************************************************************************)
(* Settings, Usage: the token counters the provider CLIs leave in their own *)
(* files, read while they are written, cached, counted once and added up    *)
(* per day.  A request is a number, worth one token; what a parser sees of  *)
(* it is its key or its counters.  Time is the day.                         *)
(*                                                                         *)
(* The CLIs are external: claude repeats the usage of a request on further  *)
(* lines and copies a resumed session to a new file, codex repeats counters *)
(* and copies the parent into a forked file at once, grok writes a running  *)
(* total that starts again, far lower, after a compaction.  No two requests *)
(* of codex in a row have equal counters.                                   *)
(*                                                                         *)
(* Left out: windowCache, which is older than usageCache whenever it is     *)
(* asked (20 s, 45 s), the limits on the size of a file and of fileCache, and *)
(* model and session names.                                                                  *)
(***************************************************************************)
EXTENDS Naturals, Sequences, FiniteSets, SequencesExt

CONSTANTS
  ClaudeFiles, CodexFiles, GrokFiles,
  Ranges,       \* UsageRangeDays
  Slack,        \* MTIME_SLACK_MS, in days
  MaxDay,       \* bound: days
  MaxLines,     \* bound: lines in all files
  MaxPicks      \* bound: requests of the window

VARIABLES
  today,
  file,     \* lines and the day of the last write
  cache,    \* fileCache
  scan,     \* usageInflight: the scan of a range
  stats,    \* usageCache
  view      \* UsageSettings

vars == <<today, file, cache, scan, stats, view>>

Files == ClaudeFiles \cup CodexFiles \cup GrokFiles

Lines(f) == file[f].lines
Written  == FoldLeft(LAMBDA n, f : n + Len(Lines(f)), 0, SetToSeq(Files))
Ids(lines) == {lines[i].id : i \in DOMAIN lines} \ {0}
Used == UNION {Ids(Lines(f)) : f \in Files}

(* A stat of a file; its lines only grow.                                   *)
Stamp(f) == <<file[f].day, Len(Lines(f))>>
Unread == [stamp |-> <<0, 0>>, records |-> <<>>]

Idle == [on |-> FALSE, day |-> 0, todo |-> {}, open |-> {}, stamp |-> [f \in Files |-> <<0, 0>>],
         got |-> [f \in Files |-> <<>>], known |-> {}]
Blank == [has |-> FALSE, fresh |-> FALSE, day |-> 0, known |-> {}, records |-> <<>>]

Init ==
  /\ today = 1
  /\ file = [f \in Files |-> [lines |-> <<>>, day |-> 0]]
  /\ cache = [f \in Files |-> Unread]
  /\ scan = [r \in Ranges |-> Idle]
  /\ stats = [r \in Ranges |-> Blank]
  /\ view = [range |-> CHOOSE r \in Ranges : TRUE, asks |-> {}, of |-> 0, picks |-> 0]

----------------------------------------------------------------------------
(* The CLIs *)

Line(kind, id, n) == [kind |-> kind, id |-> id, n |-> n, day |-> today]
NextId == Cardinality(Used) + 1

Writes(f, lines) ==
  /\ Written + Len(lines) <= MaxLines
  /\ file' = [file EXCEPT ![f] = [lines |-> @.lines \o lines, day |-> today]]
  /\ UNCHANGED <<today, cache, scan, stats, view>>

LastOf(f) == Lines(f)[Len(Lines(f))]

Request(f) ==
  /\ f \in ClaudeFiles \cup CodexFiles
  /\ Lines(f) # <<>> /\ LastOf(f).kind # "usage" => LastOf(f).day < today
  /\ \A i \in DOMAIN Lines(f) : Lines(f)[i].kind = "copy" => Lines(f)[i].day < today
  /\ Writes(f, <<Line("usage", NextId, NextId)>>)

Repeat(f) ==
  /\ f \in ClaudeFiles \cup CodexFiles /\ Lines(f) # <<>> /\ LastOf(f).kind = "usage"
  /\ Writes(f, <<[LastOf(f) EXCEPT !.day = IF f \in ClaudeFiles THEN @ ELSE today]>>)

Resume(f, g) ==
  /\ f # g /\ {f, g} \subseteq ClaudeFiles /\ Lines(g) = <<>> /\ Lines(f) # <<>>
  /\ Writes(g, Lines(f))

Fork(f, g) ==
  /\ f # g /\ {f, g} \subseteq CodexFiles /\ Lines(g) = <<>> /\ Lines(f) # <<>>
  /\ Lines(f)[1].kind # "forked"
  /\ Writes(g, <<Line("forked", 0, 0)>>
               \o [i \in DOMAIN Lines(f) |-> [Lines(f)[i] EXCEPT !.kind = "copy", !.day = today]])

Total(f) == IF Lines(f) = <<>> THEN 0 ELSE LastOf(f).n
GrokWorks(f)    == f \in GrokFiles /\ Writes(f, <<Line("total", NextId, Total(f) + 1)>>)
GrokEndsTurn(f) == f \in GrokFiles /\ Lines(f) # <<>> /\ LastOf(f).kind = "total"
                   /\ Writes(f, <<Line("end", 0, Total(f))>>)
GrokCompacts(f) == f \in GrokFiles /\ Lines(f) # <<>> /\ LastOf(f).kind = "end" /\ Total(f) > 2
                   /\ Writes(f, <<Line("total", NextId, 1)>>)

NextDay ==
  /\ today < MaxDay
  /\ today' = today + 1
  /\ UNCHANGED <<file, cache, scan, stats, view>>

----------------------------------------------------------------------------
(* The parsers *)

Record(f, line, tokens) == [of |-> f, id |-> line.id, day |-> line.day, tokens |-> tokens]

(* readClaudeFile: the first line of a request.                             *)
ClaudeRecords(f, lines) ==
  LET keep(out, line) == IF \E i \in DOMAIN out : out[i].id = line.id THEN out
                         ELSE Append(out, Record(f, line, 1))
  IN  FoldLeft(keep, <<>>, lines)

(* parseCodexTranscriptLine: equal counters in a row are one request, and   *)
(* what follows the head of a fork within a second of the line before it is *)
(* the parent's.  Mutant: copies count.                                     *)
CodexRecordsCopies(f, lines) ==
  LET step(s, line) ==
        IF line.kind = "forked" \/ line.n = s.last THEN s
        ELSE [s EXCEPT !.last = line.n, !.out = Append(@, Record(f, line, 1))]
  IN  FoldLeft(step, [last |-> 0, out |-> <<>>], lines).out
CodexRecords(f, lines) ==
  LET step(s, line) ==
        IF line.kind = "forked" THEN [s EXCEPT !.copying = TRUE, !.anchor = line.day]
        ELSE IF line.n = s.last THEN s
        ELSE IF s.copying /\ line.day = s.anchor THEN [s EXCEPT !.last = line.n]
        ELSE [s EXCEPT !.last = line.n, !.copying = FALSE,
                       !.out = Append(@, Record(f, line, 1))]
  IN  FoldLeft(step, [last |-> 0, copying |-> FALSE, anchor |-> 0, out |-> <<>>], lines).out

(* parseGrokUpdateLine: the running total less what was counted before.     *)
GrokRecords(f, lines) ==
  LET emit(s, line) ==
        IF s.peak > s.base
        THEN [s EXCEPT !.base = s.peak, !.out = Append(@, Record(f, line, s.peak - s.base))]
        ELSE s
      seen(s, line) ==
        IF line.n * 5 < s.peak * 2 THEN [s EXCEPT !.base = 0, !.peak = line.n]
        ELSE IF line.n > s.peak THEN [s EXCEPT !.peak = line.n] ELSE s
      step(s, line) == IF line.kind = "end" THEN emit(seen(s, line), line) ELSE seen(s, line)
      last == FoldLeft(step, [base |-> 0, peak |-> 0, out |-> <<>>], lines)
  IN  IF lines = <<>> THEN <<>> ELSE emit(last, lines[Len(lines)]).out

Records(f, lines) ==
  IF f \in ClaudeFiles THEN ClaudeRecords(f, lines)
  ELSE IF f \in CodexFiles THEN CodexRecords(f, lines)
  ELSE GrokRecords(f, lines)

----------------------------------------------------------------------------
(* collectUsageStats, scanVendorHomes *)

Since(r, day) == IF day >= r THEN day - r + 1 ELSE 1
Skipped(f, r, day) == file[f].day + Slack < Since(r, day)

(* The files of a range, listed; known is history.                          *)
Begin(r) ==
  scan' = [scan EXCEPT ![r] = [Idle EXCEPT !.on = TRUE, !.day = today,
                                           !.todo = {f \in Files : Lines(f) # <<>>},
                                           !.known = Used]]

(* stat.  An unchanged file is answered from the cache.                     *)
Stat(r, f) ==
  /\ scan[r].on /\ f \in scan[r].todo
  /\ scan' = IF Skipped(f, r, scan[r].day) THEN [scan EXCEPT ![r].todo = @ \ {f}]
             ELSE IF cache[f].stamp = Stamp(f)
             THEN [scan EXCEPT ![r].todo = @ \ {f}, ![r].got[f] = cache[f].records]
             ELSE [scan EXCEPT ![r].todo = @ \ {f}, ![r].open = @ \cup {f},
                               ![r].stamp[f] = Stamp(f)]
  /\ UNCHANGED <<today, file, cache, stats, view>>

(* The lines there are when it is read, which may be more than were stat'ed; *)
(* the cache keeps them under the earlier stat.                             *)
Read(r, f) ==
  LET records == Records(f, Lines(f)) IN
    /\ f \in scan[r].open
    /\ cache' = [cache EXCEPT ![f] = [stamp |-> scan[r].stamp[f], records |-> records]]
    /\ scan' = [scan EXCEPT ![r].open = @ \ {f}, ![r].got[f] = records]
    /\ UNCHANGED <<today, file, stats, view>>

InRange(rec, r, day) == Since(r, day) <= rec.day /\ rec.day <= day

(* pushDedupe: claude's records have a key, codex's have none.              *)
Deduped(records) ==
  LET push(out, rec) ==
        IF rec.of \in ClaudeFiles /\ \E i \in DOMAIN out : out[i].of \in ClaudeFiles /\ out[i].id = rec.id
        THEN out ELSE Append(out, rec)
  IN  FoldLeft(push, <<>>, records)

Collected(r) ==
  LET all == FoldLeft(LAMBDA out, f : out \o scan[r].got[f], <<>>, SetToSeq(Files))
  IN  Deduped(SelectSeq(all, LAMBDA rec : InRange(rec, r, scan[r].day)))

Finish(r) ==
  /\ scan[r].on /\ scan[r].todo = {} /\ scan[r].open = {}
  /\ stats' = [stats EXCEPT ![r] = [has |-> TRUE, fresh |-> TRUE, day |-> scan[r].day,
                                    known |-> scan[r].known, records |-> Collected(r)]]
  /\ scan' = [scan EXCEPT ![r] = Idle]
  /\ UNCHANGED <<today, file, cache, view>>

(* CACHE_TTL_MS *)
Expire(r) ==
  /\ stats[r].fresh
  /\ stats' = [stats EXCEPT ![r].fresh = FALSE]
  /\ UNCHANGED <<today, file, cache, scan, view>>

(* An expired result is given once more while the next is collected.        *)
Refreshes(r) == ~stats[r].fresh /\ ~scan[r].on

----------------------------------------------------------------------------
(* UsageSettings: a range is picked and its statistics are asked for; an    *)
(* answer for the range picked before is ignored.                           *)

Pick(r) ==
  /\ view.picks < MaxPicks
  /\ view' = [view EXCEPT !.range = r, !.picks = @ + 1,
                          !.asks = {[a EXCEPT !.alive = FALSE] : a \in @}
                                   \cup {[of |-> r, alive |-> TRUE]}]
  /\ IF Refreshes(r) THEN Begin(r) ELSE UNCHANGED scan
  /\ UNCHANGED <<today, file, cache, stats>>

Shown(a) == IF a.alive THEN a.of ELSE view.of
Answer(a) ==
  /\ a \in view.asks /\ stats[a.of].has
  /\ view' = [view EXCEPT !.asks = @ \ {a}, !.of = Shown(a)]
  /\ UNCHANGED <<today, file, cache, scan, stats>>

----------------------------------------------------------------------------
Next ==
  \/ NextDay
  \/ \E f \in Files : \/ Request(f) \/ Repeat(f) \/ GrokWorks(f) \/ GrokEndsTurn(f)
                      \/ GrokCompacts(f)
                      \/ \E g \in Files : Resume(f, g) \/ Fork(f, g)
  \/ \E r \in Ranges : \/ Finish(r) \/ Expire(r) \/ Pick(r)
                       \/ \E f \in Files : Stat(r, f) \/ Read(r, f)
  \/ \E a \in view.asks : Answer(a)

Spec == Init /\ [][Next]_vars

----------------------------------------------------------------------------
TypeOK ==
  /\ today \in 1 .. MaxDay /\ Written <= MaxLines
  /\ \A r \in Ranges : scan[r].open \subseteq Files /\ stats[r].fresh => stats[r].has
  /\ view.of \in Ranges \cup {0}

Tokens(records) == FoldLeft(LAMBDA n, rec : n + rec.tokens, 0, records)
Kept(r, f) == SelectSeq(stats[r].records, LAMBDA rec : rec.of \in f)

(* The day a request is counted on: of its first line.                      *)
DayOf(id) == LET days == UNION {{Lines(f)[i].day : i \in {j \in DOMAIN Lines(f) : Lines(f)[j].id = id}}
                                : f \in Files}
             IN  CHOOSE d \in days : \A e \in days : d <= e
OfFile(id, S) == \E f \in S : id \in Ids(Lines(f))

(* A result counts every request of claude and codex that was on disk when   *)
(* the scan began, and each of them once.                                   *)
CountedOnce ==
  \A r \in Ranges : stats[r].has =>
    LET kept == Kept(r, ClaudeFiles \cup CodexFiles) IN
      /\ \A i, j \in DOMAIN kept : kept[i].id = kept[j].id => i = j
      /\ \A id \in stats[r].known :
           OfFile(id, ClaudeFiles \cup CodexFiles) /\ Since(r, stats[r].day) <= DayOf(id)
             => \E i \in DOMAIN kept : kept[i].id = id

(* What grok's running totals add up to, compactions included.              *)
GrokAddsUp == \A f \in GrokFiles : Tokens(GrokRecords(f, Lines(f))) = Cardinality(Ids(Lines(f)))

(* What is cached for a file as it is now is what it holds.                 *)
CacheIsCurrent ==
  \A f \in Files : cache[f] # Unread /\ cache[f].stamp = Stamp(f)
    => cache[f].records = Records(f, Lines(f))

(* Nothing is shown for a range that was asked for before another one.       *)
ShowsWhatWasPicked == view.of \in {0, view.range} \/ \E a \in view.asks : a.alive

UsageAddsUp == CountedOnce /\ GrokAddsUp /\ CacheIsCurrent /\ ShowsWhatWasPicked
=============================================================================
