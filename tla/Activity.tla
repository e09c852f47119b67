------------------------------- MODULE Activity -------------------------------
(***************************************************************************)
(* The activity on the profile page: turns and messages by calendar day,   *)
(* streaks, the share of each agent (store/activity.ts, activityStats of   *)
(* store/log.ts), and the grids and the card that are drawn from them      *)
(* (ActivityHeatmap.tsx, ShareActivityDialog.tsx, shareActivity.ts).       *)
(* Everything is computed from the log when it is asked for, from the      *)
(* last RangeDays days or from all of it.  truth keeps the streak the other    *)
(* way: day by day, as the days pass.                                      *)
(***************************************************************************)
EXTENDS Integers, FiniteSets, Sequences, SequencesExt, FiniteSetsExt

CONSTANTS
  Agents,
  RangeDays,        \* ACTIVITY_RANGE_DAYS
  Week,         \* the days of a week: 7
  ShareWeeks,   \* the weeks the card shows: 22
  First,        \* the weekday of day 0
  MaxDay, MaxTurns   \* bounds: days, turns

VARIABLES
  today,
  turns,        \* turn.started events: day and agent
  messages,     \* messages of the user, by day
  truth

vars == <<today, turns, messages, truth>>

Days == 0..MaxDay
None == [d \in Days |-> 0]

Init ==
  /\ today = 0
  /\ turns = [d \in Days |-> [a \in Agents |-> 0]]
  /\ messages = None
  /\ truth = 0

Least(a, b) == IF a < b THEN a ELSE b
Most(a, b)  == IF a > b THEN a ELSE b
Total(f) == FoldSeq(LAMBDA x, y : x + y, 0, f)
AllOf(d) == MapThenSumSet(LAMBDA a : turns[d][a], Agents)
AllTurns == MapThenSumSet(AllOf, Days)

(* turn.started, today.                                                     *)
Starts(a) ==
  /\ AllTurns < MaxTurns
  /\ turns' = [turns EXCEPT ![today][a] = @ + 1]
  /\ truth' = IF AllOf(today) = 0 THEN truth + 1 ELSE truth

Written == messages' = [messages EXCEPT ![today] = @ + 1]

(* sendTurn, and startQueuedTurn when a queued message is started: the turn *)
(* and its message are committed together, on that day.                     *)
Send(a) == Starts(a) /\ Written /\ UNCHANGED today

Midnight ==
  /\ today < MaxDay
  /\ today' = today + 1
  /\ truth' = IF AllOf(today) = 0 THEN 0 ELSE truth
  /\ UNCHANGED <<turns, messages>>

Next == (\E a \in Agents : Send(a)) \/ Midnight

Spec == Init /\ [][Next]_vars

----------------------------------------------------------------------------
(* buildDaySeries: the days up to today, those without a row included.      *)
FirstDay == today - RangeDays + 1
TurnsByDay == [d \in Days |-> AllOf(d)]
Hit(rows, d) == IF d \in Days THEN rows[d] ELSE 0
Series ==
  [i \in 1..RangeDays |->
     LET d == today - RangeDays + i IN
       [day |-> d, turns |-> Hit(TurnsByDay, d), messages |-> Hit(messages, d)]]

Active == LET days == Series IN {days[i].day : i \in {j \in 1..RangeDays : days[j].turns > 0}}

(* computeStreaks: the longest, over the sorted days.                       *)
Sorted(days) == SelectSeq([i \in 1..RangeDays |-> FirstDay + i - 1], LAMBDA d : d \in days)
LongestStreak(days) ==
  LET sorted == Sorted(days)
      Grown(s, i) ==
        LET run == IF sorted[i - 1] + 1 = sorted[i] THEN s.run + 1 ELSE 1 IN
          [run |-> run, best |-> Most(run, s.best)] IN
    IF days = {} THEN 0
    ELSE FoldLeft(Grown, [run |-> 1, best |-> 1], [i \in 1..Len(sorted) - 1 |-> i + 1]).best

(* The current one: back from today, or from yesterday while today is empty. *)
Anchor(days) == IF today \in days THEN today ELSE today - 1
CurrentStreak(days) ==
  LET Back[d \in today - RangeDays - 1..today] == IF d \in days THEN 1 + Back[d - 1] ELSE 0 IN
    Back[Anchor(days)]

(* activityStats: agents over the whole log, totals over the range.         *)
Share(a)      == MapThenSumSet(LAMBDA d : turns[d][a], Days)
TurnTotal(days)    == Total([i \in 1..RangeDays |-> days[i].turns])
MessageTotal(days) == Total([i \in 1..RangeDays |-> days[i].messages])
PeakDay(days)      == FoldSeq(Most, 0, [i \in 1..RangeDays |-> days[i].turns])

(* The grid: a cell per day, empty ones up to the weekday of the first, in  *)
(* columns of a week; the card shows the last of them.                      *)
NoDay == MaxDay + 1
Weekday(d) == (First + d) % Week
Pad  == Weekday(FirstDay)
Cell == [i \in 1..Pad + RangeDays |-> IF i <= Pad THEN NoDay ELSE FirstDay + i - Pad - 1]
Columns ==
  LET cells == Cell IN
    [w \in 1..(Len(cells) + Week - 1) \div Week |->
       SubSeq(cells, (w - 1) * Week + 1, Least(w * Week, Len(cells)))]
CardColumns(grid) == SubSeq(grid, Most(Len(grid) - ShareWeeks + 1, 1), Len(grid))

----------------------------------------------------------------------------
TypeOK ==
  /\ today \in Days
  /\ turns \in [Days -> [Agents -> 0..MaxTurns]]
  /\ messages \in [Days -> 0..MaxTurns]
  /\ truth \in 0..MaxDay + 1

(* The streak computed from the log is the one kept day by day, up to the   *)
(* days there are to count: one fewer while today is still empty.           *)
StreakIsTrue ==
  LET days == Active
      best == LongestStreak(days)
      now  == CurrentStreak(days) IN
    /\ now = Least(truth, IF today \in days THEN RangeDays ELSE RangeDays - 1)
    /\ best >= now
    /\ \A a, b \in days : a..b \subseteq days => b - a + 1 <= best
    /\ days # {} => \E a \in days : a..a + best - 1 \subseteq days

(* Agents and totals count the same turns as long as none is older than the *)
(* range, which "lifetime turns" on the card relies on; every turn has one  *)
(* message of the user.                                                     *)
Recent == \A d \in Days : d > today - RangeDays \/ (AllOf(d) = 0 /\ messages[d] = 0)
SharesAddUp ==
  Recent => LET days == Series IN
              /\ MapThenSumSet(Share, Agents) = TurnTotal(days)
              /\ MessageTotal(days) = TurnTotal(days)
              /\ PeakDay(days) <= TurnTotal(days)

(* Every day has one cell, in the row of its weekday, and today is on the   *)
(* card.                                                                    *)
Drawn(cols, d) == {c \in (DOMAIN cols) \X (1..Week) :
                     c[2] \in DOMAIN cols[c[1]] /\ cols[c[1]][c[2]] = d}
GridIsTrue ==
  LET grid == Columns
      card == CardColumns(grid) IN
    /\ \A d \in FirstDay..today :
         LET cells == Drawn(grid, d) IN
           Cardinality(cells) = 1 /\ \A c \in cells : c[2] = Weekday(d) + 1
    /\ Drawn(card, today) # {}

ActivityIsTrue == StreakIsTrue /\ SharesAddUp /\ GridIsTrue
=============================================================================
