-------------------------------- MODULE Patches --------------------------------
(***************************************************************************)
(* What the windows make of a unified diff: the lines of a file to         *)
(* highlight (changedRanges.ts), the counts of added and removed lines and *)
(* the stretches to fold (DiffHunkView.tsx).                               *)
(*                                                                         *)
(* Git is external: the actions print the patch of one file, whose hunks   *)
(* have removed lines before added ones, between lines of context.  A line *)
(* is a record; what the code reads off its first characters is its sign   *)
(* and whether the text begins with the same two signs more, with a blank  *)
(* behind them or not, which makes an added line look like a "+++ " header.*)
(***************************************************************************)
EXTENDS Integers, Sequences, SequencesExt

CONSTANTS
  MaxLines,    \* bound: lines of the patch
  MaxGap,      \* bound: lines between two hunks
  Keep,        \* segmentDiffLines: lines kept at the ends of a fold, 2 in the code
  FoldAbove    \* the longest stretch that is not folded, 4 in the code

VARIABLES patch, at, truth

vars == <<patch, at, truth>>

Starts == {"text", "signs", "signs and a blank"}
Hunk(n) == [sign |-> "@", new |-> n, starts |-> "text"]
Line(s, starts) == [sign |-> s, new |-> 0, starts |-> starts]

(* truth is what git knows: each added line with its place in the new file  *)
(* and whether it replaces something, each place where something was        *)
(* removed and nothing put.                                                 *)
Init ==
  /\ patch = <<>>
  /\ at = [line |-> 1, removing |-> FALSE, adding |-> FALSE, open |-> FALSE,
           empties |-> FALSE]
  /\ truth = [added |-> {}, replaced |-> {}, removed |-> {}, dels |-> 0]

More == Len(patch) < MaxLines

NewHunk ==
  /\ More
  /\ at.open => Last(patch).sign = " "
  /\ \E gap \in 0..MaxGap :
       /\ at' = [at EXCEPT !.line = @ + gap, !.removing = FALSE, !.adding = FALSE, !.open = TRUE]
       /\ patch' = Append(patch, Hunk(at.line + gap))
  /\ UNCHANGED truth

(* The one hunk of a file that has no lines any more begins at line 0.      *)
EmptyingHunk ==
  /\ patch = <<>>
  /\ patch' = <<Hunk(0)>>
  /\ at' = [at EXCEPT !.open = TRUE, !.empties = TRUE]
  /\ UNCHANGED truth

Context ==
  /\ More /\ at.open /\ ~at.empties
  /\ patch' = Append(patch, Line(" ", "text"))
  /\ at' = [at EXCEPT !.line = @ + 1, !.removing = FALSE, !.adding = FALSE]
  /\ UNCHANGED truth

Removed ==
  /\ More /\ at.open /\ ~at.adding
  /\ \E starts \in Starts : patch' = Append(patch, Line("-", starts))
  /\ at' = [at EXCEPT !.removing = TRUE]
  /\ truth' = [truth EXCEPT !.dels = @ + 1, !.removed = @ \cup {at.line}]

Added ==
  /\ More /\ at.open /\ ~at.empties
  /\ \E starts \in Starts : patch' = Append(patch, Line("+", starts))
  /\ at' = [at EXCEPT !.line = @ + 1, !.adding = TRUE]
  /\ truth' = [truth EXCEPT !.added = @ \cup {at.line},
                            !.replaced = IF at.removing THEN @ \cup {at.line} ELSE @]

Next == NewHunk \/ EmptyingHunk \/ Context \/ Removed \/ Added
Spec == Init /\ [][Next]_vars

----------------------------------------------------------------------------
(* changedRangesFromPatch: the state of its loop, and one turn of it.       *)
NoRun == 0
Band(s) == [first |-> s.first, last |-> s.last, modified |-> s.modified]
FreshMarks ==
  [new |-> 0, first |-> NoRun, last |-> NoRun, modified |-> FALSE, deleted |-> FALSE,
   ranges |-> <<>>, gaps |-> {}]

Flushed(s) ==
  IF s.first = NoRun THEN s
  ELSE [s EXCEPT !.ranges = Append(@, Band(s)), !.first = NoRun, !.last = NoRun,
                 !.modified = FALSE]

OnHunk(s, l)  == [Flushed(s) EXCEPT !.new = l.new, !.deleted = FALSE]
OnAdded(s)    ==
  [s EXCEPT !.first = IF @ = NoRun THEN s.new ELSE @,
            !.modified = IF s.first = NoRun THEN s.deleted ELSE @,
            !.last = s.new, !.new = @ + 1]
OnRemoved(s)  ==
  [s EXCEPT !.gaps = IF s.first = NoRun THEN @ \cup {IF s.new < 1 THEN 1 ELSE s.new} ELSE @,
            !.deleted = TRUE]
OnContext(s)  == [Flushed(s) EXCEPT !.deleted = FALSE, !.new = @ + 1]

Marked(s, l) ==
  CASE l.sign = "@" -> OnHunk(s, l)
    [] s.new = 0    -> s
    [] l.sign = "+" -> OnAdded(s)
    [] l.sign = "-" -> OnRemoved(s)
    [] OTHER        -> OnContext(s)

Marks(p) == Flushed(FoldLeft(Marked, FreshMarks, p))

(* countDiffStats.  A line that looks like a header is not counted.         *)
LooksLikeHeader(l) == l.starts # "text"
Counted(p, s) == Len(SelectSeq(p, LAMBDA l : l.sign = s /\ ~LooksLikeHeader(l)))

(* parseDiffLines: those with the blank are no lines of the file for it.    *)
Kind(l) == IF l.starts = "signs and a blank" THEN "meta" ELSE l.sign
Rendered(p) == SelectSeq(p, LAMBDA l : Kind(l) # "meta")

----------------------------------------------------------------------------
(* segmentDiffLines: stretches of context and of the rest by turns, of which *)
(* a long one of context is shown at its ends only.  A segment is the places *)
(* of its lines.                                                            *)
IsContext(l) == l.sign = " "
Runs(p) ==
  FoldLeft(LAMBDA rs, i :
             IF rs # <<>> /\ IsContext(p[i]) = IsContext(p[i - 1])
             THEN ReplaceAt(rs, Len(rs), [Last(rs) EXCEPT !.to = i])
             ELSE Append(rs, [from |-> i, to |-> i]),
           <<>>, [i \in DOMAIN p |-> i])

Shown(a, b)  == IF a > b THEN <<>> ELSE <<[fold |-> FALSE, from |-> a, to |-> b]>>
Folded(a, b) == <<[fold |-> TRUE, from |-> a, to |-> b]>>

Segments(p, r) ==
  IF ~IsContext(p[r.from]) \/ r.to - r.from + 1 <= FoldAbove THEN Shown(r.from, r.to)
  ELSE Shown(r.from, r.from + Keep - 1) \o Folded(r.from + Keep, r.to - Keep)
       \o Shown(r.to - Keep + 1, r.to)

Segmented(p) == FlattenSeq([i \in DOMAIN Runs(p) |-> Segments(p, Runs(p)[i])])

----------------------------------------------------------------------------
TypeOK ==
  /\ patch \in Seq([sign : {"@", " ", "-", "+"}, new : Nat, starts : Starts])
  /\ Len(patch) <= MaxLines
  /\ at \in [line : Nat, removing : BOOLEAN, adding : BOOLEAN, open : BOOLEAN,
             empties : BOOLEAN]
  /\ truth \in [added : SUBSET Nat, replaced : SUBSET Nat, removed : SUBSET Nat, dels : Nat]

Lines(r) == r.first..r.last
Covered(rs) == UNION {Lines(rs[i]) : i \in DOMAIN rs}

(* "Which lines of a file an agent actually touched": the bands are exactly *)
(* the added lines, apart and in order, those that replace something are    *)
(* called modified, and every place where something was removed is marked,  *)
(* but in a file that was emptied, where nothing is.                        *)
MarksAreTrue ==
  LET m == Marks(patch) IN
    /\ Covered(m.ranges) = truth.added
    /\ \A i \in 1..Len(m.ranges) - 1 : m.ranges[i].last < m.ranges[i + 1].first
    /\ UNION {Lines(r) : r \in {m.ranges[i] : i \in {j \in DOMAIN m.ranges : m.ranges[j].modified}}}
         = truth.replaced
    /\ m.gaps = IF at.empties THEN {} ELSE truth.removed

(* The counts are git's, for a patch whose lines do not look like headers;  *)
(* they never exceed it.                                                    *)
Plain == \A i \in DOMAIN patch : ~LooksLikeHeader(patch[i])
AddedLines == Len(SelectSeq(patch, LAMBDA l : l.sign = "+"))
CountsAreGits ==
  /\ Counted(patch, "+") <= AddedLines /\ Counted(patch, "-") <= truth.dels
  /\ Plain => Counted(patch, "+") = AddedLines /\ Counted(patch, "-") = truth.dels

(* Unfolding everything shows every rendered line once and in order, and    *)
(* only context is ever folded.                                             *)
FoldsHideNothing ==
  LET p == Rendered(patch)
      s == Segmented(p) IN
    /\ FlattenSeq([i \in DOMAIN s |-> [j \in 1..(s[i].to - s[i].from + 1) |-> s[i].from + j - 1]])
         = [i \in DOMAIN p |-> i]
    /\ \A i \in DOMAIN s : s[i].fold => \A j \in s[i].from..s[i].to : IsContext(p[j])

PatchesAreTrue == MarksAreTrue /\ CountsAreGits /\ FoldsHideNothing
=============================================================================
