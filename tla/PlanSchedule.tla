---------------------------- MODULE PlanSchedule ----------------------------
(***************************************************************************)
(* allocatePlanTimeline: the windows of a plan's sequences laid out in     *)
(* lanes, each in the first lane that is free when it starts.              *)
(***************************************************************************)
EXTENDS FiniteSets, Integers, Sequences, SequencesExt

CONSTANTS
  Count,  \* sequences of the plan
  Times   \* moments a window starts or ends at; the zero is an unparsed text

VARIABLE windows  \* the draft's windows, per sequence in plan order

PlanScheduleOK == Count \in Nat /\ Times \subseteq Nat

Indexes == 1 .. Count

Init == windows \in [Indexes -> [starts : Times, ends : Times]]

\* A person moves a window in the draft.
Retime(i) ==
  \E w \in [starts : Times, ends : Times] :
    windows' = [windows EXCEPT ![i] = w]

Next == \E i \in Indexes : Retime(i)

\* A text that is no date starts at the sequence's index, long before every
\* date, and an end that is none, or not after the start, just after it.
Span(i) ==
  LET start == IF windows[i].starts = 0 THEN i - Count - 1
               ELSE windows[i].starts
  IN [start |-> start,
      end |-> IF windows[i].ends > start /\ windows[i].ends # 0
              THEN windows[i].ends ELSE start + 1]

\* Mutant: the windows are placed in the order of the plan.
BeforeAsListed(i, j) == i < j

Before(i, j) ==
  LET a == Span(i)  b == Span(j)
  IN \/ a.start < b.start
     \/ a.start = b.start /\ a.end < b.end
     \/ a = b /\ i < j

\* Lanes in the order they were opened, as the end of their last interval.
Place(lanes, i) ==
  LET free == {l \in DOMAIN lanes.ends : lanes.ends[l] <= Span(i).start}
      lane == IF free = {} THEN Len(lanes.ends) + 1
              ELSE CHOOSE l \in free : \A k \in free : l <= k
  IN [ends |-> IF free = {} THEN Append(lanes.ends, Span(i).end)
               ELSE [lanes.ends EXCEPT ![lane] = Span(i).end],
      of |-> [lanes.of EXCEPT ![i] = lane]]

Timeline ==
  FoldLeft(Place, [ends |-> <<>>, of |-> [i \in Indexes |-> 0]],
           SetToSortSeq(Indexes, Before))

\* No two sequences of a lane overlap, and there are as many lanes as
\* sequences that overlap at one moment: none is hidden and none wasted.
Overlapping(at) ==
  {i \in Indexes : Span(i).start <= at /\ at < Span(i).end}

LanesAreRight ==
  LET timeline == Timeline
  IN /\ \A i, j \in Indexes :
          i # j /\ timeline.of[i] = timeline.of[j] =>
            \/ Span(i).end <= Span(j).start
            \/ Span(j).end <= Span(i).start
     /\ \A i \in Indexes : timeline.of[i] \in DOMAIN timeline.ends
     /\ \E i \in Indexes :
          Cardinality(Overlapping(Span(i).start)) = Len(timeline.ends)
     /\ \A i \in Indexes :
          Cardinality(Overlapping(Span(i).start)) <= Len(timeline.ends)
=============================================================================
