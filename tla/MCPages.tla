------------------------------ MODULE MCPages -------------------------------
(* Pages in a year of two months of three and four days; a week has three. *)
EXTENDS Pages

CONSTANTS ann, org, t, twin, other, boss

TwoMonths == <<3, 4>>

\* Two participants of one name and an organizer.
Team == [u \in {twin, other, boss} |->
           IF u = boss THEN [name |-> org, role |-> "organizer"]
           ELSE [name |-> ann, role |-> "participant"]]
Symmetric == Permutations({twin, other})

\* A duty early on day 8.
EarlyRow == <<[date |-> 16, title |-> t, group |-> 0, min |-> 1, max |-> 1]>>

\* Early and late on day 8, and early on day 10, in the next month.
ThreeRows == <<[date |-> 16, title |-> t, group |-> 0, min |-> 1, max |-> 1],
               [date |-> 17, title |-> t, group |-> 0, min |-> 2, max |-> 2],
               [date |-> 20, title |-> t, group |-> 1, min |-> 1, max |-> 1]>>

OnePeriod == {[user |-> boss, from |-> 8, to |-> 9]}

Query(f, g, filter, group) ==
  [from |-> f, to |-> g, filter |-> filter, group |-> group]
SomeBoards == {Query(8, 10, "all", 0), Query(Zero, Zero, "participants", 0),
               Query(Zero, 10, "organizers", 1), Query(10, 8, "all", 0)}

View(group, status, hidePast) ==
  [group |-> group, status |-> status, hidePast |-> hidePast]
SomeViews == {View(0, "", FALSE), View(1, "under", TRUE)}

=============================================================================
