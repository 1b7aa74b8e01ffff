----------------------------- MODULE MCLeaderboard -----------------------------
(* Constants for the model checker. *)
EXTENDS Leaderboard

\* Two of the same effort, so that totals can tie.
MediumOnes == [c \in Chores |-> 25]

\* A Sunday; the next day is the last of its month.
TwoBoundaries == <<2016, 2, 28>>

\* Series that have begun lately, and monthly ones that began last year.
SomeSeries ==
    [first : {<<2016, 1, 29>>, <<2016, 2, 20>>, <<2016, 3, 3>>},
     rule  : [unit : {"days"}, n : {2, 3}] \cup [unit : {"weeks", "months"}, n : {1, 2}]]
    \cup
    [first : {<<2015, 2, 28>>, <<2015, 10, 31>>, <<2015, 12, 30>>},
     rule  : [unit : {"months"}, n : {1, 2, 3}]]
=============================================================================
