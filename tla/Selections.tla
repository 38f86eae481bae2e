----------------------------- MODULE Selections -----------------------------
(***************************************************************************)
(* Three loops that go down a list and take what still fits:               *)
(*   briefing  automation.py, BriefingService.deliver: findings, ranked,   *)
(*             under a cap on their number and one on their cost;          *)
(*   goals     planning.py, calculate_feasible_set: goals, ranked, within  *)
(*             the hours there are, those whose dependencies are met;      *)
(*   history   conversation.py, select_history_for_budget: the turns of a  *)
(*             conversation, newest first, within the model's context.     *)
(* The first two pass over what does not fit; the last stops there.        *)
(*                                                                         *)
(* An item is its rank, its cost and whether it may be taken at all; the   *)
(* ranks stand for the code's sort keys, equal ranks keep their order.  A  *)
(* message is its role and its size.                                       *)
(*                                                                         *)
(* Costs, caps and sizes are whole numbers in the code, but for the hours  *)
(* of the goals: an effort is rounded to a hundredth, the hours there are  *)
(* come out of a product and what remains out of a row of subtractions,    *)
(* all in binary floating point.  Here they are counted in hundredths and  *)
(* exactly.  The error of the floats is far below a hundredth, so it shows *)
(* only where an effort is just what remains: there the goals loop may     *)
(* take the goal or pass it over (Drifts).                                 *)
(***************************************************************************)
EXTENDS Naturals, Sequences, FiniteSets, FiniteSetsExt, SequencesExt, Lists

CONSTANTS
    MaxItems,       \* bound on the findings or goals
    MaxMessages,    \* bound on the messages
    MaxCost,        \* bound on a cost and a size
    MaxCap          \* bound on the caps

VARIABLES
    kind,           \* which of the three
    list,           \* what the loop goes down, in its order
    cap,            \* on the sum of the costs
    most,           \* on their number
    at,             \* the next place to look at
    taken           \* the places taken

selection == <<kind, list, cap, most, at, taken>>

Items == [rank : 0..1, cost : 0..MaxCost, ok : BOOLEAN]
Messages == [role : {"user", "assistant"}, size : 1..MaxCost]

TypeOK ==
    /\ kind \in {"briefing", "goals", "history"}
    /\ cap \in 0..MaxCap /\ most \in 0..(MaxItems + MaxMessages)
    /\ at \in 1..Len(list) + 1
    /\ taken \subseteq 1..Len(list)

\* Best rank first; a rank's items in the order they came.
Ranked(items) ==
    LET before == {p \in (DOMAIN items) \X (DOMAIN items) :
                     \/ items[p[1]].rank > items[p[2]].rank
                     \/ items[p[1]].rank = items[p[2]].rank /\ p[1] < p[2]}
        order == Listed(DOMAIN items, before)
    IN  [n \in DOMAIN items |-> items[order[n]]]

\* The turns of a history: a message of the user and the answer after it.
CompleteTurns(history) ==
    LET starts == {i \in 1..Len(history) - 1 : history[i].role = "user"
                                                  /\ history[i + 1].role = "assistant"}
        turns == Listed(starts, {p \in starts \X starts : p[1] < p[2]})
    IN  [n \in DOMAIN turns |->
            [ok |-> TRUE, cost |-> history[turns[n]].size + history[turns[n] + 1].size]]

Init ==
    /\ cap \in 0..MaxCap /\ at = 1 /\ taken = {}
    /\ \/ /\ kind = "briefing" /\ most \in 0..MaxItems
          /\ \E s \in BoundedSeq({i \in Items : i.ok}, MaxItems) : list = Ranked(s)
       \/ /\ kind = "goals" /\ most = MaxItems
          /\ \E s \in BoundedSeq(Items, MaxItems) : list = Ranked(s)
       \/ /\ kind = "history" /\ most = MaxMessages
          /\ \E s \in BoundedSeq(Messages, MaxMessages) : list = Reverse(CompleteTurns(s))

-----------------------------------------------------------------------------

Spent(s) == Sum([n \in DOMAIN list |-> IF n \in s THEN list[n].cost ELSE 0])

\* Taken as long as anything is left (a mutant).
FitsLoosely == list[at].ok /\ Cardinality(taken) < most /\ Spent(taken) < cap

\* Whether the item looked at is taken.
Fits == list[at].ok /\ Cardinality(taken) < most /\ Spent(taken) + list[at].cost <= cap

Take ==
    /\ at <= Len(list) /\ Fits
    /\ taken' = taken \cup {at} /\ at' = at + 1
    /\ UNCHANGED <<kind, list, cap, most>>

\* On to the next in every loop (a mutant).
PassOverAlways == at + 1

\* Where the loop goes on when an item does not fit.
PassOver == IF kind = "history" THEN Len(list) + 1 ELSE at + 1

\* Hours that come out even may compare as too few: 0.1 is above what 1.0 - 0.9
\* leaves.  A goal that needs none always fits, what remains is never negative.
Drifts ==
    /\ kind = "goals" /\ list[at].cost > 0
    /\ Spent(taken) + list[at].cost = cap

Leave ==
    /\ at <= Len(list) /\ (Fits => Drifts)
    /\ at' = PassOver
    /\ UNCHANGED <<kind, list, cap, most, taken>>

Next == Take \/ Leave

Spec == Init /\ [][Next]_selection

-----------------------------------------------------------------------------
(* What is selected, said without the loop.                                *)

Admissible(s) ==
    (\A n \in s : list[n].ok) /\ Cardinality(s) <= most /\ Spent(s) <= cap

\* s takes the better of the first items on which s and t differ.
AtLeastAsGood(s, t) == s = t \/ Min((s \ t) \cup (t \ s)) \in s

\* The floats cannot get in the way of s: it leaves hours over, or needs none.
Unmistaken(s) == kind = "goals" => Spent(s) < cap \/ Spent(s) = 0

(* What a briefing delivers is the best admissible selection by rank.  So  *)
(* are the goals that fit, among those selections that do not use up the   *)
(* hours to the last hundredth: of those that do, the code may miss the    *)
(* best, though what it takes is within the hours.  The history sent is    *)
(* the longest run of the most recent complete turns that fits, with no    *)
(* gap and no half turn (deliver, calculate_feasible_set,                  *)
(* select_history_for_budget).                                             *)
SelectsTheBest ==
    at = Len(list) + 1 =>
       IF kind = "history"
       THEN \E k \in 0..Len(list) :
               /\ taken = 1..k /\ Admissible(1..k)
               /\ \A j \in k + 1..Len(list) : ~Admissible(1..j)
       ELSE /\ Admissible(taken)
            /\ \A t \in SUBSET (1..Len(list)) :
                  Admissible(t) /\ Unmistaken(t) => AtLeastAsGood(taken, t)
=============================================================================
