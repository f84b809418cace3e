------------------------------ MODULE MergeLoop ------------------------------
(***************************************************************************)
(* The block list of connection_push (src/network/connection.c) as the     *)
(* code manipulates it: a list sorted by offset, one insertion, and a walk *)
(* over the list that combines neighbours, begun again until it has        *)
(* combined nothing.  The walk is taken block by block.  PushBlock of      *)
(* module Connection gives the result of a push without the loops.         *)
(***************************************************************************)
EXTENDS Connection, SequencesExt

CONSTANT MaxEnd     \* bound: no segment ends after this offset

ASSUME MergeLoopAssumption == MaxEnd \in Nat

Segment == {s \in [off : 0 .. (MaxEnd - 1), len : 1 .. MaxEnd] :
                s.off + s.len <= MaxEnd}

VARIABLES list,    \* c->blocks, in list order
          pc,      \* "rest", or "combine" within the do loop
          b,       \* place of `b' in the list
          a,       \* has this walk combined blocks?
          before,  \* history: the list before the push
          seg      \* history: the segment pushed

vars == <<list, pc, b, a, before, seg>>

NoSegment == [off |-> 0, len |-> 0]

-----------------------------------------------------------------------------
\* Mutant of Place: < for <=, a block goes behind one with the same offset.
Place_BehindEqual(l, off, k) ==
    /\ k <= Len(l) => off < l[k].off
    /\ k > 1 => off >= l[k - 1].off

\* Where the insertion stops: the predecessor lies before `off', the occupant
\* does not.
Place(l, off, k) ==
    /\ k <= Len(l) => off <= l[k].off
    /\ k > 1 => off > l[k - 1].off

Init ==
    /\ list = <<>> /\ pc = "rest"
    /\ b = 1 /\ a = FALSE
    /\ before = <<>> /\ seg = NoSegment

\* connection_push up to the do loop: the new block is put in the list.
Push(s) ==
    /\ pc = "rest"
    /\ \E k \in 1 .. (Len(list) + 1) :
        /\ Place(list, s.off, k)
        /\ \A j \in 1 .. (k - 1) : ~Place(list, s.off, j)
        /\ list' = InsertAt(list, k, NewBlock(s.off, s.len))
    /\ pc' = "combine" /\ b' = 1 /\ a' = FALSE
    /\ before' = list /\ seg' = s

Touching == b < Len(list) /\ End(list[b]) >= list[b + 1].off

\* The block takes in its successor, and is not compared again in this walk.
CombineTwo ==
    /\ pc = "combine" /\ Touching
    /\ list' = RemoveAt([list EXCEPT ![b] = Combine(list[b], list[b + 1])], b + 1)
    /\ a' = TRUE
    /\ b' = b + 1
    /\ UNCHANGED <<pc, before, seg>>

NextBlock ==
    /\ pc = "combine" /\ b <= Len(list) /\ ~Touching
    /\ b' = b + 1
    /\ UNCHANGED <<list, pc, a, before, seg>>

AtRest == pc' = "rest" /\ b' = 1 /\ a' = FALSE /\ before' = <<>> /\ seg' = NoSegment

\* Mutant of WalkAgain: one walk only.
WalkAgain_Once ==
    /\ pc = "combine" /\ b > Len(list) /\ a
    /\ AtRest
    /\ UNCHANGED list

\* while (a): again from the first block ...
WalkAgain ==
    /\ pc = "combine" /\ b > Len(list) /\ a
    /\ b' = 1 /\ a' = FALSE
    /\ UNCHANGED <<list, pc, before, seg>>

\* ... until a walk has combined nothing.
WalkDone ==
    /\ pc = "combine" /\ b > Len(list) /\ ~a
    /\ AtRest
    /\ UNCHANGED list

\* extract_media in between: every dirty block is searched up to some point and
\* is clean afterwards.
Search ==
    /\ pc = "rest"
    /\ \E i \in DOMAIN list : list[i].dirty
    /\ \E upto \in [DOMAIN list -> 0 .. MaxEnd] :
        /\ \A i \in DOMAIN list : /\ upto[i] <= list[i].len \/ upto[i] = list[i].moff
                                  /\ upto[i] >= list[i].moff
                                  /\ ~list[i].dirty => upto[i] = list[i].moff
        /\ list' = [i \in DOMAIN list |-> IF list[i].dirty THEN Searched(list[i], upto[i])
                                          ELSE list[i]]
    /\ UNCHANGED <<pc, b, a, before, seg>>

Next == (\E s \in Segment : Push(s)) \/ CombineTwo \/ NextBlock \/ WalkAgain \/ WalkDone \/ Search

Spec == Init /\ [][Next]_vars

-----------------------------------------------------------------------------
\* The loops of connection_push compute exactly what PushBlock states, whatever
\* segment arrives in whatever state of the list.
LoopIsPushBlock ==
    pc = "combine" /\ b > Len(list) /\ ~a =>
        ToSet(list) = PushBlock(ToSet(before), seg.off, seg.len)

\* Between pushes the list is sorted and separated, so that the set of its blocks
\* determines it: the insertion relies on the order, the search on the gaps.
ListSorted ==
    pc = "rest" => \A i \in 1 .. (Len(list) - 1) : End(list[i]) < list[i + 1].off

-----------------------------------------------------------------------------
(* The inductive invariant: the loops combine the new block with the one on  *)
(* its left, with the one on its right, or with both in this order, and      *)
(* nothing else; a walk that has it before it does what is left to do.       *)

Apart(l) == \A i, j \in DOMAIN l : i < j => End(l[i]) < l[j].off

Fresh == NewBlock(seg.off, seg.len)

\* The block pushed to place k runs into its neighbours.
OnLeft(k)  == k > 1 /\ seg.off <= End(before[k - 1])
OnRight(k) == k <= Len(before) /\ before[k].off <= seg.off + seg.len

Inserted(k) ==
    /\ list = InsertAt(before, k, Fresh) /\ ~a
    /\ OnLeft(k) => b <= k - 1
    /\ OnRight(k) /\ ~OnLeft(k) => b <= k

JoinedLeft(k) ==
    /\ OnLeft(k)
    /\ list = [before EXCEPT ![k - 1] = Combine(@, Fresh)]
    /\ OnRight(k) => a \/ b <= k - 1

JoinedRight(k) ==
    /\ ~OnLeft(k) /\ OnRight(k)
    /\ list = [before EXCEPT ![k] = Combine(Fresh, @)]

JoinedBoth(k) ==
    /\ OnLeft(k) /\ OnRight(k)
    /\ list = RemoveAt([before EXCEPT ![k - 1] = Combine(Combine(@, Fresh), before[k])], k)

Pushed(k) ==
    /\ Place(before, seg.off, k)
    /\ Inserted(k) \/ JoinedLeft(k) \/ JoinedRight(k) \/ JoinedBoth(k)

MergeInv ==
    /\ list \in Seq(Block) /\ pc \in {"rest", "combine"} /\ b \in Nat \ {0} /\ a \in BOOLEAN
    /\ pc = "rest" => Apart(list)
    /\ pc = "combine" => /\ before \in Seq(Block) /\ Apart(before) /\ seg \in Segment
                         /\ \E k \in 1 .. (Len(before) + 1) : Pushed(k)
=============================================================================
