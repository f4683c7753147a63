--------------------------- MODULE JusticeWindow ---------------------------
(***************************************************************************)
(* What the block_added scan of quorum_cop promises about the heights it   *)
(* judges, without candidates, registries or votes: the chain has a tip,   *)
(* and a cursor "next" marks the first height not yet judged.              *)
(*                                                                         *)
(*  - heights are passed one at a time and in increasing order;            *)
(*  - a height is passed only once it is REORG_SAFETY_BUFFER_IN_BLOCKS     *)
(*    below the newest block (final) and while it is within                *)
(*    VOTE_LIFETIME_BY_HEIGHT of the tip (a vote for it is still valid);   *)
(*  - a new block may move the cursor forward, never past the old tip;     *)
(*  - the cursor goes back only when the chain is cut below it, to the cut,*)
(*    or when the process forgets everything (restart).                    *)
(*                                                                         *)
(* The constants are naturals, REORG_SAFETY_BUFFER_IN_BLOCKS below         *)
(* VOTE_LIFETIME_BY_HEIGHT.                                                *)
(***************************************************************************)
EXTENDS Naturals

CONSTANTS
    REORG_SAFETY_BUFFER_IN_BLOCKS,
    VOTE_LIFETIME_BY_HEIGHT,
    MaxHeight       \* bound on the chain height, for model checking

VARIABLES
    tip,            \* the number of blocks of the chain
    next            \* the first height not yet judged

windowVars == <<tip, next>>

Init == tip = 0 /\ next = 0

\* A block is appended; the cursor may skip forward to any height up to the
\* old tip (heights whose votes would already be expired).
Append ==
    /\ tip < MaxHeight
    /\ tip' = tip + 1
    /\ next' \in next .. tip

\* The height next is judged (or found to need no judgement) and passed.
\* The newest block has height tip - 1.
Pass ==
    /\ next < tip - 1 - REORG_SAFETY_BUFFER_IN_BLOCKS
    /\ next + VOTE_LIFETIME_BY_HEIGHT >= tip
    /\ next' = next + 1
    /\ UNCHANGED tip

\* The chain is cut back to d blocks.
Cut(d) ==
    /\ d < tip
    /\ tip' = d
    /\ next' = IF next >= d THEN d ELSE next

\* Everything judged is forgotten.
Forget ==
    /\ next' = 0
    /\ UNCHANGED tip

Next == Append \/ Pass \/ (\E d \in 0 .. MaxHeight : Cut(d)) \/ Forget

Spec == Init /\ [][Next]_windowVars

=============================================================================
