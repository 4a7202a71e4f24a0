--------------------------- MODULE LastBlockDaily ----------------------------
(***************************************************************************)
(* LastBlockResolver of lib/lastblockdaily: the last block of a day, found *)
(* by stepping to a block of the next day and then searching between a     *)
(* known block and that one.                                               *)
(*                                                                         *)
(* A block's timestamp is abstracted to its UTC day; every day has more    *)
(* than BlockStep blocks, as the constant's comment assumes.  The estimate *)
(* of the gap (avgBlockTime) may be any number.                            *)
(***************************************************************************)
EXTENDS Integers

CONSTANTS
    MaxBlock,
    DaysOf,         \* the chains: functions from blocks to days
    BlockStep,
    MaxEstimate     \* bound on the estimated gap

VARIABLES
    dayOf,          \* the chain; block 1 is firstBlock
    tip,            \* its latest block
    call,           \* "none", "Next" or "Resolve"
    current,        \* the day whose last block is looked for
    phase,          \* "probe" (nextDayBlock) or "search" (searchLastBlock)
    start, end,     \* the blocks between which it is searched; end is also `next`
    LastResolved,   \* a block, 0 if none
    blockInfo       \* the table: blocks

chainVars == <<dayOf, tip>>
lbdVars == <<chainVars, call, current, phase, start, end, LastResolved, blockInfo>>

Blocks == 1 .. MaxBlock

Init ==
    /\ dayOf \in DaysOf
    /\ tip = 1
    /\ call = "none" /\ current = 0 /\ phase = "probe" /\ start = 0 /\ end = 0
    /\ LastResolved = 0
    /\ blockInfo = {}

Mine ==
    /\ tip < MaxBlock
    /\ tip' = tip + 1
    /\ UNCHANGED <<dayOf, call, current, phase, start, end, LastResolved, blockInfo>>

(* The blocks stored for a day.                                            *)
GetBlockInfo(day) == {b \in blockInfo : dayOf[b] = day}

(* nextDayBlock with a known block, from its estimate on.                  *)
StartProbing(name, known, day) ==
    /\ call' = name
    /\ current' = day
    /\ phase' = "probe"
    /\ start' = known
    /\ \E estimated \in 0 .. MaxEstimate : end' = known + estimated
    /\ UNCHANGED <<chainVars, LastResolved, blockInfo>>

Found(b) ==
    /\ LastResolved' = b
    /\ UNCHANGED <<chainVars, call, current, phase, start, end, blockInfo>>

(* Resolve(date), the date being the moment of block b.                    *)
Resolve(b) ==
    /\ call = "none"
    /\ b <= tip
    /\ \/ \E stored \in GetBlockInfo(dayOf[b]) : Found(stored)
       \/ /\ GetBlockInfo(dayOf[b]) = {}
          /\ StartProbing("Resolve", IF LastResolved > 1 /\ LastResolved < b THEN LastResolved ELSE 1, dayOf[b])

(* Variant: the search starts at the resolved block itself.                *)
NextFromResolved ==
    /\ call = "none"
    /\ LastResolved # 0
    /\ \/ \E stored \in GetBlockInfo(dayOf[LastResolved] + 1) : Found(stored)
       \/ /\ GetBlockInfo(dayOf[LastResolved] + 1) = {}
          /\ StartProbing("Next", LastResolved, dayOf[LastResolved])

(* Next(): the day after the one resolved last, from the table or else     *)
(* from the chain, if it has begun.                                        *)
Next_ ==
    /\ call = "none"
    /\ LastResolved # 0
    /\ \/ \E stored \in GetBlockInfo(dayOf[LastResolved] + 1) : Found(stored)
       \/ /\ GetBlockInfo(dayOf[LastResolved] + 1) = {}
          /\ LastResolved + 1 <= tip
          /\ StartProbing("Next", LastResolved + 1, dayOf[LastResolved + 1])

(* Variant: a step may be longer than a day.                               *)
ProbeFar ==
    /\ call # "none" /\ phase = "probe" /\ end <= tip
    /\ \/ /\ dayOf[end] <= current
          /\ end' = end + 2 * BlockStep
          /\ phase' = phase
       \/ /\ dayOf[end] = current + 1
          /\ phase' = "search"
          /\ end' = end
       \/ /\ dayOf[end] > current + 1
          /\ end' = end - 2 * BlockStep
          /\ phase' = phase
    /\ UNCHANGED <<chainVars, call, current, start, LastResolved, blockInfo>>

(* One round of nextDayBlock's loop.                                       *)
Probe ==
    /\ call # "none" /\ phase = "probe" /\ end <= tip
    /\ \/ /\ dayOf[end] <= current
          /\ end' = end + BlockStep
          /\ phase' = phase
       \/ /\ dayOf[end] = current + 1
          /\ phase' = "search"
          /\ end' = end
       \/ /\ dayOf[end] > current + 1
          /\ end' = end - BlockStep
          /\ phase' = phase
    /\ UNCHANGED <<chainVars, call, current, start, LastResolved, blockInfo>>

(* Variant: the block in the middle is dropped from the lower half.        *)
SearchBelowMiddle ==
    /\ call # "none" /\ phase = "search" /\ end - start > 1
    /\ LET mid == (start + end) \div 2 IN
       IF dayOf[mid] = dayOf[end]
       THEN end' = mid - 1 /\ start' = start
       ELSE start' = mid /\ end' = end
    /\ UNCHANGED <<chainVars, call, current, phase, LastResolved, blockInfo>>

(* One call of searchLastBlock: the middle replaces the end of its day.    *)
Search ==
    /\ call # "none" /\ phase = "search" /\ end - start > 1
    /\ LET mid == (start + end) \div 2 IN
       IF dayOf[mid] = dayOf[end]
       THEN end' = mid /\ start' = start
       ELSE start' = mid /\ end' = end
    /\ UNCHANGED <<chainVars, call, current, phase, LastResolved, blockInfo>>

(* The search is over and its block is stored, unless the storage fails.   *)
Store ==
    /\ call # "none" /\ phase = "search" /\ end - start <= 1
    /\ blockInfo' = blockInfo \cup {start}
    /\ LastResolved' = start
    /\ call' = "none"
    /\ UNCHANGED <<chainVars, current, phase, start, end>>

(* The block is not mined yet (ethereum.NotFound), or the node or the      *)
(* storage fails.                                                          *)
Fails ==
    /\ call # "none"
    /\ call' = "none"
    /\ UNCHANGED <<chainVars, current, phase, start, end, LastResolved, blockInfo>>

NotMined == phase = "probe" /\ end > tip /\ Fails

Step == Probe \/ Search \/ Store \/ NotMined

Next ==
    \/ Mine
    \/ \E b \in Blocks : Resolve(b)
    \/ Next_
    \/ Step
    \/ Fails

-----------------------------------------------------------------------------
(* Every variable has its type; a search is always between two blocks of   *)
(* the chain.                                                              *)
TypeOK ==
    /\ dayOf \in DaysOf /\ tip \in Blocks
    /\ call \in {"none", "Next", "Resolve"}
    /\ phase \in {"probe", "search"}
    /\ LastResolved \in 0 .. MaxBlock
    /\ call # "none" => start \in 1 .. tip /\ end \in Nat \ {0}
    /\ call # "none" /\ phase = "search" => end <= tip
    /\ blockInfo \subseteq Blocks

(* Whatever is estimated and however the chain grows meanwhile, only last  *)
(* blocks of their days are stored, and only of days that are over.        *)
OnlyLastBlocks ==
    \A b \in blockInfo : b < tip /\ dayOf[b + 1] = dayOf[b] + 1

(* Next never skips a day and never stays on one.                          *)
NextIsNextDay ==
    [][call = "Next" /\ Store => dayOf[LastResolved'] = dayOf[LastResolved] + 1]_lbdVars

(* No call is at work: the loop of nextDayBlock, which steps forwards and  *)
(* backwards, and the search between the two blocks have ended.            *)
CallHasEnded == call = "none"
=============================================================================
