---------------------------- MODULE ReserveRates -----------------------------
(***************************************************************************)
(* The reserve rates crawler: it fetches the rates of every block and      *)
(* stores them in Postgres as groups, a row per pair and run of blocks     *)
(* with the same rate, [from_block, to_block).  Each round starts from     *)
(* what LastBlock finds in the table.                                      *)
(*                                                                         *)
(* The pool of reserverates/workers is that of WorkerPool: the blocks of a *)
(* round are stored one at a time and in order, which is all that is left  *)
(* of it here.                                                             *)
(***************************************************************************)
EXTENDS Integers, FiniteSets, FiniteSetsExt

CONSTANTS
    Pairs,          \* token pairs, each of a reserve of its own
    Rates,
    MaxHead,        \* bound: the chain grows up to this block
    FirstHead,      \* the head when the crawler is first started
    Flags,          \* the command lines: [from, to], --from-block and --to-block or Unset
    MaxCrashes,     \* bound on the number of crashes
    MaxSkips,       \* bound on the fetches that find no supported tokens
    Unset

Blocks == 1 .. MaxHead

ASSUME RatesAssumption ==
    /\ IsFiniteSet(Pairs)
    /\ MaxHead \in Nat /\ FirstHead \in Blocks
    /\ \A f \in Flags : f.from \in Blocks \cup {Unset} /\ f.to \in (1 .. (FirstHead + 1)) \cup {Unset}
    /\ MaxCrashes \in Nat /\ MaxSkips \in Nat

VARIABLES
    rateAt,     \* rateAt[p][b]: the rate of the contracts
    head,
    flags,      \* the command line, the same at every restart
    proc,       \* "idle" (between rounds), "crawling" or "completed"
    fresh,      \* no round since the process was started
    to,         \* toBlock of the round
    next,       \* the block to store next
    rows,       \* the table: [pair, rate, from, to], key (pair, from)
    crashes, skips

chainVars == <<rateAt, head>>
vars == <<chainVars, flags, proc, fresh, to, next, rows, crashes, skips>>

Init ==
    /\ rateAt \in [Pairs -> [Blocks -> Rates]]
    /\ head = FirstHead
    /\ flags \in Flags
    /\ proc = "idle"
    /\ fresh = TRUE
    /\ to = 0
    /\ next = 0
    /\ rows = {}
    /\ crashes = 0
    /\ skips = 0

Mine ==
    /\ head < MaxHead
    /\ head' = head + 1
    /\ UNCHANGED <<rateAt, flags, proc, fresh, to, next, rows, crashes, skips>>

(* ORDER BY timestamp DESC LIMIT 1, where timestamp is that of from_block: *)
(* any of the newest rows; 0 when there is none.                           *)
LastBlocks ==
    IF rows = {} THEN {0}
    ELSE {r.to : r \in {q \in rows : q.from = Max({s.from : s \in rows})}}

(* Variant: resume after the last block.                                   *)
ResumeAfter(last) == IF last = 0 THEN head ELSE last + 1

ResumeFrom(last) == IF last = 0 THEN head ELSE last

(* A round: from --from-block, at the first round of a process, or else    *)
(* the last block in the table; up to --to-block or else the head.         *)
StartRound ==
    /\ proc = "idle"
    /\ \E last \in LastBlocks :
          next' = IF fresh /\ flags.from # Unset THEN flags.from ELSE ResumeFrom(last)
    /\ to' = IF flags.to # Unset THEN flags.to ELSE head + 1
    /\ proc' = "crawling"
    /\ UNCHANGED <<chainVars, flags, fresh, rows, crashes, skips>>

(* The newest row of a pair, as a set.                                     *)
LastRate(p) == {r \in rows : r.pair = p /\ \A q \in rows : q.pair = p => q.from <= r.from}

(* Variant: a group goes on although the rate changed.                     *)
GroupOfAnyRate(p, b) ==
    IF LastRate(p) # {}
    THEN LET last == CHOOSE r \in LastRate(p) : TRUE IN [from |-> last.from, to |-> last.to + 1]
    ELSE [from |-> b, to |-> b + 1]

(* Variant: a new group starts where the last one ended.                   *)
GroupFromLast(p, b) ==
    LET same == {r \in LastRate(p) : r.rate = rateAt[p][b]} IN
    IF same # {}
    THEN LET last == CHOOSE r \in same : TRUE IN [from |-> last.from, to |-> last.to + 1]
    ELSE IF LastRate(p) # {}
    THEN [from |-> (CHOOSE r \in LastRate(p) : TRUE).to, to |-> b + 1]
    ELSE [from |-> b, to |-> b + 1]

(* Variant: a new group ends at its first block.                           *)
GroupToItself(p, b) ==
    LET same == {r \in LastRate(p) : r.rate = rateAt[p][b]} IN
    IF same # {}
    THEN LET last == CHOOSE r \in same : TRUE IN [from |-> last.from, to |-> last.to + 1]
    ELSE [from |-> b, to |-> b]

(* The same rate as in the last row makes that row a block longer, any     *)
(* other starts a row.                                                     *)
Group(p, b) ==
    LET same == {r \in LastRate(p) : r.rate = rateAt[p][b]} IN
    IF same # {}
    THEN LET last == CHOOSE r \in same : TRUE IN [from |-> last.from, to |-> last.to + 1]
    ELSE [from |-> b, to |-> b + 1]

(* INSERT ... ON CONFLICT (reserve, pair, from_block) DO UPDATE: a row     *)
(* that is there gets the to_block and keeps its rate.                     *)
Upsert(ps, b) ==
    LET key(p) == [pair |-> p, from |-> Group(p, b).from]
        present(p) == {r \in rows : r.pair = p /\ r.from = key(p).from}
        rate(p) == IF present(p) = {} THEN rateAt[p][b] ELSE (CHOOSE r \in present(p) : TRUE).rate
    IN  (rows \ UNION {present(p) : p \in ps})
        \cup {[pair |-> p, rate |-> rate(p), from |-> key(p).from, to |-> Group(p, b).to] : p \in ps}

(* UpdateRatesRecords(block): the pairs whose supported tokens cannot be   *)
(* fetched are skipped.                                                    *)
UpdateRatesRecords(skipped) ==
    /\ proc = "crawling"
    /\ next < to
    /\ skips + Cardinality(skipped) <= MaxSkips
    /\ rows' = Upsert(Pairs \ skipped, next)
    /\ next' = next + 1
    /\ skips' = skips + Cardinality(skipped)
    /\ UNCHANGED <<chainVars, flags, proc, fresh, to, crashes>>

(* The pool has shut down: the daemon sleeps and starts over, anything     *)
(* else ends.                                                              *)
EndRound ==
    /\ proc = "crawling"
    /\ next >= to
    /\ proc' = IF flags.to = Unset THEN "idle" ELSE "completed"
    /\ fresh' = FALSE
    /\ UNCHANGED <<chainVars, flags, to, next, rows, crashes, skips>>

(* A failed job is fatal, and the process may be killed; it is restarted.  *)
Crash ==
    /\ proc = "crawling"
    /\ crashes < MaxCrashes
    /\ proc' = "idle"
    /\ fresh' = TRUE
    /\ crashes' = crashes + 1
    /\ UNCHANGED <<chainVars, flags, to, next, rows, skips>>

Completed == proc = "completed" /\ UNCHANGED vars

Process ==
    \/ StartRound
    \/ \E skipped \in SUBSET Pairs : UpdateRatesRecords(skipped)
    \/ EndRound

Next == Mine \/ Process \/ Crash \/ Completed

Fairness == WF_vars(Mine) /\ WF_vars(Process)

Spec == Init /\ [][Next]_vars /\ Fairness

-----------------------------------------------------------------------------
(* The daemon, when no fetch was skipped.                                  *)
Clean == flags.from = Unset /\ skips = 0

(* Every variable has its type: rows are about blocks of the chain and the     *)
(* planned range ends within it.  (A group that a skipped fetch or a range    *)
(* crawled again made too long may put the resume point past the head.)       *)
TypeOK ==
    /\ rateAt \in [Pairs -> [Blocks -> Rates]]
    /\ head \in Blocks
    /\ flags \in Flags
    /\ proc \in {"idle", "crawling", "completed"}
    /\ fresh \in BOOLEAN
    /\ to \in 0 .. MaxHead + 1
    /\ next \in Nat /\ (Clean => next <= MaxHead + 1)
    /\ \A r \in rows : r.pair \in Pairs /\ r.rate \in Rates /\ r.from \in Blocks
    /\ crashes \in 0 .. MaxCrashes /\ skips \in 0 .. MaxSkips

Covers(r, p, b) == r.pair = p /\ r.from <= b /\ b < r.to

(* Without a skipped fetch, however often the daemon is killed between two *)
(* blocks: a group tells the rate of each of its blocks and says nothing   *)
(* of a block that was not fetched yet.                                    *)
RatesAreRight ==
    Clean =>
        \A r \in rows : \A b \in r.from .. (r.to - 1) : b <= head /\ rateAt[r.pair][b] = r.rate

(* The groups the daemon wrote of a pair neither overlap nor leave a gap:  *)
(* a block stored again after a crash goes where it was.                   *)
EveryBlockOnce ==
    Clean =>
        \A p \in Pairs :
            LET mine == {r \in rows : r.pair = p}
            IN  mine # {} =>
                \A b \in Min({r.from : r \in mine}) .. (Max({r.to : r \in mine}) - 1) :
                    Cardinality({r \in mine : Covers(r, p, b)}) = 1

(* LastBlock only looks at one of the newest rows, but that row tells what *)
(* all pairs have stored.                                                  *)
LastBlockIsNext ==
    Clean /\ rows # {} =>
        /\ LastBlocks = {Max({r.to : r \in rows})}
        /\ \A p \in Pairs : \E r \in LastRate(p) : {r.to} = LastBlocks

(* The groups of all pairs are seamless and end where the crawler resumes. *)
GroupsAreSeamless == EveryBlockOnce /\ LastBlockIsNext

(* Whatever is skipped, and whatever is crawled again because of it, a     *)
(* group starts at a block that had its rate.                              *)
RowStartsRight == \A r \in rows : rateAt[r.pair][r.from] = r.rate

(* A row tells the rate of its first block, and of the others if nothing   *)
(* was skipped or crawled again.                                           *)
RowsAreRight == RatesAreRight /\ RowStartsRight

(* A range that is completed is covered: even when a crash made the        *)
(* crawler start over from --from-block, each block of the range is in a   *)
(* group with its rate.  (Such a group may then also claim later blocks.)  *)
CompletedIsCovered ==
    proc = "completed" /\ skips = 0 /\ flags.from # Unset =>
        \A p \in Pairs, b \in flags.from .. (flags.to - 1) :
            \E r \in rows : Covers(r, p, b) /\ r.rate = rateAt[p][b]

(* Every block the daemon has not stored yet is eventually in a group of   *)
(* each pair with its rate, however often the crawler is killed, unless a  *)
(* fetch is skipped on the way.                                            *)
EventuallyCovered ==
    \A b \in Blocks :
        (Clean /\ rows # {} /\ b >= next)
            ~> (skips > 0 \/ \A p \in Pairs : \E r \in rows : Covers(r, p, b) /\ r.rate = rateAt[p][b])
=============================================================================
