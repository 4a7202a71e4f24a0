------------------------- MODULE ReserveRatesProofs --------------------------
(***************************************************************************)
(* Proofs about the reserve rates crawler.                                 *)
(***************************************************************************)
EXTENDS ReserveRates, DataLemmas

Row == [pair : Pairs, rate : Rates, from : Blocks, to : Nat]

(* The key of the table is (pair, from), a group is not empty, and it      *)
(* starts at a block that had its rate.                                    *)
RowsInv ==
    /\ rows \subseteq Row
    /\ \A r, q \in rows : r.pair = q.pair /\ r.from = q.from => r = q
    /\ \A r \in rows : r.from < r.to
    /\ RowStartsRight

Longer(l) == [pair |-> l.pair, rate |-> l.rate, from |-> l.from, to |-> l.to + 1]
Started(p, b) == [pair |-> p, rate |-> rateAt[p][b], from |-> b, to |-> b + 1]

(* What block b writes of a pair: the last group, a block longer, or a new *)
(* one, which may replace an older one that starts at b.                   *)
Writes(p, b, g) ==
    \/ \E l \in LastRate(p) : l.rate = rateAt[p][b] /\ g = Longer(l)
    \/ (\A l \in LastRate(p) : l.rate # rateAt[p][b]) /\ g = Started(p, b)

(* What RatesAssumption says of the constants, one by one.                 *)
LEMMA ConstantsAre ==
    /\ MaxHead \in Nat /\ FirstHead \in Blocks /\ MaxCrashes \in Nat /\ MaxSkips \in Nat
    /\ \A f \in Flags : /\ f.from = Unset \/ f.from \in Blocks
                        /\ f.to = Unset \/ f.to \in 1 .. (FirstHead + 1)
    /\ \A b \in Blocks : b \in Nat /\ b >= 1 /\ b <= MaxHead
  BY RatesAssumption DEF Blocks

(* The newest row of a pair is one of its rows.                            *)
LEMMA LastRateIs ==
    ASSUME RowsInv, NEW p \in Pairs
    PROVE  /\ LastRate(p) \subseteq rows
           /\ \A l \in LastRate(p) : l \in Row /\ l.pair = p
           /\ \A l, k \in LastRate(p) : l = k
           /\ (\E r \in rows : r.pair = p) => LastRate(p) # {}
  <1>1. /\ LastRate(p) \subseteq rows /\ \A l \in LastRate(p) : l \in Row /\ l.pair = p
    BY DEF LastRate, RowsInv
  <1>2. \A l, k \in LastRate(p) : l = k
    <2> SUFFICES ASSUME NEW l \in LastRate(p), NEW k \in LastRate(p)
                 PROVE  l = k
      OBVIOUS
    <2>1. l.from <= k.from /\ k.from <= l.from /\ l.from \in Nat /\ k.from \in Nat
      BY ConstantsAre DEF LastRate, RowsInv, Row
    <2> QED  BY <2>1 DEF LastRate, RowsInv
  <1>3. ASSUME NEW r \in rows, r.pair = p
        PROVE  LastRate(p) # {}
    <2> DEFINE T == {q.from : q \in {s \in rows : s.pair = p}}
    <2>1. T \in SUBSET Nat /\ T # {} /\ \A n \in T : n <= MaxHead
      BY <1>3, ConstantsAre DEF RowsInv, Row
    <2>2. Max(T) \in T /\ \A n \in T : Max(T) >= n
      BY <2>1, ConstantsAre, MaxOfNaturals
    <2>3. PICK l \in rows : l.pair = p /\ l.from = Max(T)
      BY <2>2
    <2>4. \A q \in rows : q.pair = p => q.from <= l.from
      BY <2>1, <2>2, <2>3
    <2> QED  BY <2>3, <2>4 DEF LastRate
  <1> QED  BY <1>1, <1>2, <1>3

(* What the statement with ON CONFLICT leaves: a row is extended, or       *)
(* begun.                                                                  *)
LEMMA UpsertIs ==
    ASSUME RowsInv, rateAt \in [Pairs -> [Blocks -> Rates]],
           NEW ps \in SUBSET Pairs, NEW b \in Blocks, rows' = Upsert(ps, b)
    PROVE  /\ rows' \subseteq Row
           /\ \A p \in Pairs \ ps : \A r \in Row : r.pair = p => (r \in rows' <=> r \in rows)
           /\ \A p \in ps : \E g \in Row :
                 /\ g.pair = p /\ Writes(p, b, g)
                 /\ \A r \in Row : r.pair = p => (r \in rows' <=> r = g \/ (r \in rows /\ r.from # g.from))
  <1> DEFINE key(p) == [pair |-> p, from |-> Group(p, b).from]
             present(p) == {r \in rows : r.pair = p /\ r.from = key(p).from}
             rate(p) == IF present(p) = {} THEN rateAt[p][b] ELSE (CHOOSE r \in present(p) : TRUE).rate
             written(p) == [pair |-> p, rate |-> rate(p), from |-> key(p).from, to |-> Group(p, b).to]
  <1>1. rows' = (rows \ UNION {present(p) : p \in ps}) \cup {written(p) : p \in ps}
    BY DEF Upsert
  <1>2. ASSUME NEW p \in ps
        PROVE  /\ written(p) \in Row /\ written(p).pair = p /\ Writes(p, b, written(p))
               /\ written(p).from = key(p).from
    <2> DEFINE same == {r \in LastRate(p) : r.rate = rateAt[p][b]}
    <2>1. rateAt[p][b] \in Rates /\ b + 1 \in Nat /\ b \in Nat
      BY ConstantsAre
    <2>2. CASE same # {}
      <3>1. PICK l : l = (CHOOSE r \in same : TRUE)
        OBVIOUS
      <3>2. l \in LastRate(p) /\ l.rate = rateAt[p][b] /\ l \in rows /\ l \in Row /\ l.pair = p
        BY <2>2, <3>1, LastRateIs
      <3>3. Group(p, b) = [from |-> l.from, to |-> l.to + 1]
        BY <2>2, <3>1 DEF Group
      <3>4. present(p) = {l}
        BY <3>2, <3>3 DEF RowsInv
      <3>5. rate(p) = l.rate
        BY <3>4
      <3>6. written(p) = Longer(l)
        BY <3>2, <3>3, <3>5 DEF Longer
      <3>7. Longer(l) \in Row /\ l.to + 1 \in Nat
        BY <3>2 DEF Longer, Row
      <3> HIDE DEF written
      <3> QED  BY <3>2, <3>3, <3>6, <3>7 DEF Writes, Longer
    <2>3. CASE same = {}
      <3>1. Group(p, b) = [from |-> b, to |-> b + 1]
        BY <2>3 DEF Group
      <3>2. rate(p) = rateAt[p][b]
        <4>1. CASE present(p) = {}
          BY <4>1
        <4>2. CASE present(p) # {}
          <5>1. (CHOOSE r \in present(p) : TRUE) \in present(p)
            BY <4>2
          <5>2. \A r \in present(p) : r.rate = rateAt[p][b]
            BY <3>1 DEF RowsInv, RowStartsRight
          <5> HIDE DEF present
          <5> QED  BY <4>2, <5>1, <5>2
        <4> QED  BY <4>1, <4>2
      <3>3. written(p) = Started(p, b)
        BY <3>1, <3>2 DEF Started
      <3>4. Started(p, b) \in Row /\ Started(p, b).pair = p /\ Started(p, b).from = b
        BY <2>1 DEF Started, Row
      <3> HIDE DEF written
      <3> QED  BY <2>3, <3>1, <3>3, <3>4 DEF Writes
    <2> QED  BY <2>2, <2>3
  <1>3. \A p \in ps : \A r \in present(p) : r \in rows /\ r.pair = p /\ r.from = written(p).from
    BY <1>2
  <1>4. \A p \in ps : \A r \in rows : r.pair = p /\ r.from = written(p).from => r \in present(p)
    BY <1>2
  <1> HIDE DEF written, present
  <1>5. rows' \subseteq Row
    BY <1>1, <1>2 DEF RowsInv
  <1>6. \A p \in Pairs \ ps : \A r \in Row : r.pair = p => (r \in rows' <=> r \in rows)
    BY <1>1, <1>2, <1>3
  <1>7. ASSUME NEW p \in ps, NEW r \in Row, r.pair = p
        PROVE  r \in rows' <=> r = written(p) \/ (r \in rows /\ r.from # written(p).from)
    <2>1. r \in {written(q) : q \in ps} <=> r = written(p)
      BY <1>2, <1>7
    <2>2. r \in UNION {present(q) : q \in ps} <=> r \in rows /\ r.from = written(p).from
      BY <1>3, <1>4, <1>7
    <2> QED  BY <1>1, <2>1, <2>2
  <1> QED  BY <1>2, <1>5, <1>6, <1>7

(* A statement keeps the key of the table, and what its rows begin with.   *)
LEMMA RowsStep ==
    ASSUME RowsInv, rateAt \in [Pairs -> [Blocks -> Rates]], rateAt' = rateAt,
           NEW ps \in SUBSET Pairs, NEW b \in Blocks, rows' = Upsert(ps, b)
    PROVE  RowsInv'
  <1>1. /\ rows' \subseteq Row
        /\ \A p \in Pairs \ ps : \A r \in Row : r.pair = p => (r \in rows' <=> r \in rows)
        /\ \A p \in ps : \E g \in Row :
                 /\ g.pair = p /\ Writes(p, b, g)
                 /\ \A r \in Row : r.pair = p => (r \in rows' <=> r = g \/ (r \in rows /\ r.from # g.from))
    BY UpsertIs
  <1>2. ASSUME NEW p \in Pairs, NEW g \in Row, g.pair = p, Writes(p, b, g)
        PROVE  g.from < g.to /\ rateAt[p][g.from] = g.rate
    <2>1. CASE \E l \in LastRate(p) : l.rate = rateAt[p][b] /\ g = Longer(l)
      <3>1. PICK l \in LastRate(p) : l.rate = rateAt[p][b] /\ g = Longer(l)
        BY <2>1
      <3>2. l \in rows /\ l \in Row /\ l.pair = p /\ l.from < l.to /\ l.from \in Nat /\ l.to \in Nat
        BY LastRateIs, ConstantsAre DEF RowsInv, Row
      <3> QED  BY <3>1, <3>2 DEF Longer, RowsInv, RowStartsRight
    <2>2. CASE g = Started(p, b)
      BY <2>2, ConstantsAre DEF Started
    <2> QED  BY <1>2, <2>1, <2>2 DEF Writes
  <1>3. ASSUME NEW r \in rows'
        PROVE  r \in Row /\ r.from < r.to /\ rateAt[r.pair][r.from] = r.rate
    <2>1. r \in Row /\ r.pair \in Pairs
      BY <1>1 DEF Row
    <2>2. CASE r.pair \notin ps
      BY <1>1, <2>1, <2>2 DEF RowsInv, RowStartsRight
    <2>3. CASE r.pair \in ps
      BY <1>1, <1>2, <2>1, <2>3 DEF RowsInv, RowStartsRight
    <2> QED  BY <2>2, <2>3
  <1>4. ASSUME NEW r \in rows', NEW q \in rows', r.pair = q.pair, r.from = q.from
        PROVE  r = q
    <2>1. r \in Row /\ q \in Row /\ r.pair \in Pairs
      BY <1>1 DEF Row
    <2>2. CASE r.pair \notin ps
      BY <1>1, <1>4, <2>1, <2>2 DEF RowsInv
    <2>3. CASE r.pair \in ps
      BY <1>1, <1>4, <2>1, <2>3 DEF RowsInv
    <2> QED  BY <2>2, <2>3
  <1> QED  BY <1>3, <1>4 DEF RowsInv, RowStartsRight
-----------------------------------------------------------------------------
(* A process: the round that is under way ends within the chain, and a     *)
(* planned range is crawled from its start until it is completed.          *)
ProcessInv ==
    /\ rateAt \in [Pairs -> [Blocks -> Rates]]
    /\ head \in Blocks /\ head >= FirstHead
    /\ flags \in Flags
    /\ proc \in {"idle", "crawling", "completed"}
    /\ fresh \in BOOLEAN
    /\ to \in Nat /\ to <= head + 1
    /\ next \in Nat
    /\ crashes \in 0 .. MaxCrashes /\ skips \in 0 .. MaxSkips
    /\ proc = "crawling" => next >= 1 /\ (flags.to # Unset => to = flags.to)
    /\ proc # "completed" /\ flags.to # Unset => fresh
    /\ proc = "completed" => flags.to # Unset /\ flags.to <= next

(* The groups of a pair up to block e: seamless, right, the last one ends  *)
(* at e.                                                                   *)
Seamless(p, e) ==
    /\ \E r \in rows : r.pair = p /\ r.to = e
    /\ \A r \in rows : r.pair = p =>
          /\ r.to <= e
          /\ r.to = e \/ \E q \in rows : q.pair = p /\ q.from = r.to
          /\ \A b \in r.from .. (r.to - 1) : b <= head /\ rateAt[p][b] = r.rate
          /\ \A q \in rows : q.pair = p => q = r \/ r.to <= q.from \/ q.to <= r.from

(* The daemon has stored the same blocks of every pair and goes on after   *)
(* them.                                                                   *)
DaemonInv ==
    Clean =>
        /\ next <= head + 1
        /\ \E e \in 1 .. (head + 1) :
              /\ proc = "crawling" => next = e
              /\ rows = {} \/ \A p \in Pairs : Seamless(p, e)

(* Block b of pair p is in a group with its rate.                          *)
CoveredRight(p, b) == \E r \in rows : Covers(r, p, b) /\ r.rate = rateAt[p][b]

(* A range that was crawled up to block h, some of its blocks repeatedly:  *)
(* the last group has the rate of the blocks from its start up to h, and a *)
(* block that lost its group has another rate than the last one.           *)
Reached(p, h) ==
    \/ h = flags.from /\ \A r \in rows : r.pair # p
    \/ \E l \in LastRate(p) :
          /\ flags.from <= l.from /\ l.from < h /\ h <= l.to
          /\ \A b \in l.from .. (h - 1) : rateAt[p][b] = l.rate
          /\ \A b \in flags.from .. (h - 1) : CoveredRight(p, b) \/ rateAt[p][b] # l.rate

RangeInv ==
    flags.from # Unset /\ flags.to # Unset /\ skips = 0 =>
        /\ \E h \in flags.from .. (MaxHead + 1) :
              /\ \A p \in Pairs : Reached(p, h)
              /\ proc = "crawling" => next <= h
        /\ proc # "idle" =>
              \A p \in Pairs : \A b \in flags.from .. (next - 1) : CoveredRight(p, b)
        /\ proc = "crawling" => flags.from <= next

RatesInv == ProcessInv /\ RowsInv /\ DaemonInv /\ RangeInv
-----------------------------------------------------------------------------
(* No fetch was skipped only if none is skipped now.                       *)
LEMMA SkippedIs ==
    ASSUME skips \in Nat, NEW skipped \in SUBSET Pairs
    PROVE  /\ Cardinality(skipped) \in Nat
           /\ skips + Cardinality(skipped) = 0 => skips = 0 /\ skipped = {}
  <1>1. IsFiniteSet(skipped) /\ Cardinality(skipped) \in Nat
    BY RatesAssumption, FS_Subset, FS_CardinalityType
  <1>2. Cardinality(skipped) = 0 => skipped = {}
    BY <1>1, FS_EmptySet
  <1> QED  BY <1>1, <1>2

(* The block the daemon resumes at is one it stored, or none.              *)
LEMMA LastBlocksAre ==
    ASSUME RowsInv, NEW last \in LastBlocks
    PROVE  /\ last \in Nat
           /\ rows = {} => last = 0
           /\ rows # {} => \E r \in rows : /\ last = r.to /\ r \in Row /\ r \in LastRate(r.pair)
                                           /\ last > r.from /\ r.from >= 1
                                           /\ \A q \in rows : q.from <= r.from
  <1>1. CASE rows = {}
    BY <1>1 DEF LastBlocks
  <1>2. CASE rows # {}
    <2> DEFINE T == {s.from : s \in rows}
    <2>1. T \in SUBSET Nat /\ T # {} /\ \A n \in T : n <= MaxHead /\ n >= 1
      BY <1>2, ConstantsAre DEF RowsInv, Row
    <2>2. Max(T) \in T /\ \A n \in T : Max(T) >= n
      BY <2>1, ConstantsAre, MaxOfNaturals
    <2>3. PICK r \in rows : r.from = Max(T) /\ last = r.to
      BY <1>2 DEF LastBlocks
    <2>4. r \in Row /\ r.from < r.to /\ r.from >= 1 /\ r.from \in Nat /\ r.to \in Nat
      BY <2>1, <2>2, <2>3 DEF RowsInv, Row
    <2>5. \A q \in rows : q.from <= r.from
      BY <2>1, <2>2, <2>3
    <2>6. r \in LastRate(r.pair)
      BY <2>3, <2>5 DEF LastRate
    <2> QED  BY <1>2, <2>3, <2>4, <2>5, <2>6
  <1> QED  BY <1>1, <1>2

(* The process begins with an empty table.                                 *)
LEMMA ProcessInit == Init => ProcessInv /\ RowsInv
  BY ConstantsAre DEF Init, ProcessInv, RowsInv, RowStartsRight, Blocks

(* Every step keeps the state of the process and the key of the table.     *)
LEMMA ProcessStep ==
    ASSUME ProcessInv, RowsInv, [Next]_vars
    PROVE  ProcessInv' /\ RowsInv'
  <1> USE ConstantsAre
  <1>1. CASE Mine
    <2>1. head' \in Blocks /\ head' >= FirstHead /\ head' = head + 1
      BY <1>1 DEF Mine, ProcessInv, Blocks
    <2>2. RowsInv'
      BY <1>1 DEF Mine, RowsInv, RowStartsRight
    <2> QED  BY <1>1, <2>1, <2>2 DEF Mine, ProcessInv
  <1>2. CASE StartRound
    <2>1. PICK last \in LastBlocks :
             next' = IF fresh /\ flags.from # Unset THEN flags.from ELSE ResumeFrom(last)
      BY <1>2 DEF StartRound
    <2>2. last \in Nat
      BY <2>1, LastBlocksAre
    <2>3. next' \in Nat /\ next' >= 1
      BY <2>1, <2>2 DEF ProcessInv, ResumeFrom
    <2>4. to' \in Nat /\ to' <= head + 1 /\ (flags.to # Unset => to' = flags.to)
      BY <1>2 DEF StartRound, ProcessInv
    <2>5. RowsInv'
      BY <1>2 DEF StartRound, RowsInv, RowStartsRight, chainVars
    <2> QED  BY <1>2, <2>3, <2>4, <2>5 DEF StartRound, ProcessInv, chainVars
  <1>3. CASE \E skipped \in SUBSET Pairs : UpdateRatesRecords(skipped)
    <2>1. PICK skipped \in SUBSET Pairs : UpdateRatesRecords(skipped)
      BY <1>3
    <2>2. skips' \in 0 .. MaxSkips
      BY <2>1, SkippedIs DEF UpdateRatesRecords, ProcessInv
    <2>3. next \in Blocks /\ next' \in Nat /\ next' >= 1
      BY <2>1 DEF UpdateRatesRecords, ProcessInv, Blocks
    <2>4. RowsInv'
      BY <2>1, <2>3, RowsStep DEF UpdateRatesRecords, chainVars, ProcessInv
    <2> QED  BY <2>1, <2>2, <2>3, <2>4 DEF UpdateRatesRecords, ProcessInv, chainVars
  <1>4. CASE EndRound
    <2>1. RowsInv'
      BY <1>4 DEF EndRound, RowsInv, RowStartsRight, chainVars
    <2> QED  BY <1>4, <2>1 DEF EndRound, ProcessInv, chainVars
  <1>5. CASE Crash
    <2>1. RowsInv'
      BY <1>5 DEF Crash, RowsInv, RowStartsRight, chainVars
    <2> QED  BY <1>5, <2>1 DEF Crash, ProcessInv, chainVars
  <1>6. CASE UNCHANGED vars
    <2>1. RowsInv'
      BY <1>6 DEF vars, RowsInv, RowStartsRight, chainVars
    <2> QED  BY <1>6, <2>1 DEF vars, ProcessInv, chainVars
  <1> QED  BY <1>1, <1>2, <1>3, <1>4, <1>5, <1>6 DEF Next, Process, Completed
-----------------------------------------------------------------------------
(* The group that ends where the daemon resumes is the pair's last.        *)
LEMMA SeamlessLast ==
    ASSUME RowsInv, NEW p \in Pairs, NEW e \in Nat, Seamless(p, e)
    PROVE  \E l \in LastRate(p) :
              /\ l \in rows /\ l \in Row /\ l.pair = p /\ l.to = e /\ l.from < e /\ l.from \in Blocks
              /\ \A r \in rows : r.pair = p /\ r # l => r.to <= l.from
              /\ \A r \in LastRate(p) : r = l
  <1>1. PICK l \in rows : l.pair = p /\ l.to = e
    BY DEF Seamless
  <1>2. \A r \in rows : r.from \in Nat /\ r.to \in Nat /\ r.from < r.to /\ r \in Row /\ r.from \in Blocks
    BY ConstantsAre DEF RowsInv, Row
  <1>3. ASSUME NEW r \in rows, r.pair = p, r # l
        PROVE  r.to <= l.from
    <2>1. r.to <= e /\ (r.to <= l.from \/ l.to <= r.from)
      BY <1>1, <1>3 DEF Seamless
    <2> QED  BY <1>1, <1>2, <1>3, <2>1
  <1>4. \A r \in rows : r.pair = p => r.from <= l.from
    BY <1>2, <1>3
  <1>5. l \in LastRate(p)
    BY <1>1, <1>4 DEF LastRate
  <1> QED  BY <1>1, <1>2, <1>3, <1>5, LastRateIs

(* The statement for the next block makes the groups end there,            *)
(* seamlessly.                                                             *)
LEMMA SeamlessStep ==
    ASSUME RowsInv, rateAt \in [Pairs -> [Blocks -> Rates]], rateAt' = rateAt, head' = head,
           NEW p \in Pairs, NEW e \in Blocks, e <= head, rows' = Upsert(Pairs, e),
           rows = {} \/ Seamless(p, e)
    PROVE  Seamless(p, e + 1)'
  <1>1. PICK g \in Row :
           /\ g.pair = p /\ Writes(p, e, g)
           /\ \A r \in Row : r.pair = p => (r \in rows' <=> r = g \/ (r \in rows /\ r.from # g.from))
    BY UpsertIs
  <1>2. RowsInv' /\ rows' \subseteq Row
    BY RowsStep DEF RowsInv
  <1>3. e \in Nat /\ \A r \in Row : r.from \in Nat /\ r.to \in Nat
    BY ConstantsAre DEF Row
  <1>4. \A r \in rows : r \in Row /\ r.from < r.to
    BY DEF RowsInv
  <1>5. /\ g.to = e + 1 /\ g.from <= e
        /\ \A b \in g.from .. e : b <= head /\ rateAt[p][b] = g.rate
        /\ \A r \in rows : r.pair = p /\ r.from # g.from =>
              /\ r.to <= g.from
              /\ r.to = g.from \/ \E q \in rows : q.pair = p /\ q.from = r.to /\ q.from # g.from
    <2>1. CASE rows = {}
      <3>1. LastRate(p) = {}
        BY <2>1 DEF LastRate
      <3>2. g = Started(p, e)
        BY <1>1, <3>1 DEF Writes
      <3> QED  BY <1>3, <2>1, <3>2 DEF Started
    <2>2. CASE Seamless(p, e)
      <3>1. PICK l \in LastRate(p) :
               /\ l \in rows /\ l \in Row /\ l.pair = p /\ l.to = e /\ l.from < e /\ l.from \in Blocks
               /\ \A r \in rows : r.pair = p /\ r # l => r.to <= l.from
               /\ \A r \in LastRate(p) : r = l
        BY <1>3, <2>2, SeamlessLast
      <3>2. \A b \in l.from .. (e - 1) : b <= head /\ rateAt[p][b] = l.rate
        BY <2>2, <3>1 DEF Seamless
      <3>3. \A r \in rows : r.pair = p => r.to = e \/ \E q \in rows : q.pair = p /\ q.from = r.to
        BY <2>2 DEF Seamless
      <3>4. CASE l.rate = rateAt[p][e] /\ g = Longer(l)
        <4>1. g.from = l.from /\ g.to = e + 1 /\ g.rate = l.rate
          BY <3>1, <3>4 DEF Longer
        <4>2. \A b \in g.from .. e : b <= head /\ rateAt[p][b] = g.rate
          BY <1>3, <3>2, <3>4, <4>1
        <4>3. ASSUME NEW r \in rows, r.pair = p, r.from # g.from
              PROVE  /\ r.to <= g.from
                     /\ r.to = g.from \/ \E q \in rows : q.pair = p /\ q.from = r.to /\ q.from # g.from
          <5>1. r.to <= g.from /\ r.to # e
            BY <1>3, <1>4, <3>1, <4>1, <4>3
          <5> QED  BY <3>3, <4>3, <5>1
        <4> QED  BY <1>3, <3>1, <4>1, <4>2, <4>3
      <3>5. CASE g = Started(p, e)
        <4>1. g.from = e /\ g.to = e + 1 /\ g.rate = rateAt[p][e]
          BY <3>5 DEF Started
        <4>2. ASSUME NEW r \in rows, r.pair = p
              PROVE  r.to <= e /\ (r.to = e \/ \E q \in rows : q.pair = p /\ q.from = r.to /\ q.from # e)
          <5>1. r.to <= e
            BY <2>2, <4>2 DEF Seamless
          <5> QED  BY <3>3, <4>2, <5>1
        <4> QED  BY <1>3, <4>1, <4>2
      <3> QED  BY <1>1, <3>1, <3>4, <3>5 DEF Writes
    <2> QED  BY <2>1, <2>2
  <1>6. ASSUME NEW r \in rows, r.pair = p
        PROVE  \A b \in r.from .. (r.to - 1) : b <= head /\ rateAt[p][b] = r.rate
    BY <1>6 DEF Seamless
  <1>7. ASSUME NEW r \in rows, NEW q \in rows, r.pair = p, q.pair = p
        PROVE  q = r \/ r.to <= q.from \/ q.to <= r.from
    BY <1>7 DEF Seamless
  <1>8. g \in rows'
    BY <1>1
  <1>9. \A r \in rows' : r.pair = p => r = g \/ (r \in rows /\ r.from # g.from /\ r.to <= g.from)
    BY <1>1, <1>2, <1>5
  <1>10. ASSUME NEW r \in rows', r.pair = p
         PROVE  /\ r.to <= e + 1
                /\ r.to = e + 1 \/ \E q \in rows' : q.pair = p /\ q.from = r.to
                /\ \A b \in r.from .. (r.to - 1) : b <= head' /\ rateAt'[p][b] = r.rate
                /\ \A q \in rows' : q.pair = p => q = r \/ r.to <= q.from \/ q.to <= r.from
    <2>1. CASE r = g
      <3>1. \A b \in r.from .. (r.to - 1) : b <= head' /\ rateAt'[p][b] = r.rate
        BY <1>3, <1>5, <2>1
      <3>2. \A q \in rows' : q.pair = p => q = r \/ r.to <= q.from \/ q.to <= r.from
        BY <1>9, <2>1
      <3> QED  BY <1>3, <1>5, <2>1, <3>1, <3>2
    <2>2. CASE r \in rows /\ r.from # g.from /\ r.to <= g.from
      <3>1. r.to <= e + 1
        BY <1>3, <1>4, <1>5, <2>2
      <3>2. \E q \in rows' : q.pair = p /\ q.from = r.to
        <4>1. CASE r.to = g.from
          BY <1>1, <1>8, <4>1
        <4>2. CASE \E q \in rows : q.pair = p /\ q.from = r.to /\ q.from # g.from
          BY <1>1, <1>4, <4>2
        <4> QED  BY <1>5, <1>10, <2>2, <4>1, <4>2
      <3>3. \A b \in r.from .. (r.to - 1) : b <= head' /\ rateAt'[p][b] = r.rate
        BY <1>6, <1>10, <2>2
      <3>4. \A q \in rows' : q.pair = p => q = r \/ r.to <= q.from \/ q.to <= r.from
        BY <1>7, <1>9, <1>10, <2>2
      <3> QED  BY <3>1, <3>2, <3>3, <3>4
    <2> QED  BY <1>9, <1>10, <2>1, <2>2
  <1> QED  BY <1>1, <1>5, <1>8, <1>10 DEF Seamless

(* Every step of the daemon keeps its groups seamless and right.           *)
LEMMA DaemonStep ==
    ASSUME ProcessInv, RowsInv, DaemonInv, [Next]_vars
    PROVE  DaemonInv'
  <1> USE ConstantsAre
  <1>1. CASE Mine
    <2>1. head \in Nat /\ head' = head + 1
      BY <1>1 DEF Mine, ProcessInv, Blocks
    <2>2. \A p \in Pairs, e \in Nat : Seamless(p, e) => Seamless(p, e)'
      <3> SUFFICES ASSUME NEW p \in Pairs, NEW e \in Nat, Seamless(p, e)
                   PROVE  Seamless(p, e)'
        OBVIOUS
      <3>1. rows' = rows /\ rateAt' = rateAt
        BY <1>1 DEF Mine
      <3>2. \A r \in rows : r.pair = p => \A b \in r.from .. (r.to - 1) : b <= head' /\ rateAt[p][b] = r.rate
        BY <2>1, ConstantsAre DEF Seamless, RowsInv, Row
      <3> QED  BY <3>1, <3>2 DEF Seamless
    <2> QED  BY <1>1, <2>1, <2>2 DEF Mine, DaemonInv, Clean, ProcessInv
  <1>2. CASE StartRound
    <2> SUFFICES ASSUME Clean
                 PROVE  DaemonInv'
      BY <1>2 DEF StartRound, DaemonInv, Clean
    <2>1. PICK last \in LastBlocks : next' = ResumeFrom(last)
      BY <1>2 DEF StartRound, Clean
    <2>2. PICK e \in 1 .. (head + 1) : rows = {} \/ \A p \in Pairs : Seamless(p, e)
      BY DEF DaemonInv
    <2>3. rows' = rows /\ rateAt' = rateAt /\ head' = head /\ skips' = skips /\ flags' = flags
      BY <1>2 DEF StartRound, chainVars
    <2>4. CASE rows = {}
      <3>1. next' = head
        BY <2>1, <2>4, LastBlocksAre DEF ResumeFrom
      <3> QED  BY <2>3, <2>4, <3>1 DEF DaemonInv, ProcessInv
    <2>5. CASE rows # {}
      <3>1. PICK r \in rows : /\ last = r.to /\ r \in Row /\ r \in LastRate(r.pair)
                              /\ last > r.from /\ r.from >= 1
        BY <2>5, LastBlocksAre
      <3>2. r.pair \in Pairs /\ Seamless(r.pair, e)
        BY <2>2, <2>5, <3>1 DEF Row
      <3>3. last = e
        BY <3>1, <3>2, SeamlessLast
      <3>4. next' = e
        BY <2>1, <3>3 DEF ResumeFrom
      <3>5. \A p \in Pairs : Seamless(p, e)'
        BY <2>2, <2>3, <2>5 DEF Seamless
      <3> QED  BY <2>3, <3>4, <3>5 DEF DaemonInv, ProcessInv
    <2> QED  BY <2>4, <2>5
  <1>3. CASE \E skipped \in SUBSET Pairs : UpdateRatesRecords(skipped)
    <2>1. PICK skipped \in SUBSET Pairs : UpdateRatesRecords(skipped)
      BY <1>3
    <2> SUFFICES ASSUME Clean'
                 PROVE  DaemonInv'
      BY DEF DaemonInv
    <2>2. skips = 0 /\ skipped = {}
      BY <2>1, SkippedIs DEF UpdateRatesRecords, ProcessInv, Clean
    <2>3. Clean
      BY <2>1, <2>2 DEF UpdateRatesRecords, Clean
    <2>4. PICK e \in Blocks : e = next /\ e <= head
      BY <2>1 DEF UpdateRatesRecords, ProcessInv, Blocks
    <2>5. rows' = Upsert(Pairs, e) /\ next' = e + 1 /\ rateAt' = rateAt /\ head' = head
      BY <2>1, <2>2, <2>4 DEF UpdateRatesRecords, chainVars
    <2>6. rows = {} \/ \A p \in Pairs : Seamless(p, e)
      BY <2>1, <2>3, <2>4 DEF UpdateRatesRecords, DaemonInv
    <2>7. ASSUME NEW p \in Pairs
          PROVE  Seamless(p, e + 1)'
      BY <2>4, <2>5, <2>6, SeamlessStep DEF ProcessInv
    <2>8. e + 1 \in 1 .. (head + 1) /\ e + 1 <= head + 1
      BY <2>4 DEF ProcessInv
    <2> QED  BY <2>5, <2>7, <2>8 DEF DaemonInv
  <1>4. CASE EndRound
    <2>1. \A p \in Pairs, e \in Nat : Seamless(p, e) => Seamless(p, e)'
      BY <1>4 DEF EndRound, Seamless, chainVars
    <2> QED  BY <1>4, <2>1 DEF EndRound, DaemonInv, Clean, chainVars
  <1>5. CASE Crash
    <2>1. \A p \in Pairs, e \in Nat : Seamless(p, e) => Seamless(p, e)'
      BY <1>5 DEF Crash, Seamless, chainVars
    <2> QED  BY <1>5, <2>1 DEF Crash, DaemonInv, Clean, chainVars
  <1>6. CASE UNCHANGED vars
    <2>1. \A p \in Pairs, e \in Nat : Seamless(p, e) => Seamless(p, e)'
      BY <1>6 DEF vars, Seamless, chainVars
    <2> QED  BY <1>6, <2>1 DEF vars, DaemonInv, Clean, chainVars
  <1> QED  BY <1>1, <1>2, <1>3, <1>4, <1>5, <1>6 DEF Next, Process, Completed
-----------------------------------------------------------------------------
(* A block of a range is stored, for the first time or again.              *)
LEMMA ReachedStep ==
    ASSUME RowsInv, rateAt \in [Pairs -> [Blocks -> Rates]], rateAt' = rateAt, flags' = flags,
           NEW p \in Pairs, NEW h \in Nat, NEW b \in Blocks, flags.from \in Blocks,
           flags.from <= b, b <= h, rows' = Upsert(Pairs, b), Reached(p, h),
           \A c \in flags.from .. (b - 1) : CoveredRight(p, c),
           NEW k, k = IF b = h THEN h + 1 ELSE h
    PROVE  /\ Reached(p, k)'
           /\ \A c \in flags.from .. b : CoveredRight(p, c)'
  <1>1. PICK g \in Row :
           /\ g.pair = p /\ Writes(p, b, g)
           /\ \A r \in Row : r.pair = p => (r \in rows' <=> r = g \/ (r \in rows /\ r.from # g.from))
    BY UpsertIs
  <1>2. RowsInv' /\ rows' \subseteq Row
    BY RowsStep DEF RowsInv
  <1>3. b \in Nat /\ flags.from \in Nat /\ \A r \in Row : r.from \in Nat /\ r.to \in Nat
    BY ConstantsAre DEF Row
  <1>4. g \in rows'
    BY <1>1
  <1>5. \A r \in rows' : r.pair = p => r = g \/ (r \in rows /\ r.from # g.from)
    BY <1>1, <1>2
  <1>6. \A r \in rows : r \in Row /\ rateAt[r.pair][r.from] = r.rate
    BY DEF RowsInv, RowStartsRight
  <1>7. CASE h = flags.from /\ \A r \in rows : r.pair # p
    <2>1. LastRate(p) = {} /\ b = h /\ k = h + 1
      BY <1>3, <1>7 DEF LastRate
    <2>2. g = Started(p, b)
      BY <1>1, <2>1 DEF Writes
    <2>3. g.from = b /\ g.to = b + 1 /\ g.rate = rateAt[p][b]
      BY <2>2 DEF Started
    <2>4. \A r \in rows' : r.pair = p => r = g
      BY <1>5, <1>7
    <2>5. g \in LastRate(p)'
      BY <1>1, <1>3, <1>4, <2>4 DEF LastRate
    <2>6. \A c \in flags.from .. b : CoveredRight(p, c)'
      BY <1>1, <1>3, <1>4, <1>7, <2>1, <2>3 DEF CoveredRight, Covers
    <2>7. \A c \in g.from .. (k - 1) : rateAt'[p][c] = g.rate
      BY <1>3, <2>1, <2>3
    <2>8. flags'.from <= g.from /\ g.from < k /\ k <= g.to /\ k - 1 = b
      BY <1>3, <2>1, <2>3
    <2> QED  BY <2>5, <2>6, <2>7, <2>8 DEF Reached
  <1>8. CASE \E l \in LastRate(p) :
                /\ flags.from <= l.from /\ l.from < h /\ h <= l.to
                /\ \A c \in l.from .. (h - 1) : rateAt[p][c] = l.rate
                /\ \A c \in flags.from .. (h - 1) : CoveredRight(p, c) \/ rateAt[p][c] # l.rate
    <2>1. PICK l \in LastRate(p) :
                /\ flags.from <= l.from /\ l.from < h /\ h <= l.to
                /\ \A c \in l.from .. (h - 1) : rateAt[p][c] = l.rate
                /\ \A c \in flags.from .. (h - 1) : CoveredRight(p, c) \/ rateAt[p][c] # l.rate
      BY <1>8
    <2>2. l \in rows /\ l \in Row /\ l.pair = p /\ \A r \in rows : r.pair = p => r.from <= l.from
      BY LastRateIs DEF LastRate
    <2>3. CASE l.rate = rateAt[p][b] /\ g = Longer(l)
      <3>1. g.from = l.from /\ g.to = l.to + 1 /\ g.rate = l.rate
        BY <2>3 DEF Longer
      <3>2. g \in LastRate(p)'
        BY <1>1, <1>3, <1>4, <1>5, <2>2, <3>1 DEF LastRate
      <3>3. ASSUME NEW c \in Nat, CoveredRight(p, c)
            PROVE  CoveredRight(p, c)'
        <4>1. PICK r \in rows : Covers(r, p, c) /\ r.rate = rateAt[p][c]
          BY <3>3 DEF CoveredRight
        <4>2. CASE r = l
          BY <1>1, <1>3, <1>4, <2>2, <3>1, <4>1, <4>2 DEF CoveredRight, Covers
        <4>3. CASE r # l
          <5>1. r.pair = p /\ r.from # g.from
            BY <2>2, <3>1, <4>1, <4>3 DEF Covers, RowsInv
          <5>2. r \in rows'
            BY <1>1, <1>6, <5>1
          <5> QED  BY <4>1, <5>2 DEF CoveredRight, Covers
        <4> QED  BY <4>2, <4>3
      <3>4. CoveredRight(p, b)'
        <4>1. CASE b = h
          <5>1. Covers(g, p, b) /\ g.rate = rateAt'[p][b]
            BY <1>1, <1>3, <2>1, <2>2, <2>3, <3>1, <4>1 DEF Covers
          <5> QED  BY <1>4, <5>1 DEF CoveredRight, Covers
        <4>2. CASE b < h
          <5>1. CoveredRight(p, b)
            BY <1>3, <2>1, <2>3, <4>2
          <5> QED  BY <1>3, <3>3, <5>1
        <4> QED  BY <1>3, <4>1, <4>2
      <3>5. \A c \in flags.from .. b : CoveredRight(p, c)'
        BY <1>3, <3>3, <3>4
      <3>6. flags'.from <= g.from /\ g.from < k /\ k <= g.to
        BY <1>3, <2>1, <2>2, <3>1
      <3>7. ASSUME NEW c \in g.from .. (k - 1)
            PROVE  rateAt'[p][c] = g.rate
        <4>1. c = b \/ c \in l.from .. (h - 1)
          BY <1>3, <2>2, <3>1, <3>7
        <4> QED  BY <2>1, <2>3, <3>1, <4>1
      <3>8. ASSUME NEW c \in flags.from .. (k - 1)
            PROVE  CoveredRight(p, c)' \/ rateAt'[p][c] # g.rate
        <4>1. c \in Nat /\ (c = b \/ c \in flags.from .. (h - 1))
          BY <1>3, <3>8
        <4> QED  BY <2>1, <3>1, <3>3, <3>4, <4>1
      <3> QED  BY <3>2, <3>5, <3>6, <3>7, <3>8 DEF Reached
    <2>4. CASE rateAt[p][b] # l.rate /\ g = Started(p, b)
      <3>1. g.from = b /\ g.to = b + 1 /\ g.rate = rateAt[p][b]
        BY <2>4 DEF Started
      <3>2. CoveredRight(p, b)'
        BY <1>1, <1>3, <1>4, <3>1 DEF CoveredRight, Covers
      <3>3. ASSUME NEW c \in Nat, NEW r \in rows, Covers(r, p, c), r.rate = rateAt[p][c], r.from # b
            PROVE  CoveredRight(p, c)'
        <4>1. r \in rows'
          BY <1>1, <1>6, <3>1, <3>3 DEF Covers
        <4> QED  BY <3>3, <4>1 DEF CoveredRight, Covers
      <3>4. ASSUME NEW c \in flags.from .. b
            PROVE  CoveredRight(p, c)'
        <4>1. CASE c = b
          BY <3>2, <4>1
        <4>2. CASE c # b
          <5>1. c \in Nat /\ c < b /\ CoveredRight(p, c)
            BY <1>3, <4>2
          <5>2. PICK r \in rows : Covers(r, p, c) /\ r.rate = rateAt[p][c]
            BY <5>1 DEF CoveredRight
          <5>3. r.from # b
            BY <1>3, <1>6, <5>1, <5>2 DEF Covers
          <5> QED  BY <3>3, <5>1, <5>2, <5>3
        <4> QED  BY <4>1, <4>2
      <3>5. CASE b = h
        <4>1. k = b + 1 /\ k - 1 = b
          BY <1>3, <3>5
        <4>2. g \in LastRate(p)'
          <5>1. l.from <= g.from
            BY <1>3, <2>1, <2>2, <3>1, <3>5
          <5>2. \A r \in rows' : r.pair = p => r.from <= g.from
            BY <1>3, <1>5, <1>6, <2>2, <3>1, <5>1
          <5> QED  BY <1>1, <1>4, <5>2 DEF LastRate
        <4>3. flags'.from <= g.from /\ g.from < k /\ k <= g.to
          BY <1>3, <3>1, <4>1
        <4>4. \A c \in g.from .. (k - 1) : rateAt'[p][c] = g.rate
          <5>1. \A c \in b .. b : c = b
            BY <1>3
          <5> QED  BY <3>1, <4>1, <5>1
        <4> QED  BY <3>4, <4>1, <4>2, <4>3, <4>4 DEF Reached
      <3>6. CASE b < h
        <4>1. k = h /\ b < l.from
          BY <1>3, <2>1, <2>2, <2>4, <3>6
        <4>2. l \in rows'
          BY <1>1, <1>3, <2>2, <3>1, <4>1
        <4>3. l \in LastRate(p)'
          BY <1>1, <1>3, <1>5, <2>2, <3>1, <4>1, <4>2 DEF LastRate
        <4>4. ASSUME NEW c \in flags.from .. (h - 1)
              PROVE  CoveredRight(p, c)' \/ rateAt'[p][c] # l.rate
          <5>1. c \in Nat
            BY <1>3
          <5>2. CASE CoveredRight(p, c)
            <6>1. PICK r \in rows : Covers(r, p, c) /\ r.rate = rateAt[p][c]
              BY <5>2 DEF CoveredRight
            <6>2. CASE r.from = b
              BY <1>6, <2>4, <6>1, <6>2 DEF Covers
            <6> QED  BY <3>3, <5>1, <6>1, <6>2
          <5> QED  BY <2>1, <5>2
        <4> QED  BY <2>1, <3>4, <4>1, <4>3, <4>4 DEF Reached
      <3> QED  BY <1>3, <3>5, <3>6
    <2> QED  BY <1>1, <2>3, <2>4, LastRateIs DEF Writes
  <1> QED  BY <1>7, <1>8 DEF Reached

(* Every step of a range keeps what it has reached and what is to come.    *)
LEMMA RangeStep ==
    ASSUME ProcessInv, RowsInv, RangeInv, [Next]_vars
    PROVE  RangeInv'
  <1> USE ConstantsAre
  <1>1. ASSUME rows' = rows, rateAt' = rateAt, flags' = flags
        PROVE  \A p \in Pairs, h \in Nat : /\ Reached(p, h) <=> Reached(p, h)'
                                           /\ CoveredRight(p, h) <=> CoveredRight(p, h)'
    BY <1>1 DEF Reached, CoveredRight, Covers, LastRate
  <1>2. ASSUME flags.from # Unset, flags.from \in Blocks
        PROVE  /\ flags.from \in Nat
               /\ \A h \in flags.from .. (MaxHead + 1) : h \in Nat
               /\ \A h \in flags.from .. (next - 1) : h \in Nat
    BY <1>2 DEF ProcessInv
  <1>3. flags \in Flags /\ (flags.from # Unset => flags.from \in Blocks)
    BY DEF ProcessInv
  <1>4. CASE Mine
    BY <1>1, <1>2, <1>3, <1>4 DEF Mine, RangeInv
  <1>5. CASE StartRound
    <2> SUFFICES ASSUME flags.from # Unset, flags.to # Unset, skips = 0
                 PROVE  RangeInv'
      BY <1>5 DEF StartRound, RangeInv
    <2>1. next' = flags.from /\ proc' = "crawling"
      BY <1>5 DEF StartRound, ProcessInv
    <2>2. rows' = rows /\ rateAt' = rateAt /\ flags' = flags
      BY <1>5 DEF StartRound, chainVars
    <2>3. \E h \in flags.from .. (MaxHead + 1) : \A p \in Pairs : Reached(p, h)'
      BY <1>1, <1>2, <1>3, <2>2 DEF RangeInv
    <2>4. flags'.from .. (next' - 1) = {}
      BY <1>2, <1>3, <2>1, <2>2
    <2> QED  BY <1>2, <1>3, <2>1, <2>2, <2>3, <2>4 DEF RangeInv
  <1>6. CASE \E skipped \in SUBSET Pairs : UpdateRatesRecords(skipped)
    <2>1. PICK skipped \in SUBSET Pairs : UpdateRatesRecords(skipped)
      BY <1>6
    <2> SUFFICES ASSUME flags'.from # Unset, flags'.to # Unset, skips' = 0
                 PROVE  RangeInv'
      BY DEF RangeInv
    <2>2. skips = 0 /\ skipped = {} /\ flags' = flags
      BY <2>1, SkippedIs DEF UpdateRatesRecords, ProcessInv
    <2>3. PICK b \in Blocks : b = next
      BY <2>1 DEF UpdateRatesRecords, ProcessInv, Blocks
    <2>4. /\ rows' = Upsert(Pairs, b) /\ next' = b + 1 /\ rateAt' = rateAt
          /\ proc = "crawling" /\ proc' = "crawling"
      BY <2>1, <2>2, <2>3 DEF UpdateRatesRecords, chainVars
    <2>5. PICK h \in flags.from .. (MaxHead + 1) : (\A p \in Pairs : Reached(p, h)) /\ b <= h
      BY <2>2, <2>3, <2>4 DEF RangeInv
    <2>6. flags.from <= b /\ \A p \in Pairs : \A c \in flags.from .. (b - 1) : CoveredRight(p, c)
      BY <2>2, <2>3, <2>4 DEF RangeInv
    <2>7. PICK k : k = IF b = h THEN h + 1 ELSE h
      OBVIOUS
    <2>8. flags.from \in Blocks /\ flags.from \in Nat /\ h \in Nat
      BY <1>2, <1>3, <2>2
    <2>9. ASSUME NEW p \in Pairs
          PROVE  Reached(p, k)' /\ \A c \in flags.from .. b : CoveredRight(p, c)'
      BY <2>2, <2>4, <2>5, <2>6, <2>7, <2>8, ReachedStep DEF ProcessInv
    <2>10. k \in flags.from .. (MaxHead + 1) /\ next' <= k /\ flags.from <= next' /\ next' - 1 = b
      BY <2>4, <2>5, <2>6, <2>7, <2>8
    <2> QED  BY <2>2, <2>4, <2>9, <2>10 DEF RangeInv
  <1>7. CASE EndRound
    BY <1>1, <1>2, <1>3, <1>7 DEF EndRound, RangeInv, chainVars
  <1>8. CASE Crash
    BY <1>1, <1>2, <1>3, <1>8 DEF Crash, RangeInv, chainVars
  <1>9. CASE UNCHANGED vars
    BY <1>1, <1>2, <1>3, <1>9 DEF vars, RangeInv, chainVars
  <1> QED  BY <1>4, <1>5, <1>6, <1>7, <1>8, <1>9 DEF Next, Process, Completed
-----------------------------------------------------------------------------
(* A set with one element.                                                 *)
LEMMA OneElement ==
    ASSUME NEW S, NEW x \in S, \A y \in S : y = x
    PROVE  Cardinality(S) = 1
  <1>1. S = {x}
    OBVIOUS
  <1> QED  BY <1>1, FS_Singleton

(* A block of a seamless run is in one group only.                         *)
LEMMA SeamlessOnce ==
    ASSUME RowsInv, NEW p \in Pairs, NEW e \in Nat, Seamless(p, e),
           NEW mine, mine = {r \in rows : r.pair = p},
           NEW b \in Min({r.from : r \in mine}) .. (Max({r.to : r \in mine}) - 1)
    PROVE  Cardinality({r \in mine : Covers(r, p, b)}) = 1
  <1> DEFINE froms == {r.from : r \in mine}
             tos == {r.to : r \in mine}
             below == {f \in froms : f <= b}
  <1>1. \A r \in mine : /\ r \in rows /\ r.pair = p
                        /\ r.from \in Nat /\ r.from <= MaxHead /\ r.to \in Nat /\ r.from < r.to /\ r.to <= e
    BY ConstantsAre DEF RowsInv, Row, Seamless
  <1>2. mine # {} /\ mine \subseteq rows
    BY DEF Seamless
  <1>3. Min(froms) \in froms /\ froms \in SUBSET Nat /\ \A n \in froms : n <= MaxHead
    <2>1. froms \in SUBSET Nat /\ froms # {} /\ \A n \in froms : n <= MaxHead
      BY <1>1, <1>2
    <2> QED  BY <2>1, MinOfNaturals
  <1>4. Max(tos) \in tos /\ tos \in SUBSET Nat
    <2>1. tos \in SUBSET Nat /\ tos # {} /\ \A n \in tos : n <= e
      BY <1>1, <1>2
    <2> QED  BY <2>1, MaxOfNaturals
  <1>5. b \in Nat /\ Min(froms) <= b /\ b < e
    <2>1. Max(tos) \in Nat /\ Max(tos) <= e
      BY <1>1, <1>4
    <2> QED  BY <1>3, <2>1
  <1>6. Max(below) \in below /\ \A f \in below : Max(below) >= f
    <2>1. below \in SUBSET Nat /\ below # {} /\ \A n \in below : n <= MaxHead
      BY <1>3, <1>5
    <2> QED  BY <2>1, ConstantsAre, MaxOfNaturals
  <1>7. PICK r \in mine : r.from = Max(below)
    BY <1>6
  <1>8. r.from <= b /\ \A q \in mine : q.from <= b => q.from <= r.from
    BY <1>6, <1>7
  <1> HIDE DEF froms, tos, below
  <1>9. b < r.to
    <2> SUFFICES ASSUME r.to <= b
                 PROVE  FALSE
      BY <1>1, <1>5
    <2>1. PICK q \in rows : q.pair = p /\ q.from = r.to
      BY <1>1, <1>5 DEF Seamless
    <2> QED  BY <1>1, <1>8, <2>1
  <1>10. Covers(r, p, b)
    BY <1>1, <1>8, <1>9 DEF Covers
  <1>11. ASSUME NEW q \in mine, Covers(q, p, b)
         PROVE  q = r
    <2>1. q = r \/ r.to <= q.from \/ q.to <= r.from
      BY <1>1 DEF Seamless
    <2> QED  BY <1>1, <1>5, <1>10, <1>11, <2>1 DEF Covers
  <1> QED  BY <1>10, <1>11, OneElement

(* Seamless groups that end together tell where to resume.                 *)
LEMMA SeamlessResumes ==
    ASSUME RowsInv, rows # {}, NEW e \in Nat, \A p \in Pairs : Seamless(p, e)
    PROVE  /\ LastBlocks = {e} /\ Max({r.to : r \in rows}) = e
           /\ \A p \in Pairs : \E r \in LastRate(p) : r.to = e
  <1>1. \A p \in Pairs : \E l \in LastRate(p) : l.to = e /\ \A r \in LastRate(p) : r = l
    BY SeamlessLast
  <1>2. \A last \in LastBlocks : last = e
    <2> SUFFICES ASSUME NEW last \in LastBlocks
                 PROVE  last = e
      OBVIOUS
    <2>1. PICK r \in rows : last = r.to /\ r \in Row /\ r \in LastRate(r.pair)
      BY LastBlocksAre
    <2> QED  BY <1>1, <2>1 DEF Row
  <1>3. LastBlocks # {}
    <2> DEFINE T == {s.from : s \in rows}
    <2>1. T \in SUBSET Nat /\ T # {} /\ \A n \in T : n <= MaxHead
      BY ConstantsAre DEF RowsInv, Row
    <2>2. Max(T) \in T
      BY <2>1, ConstantsAre, MaxOfNaturals
    <2> QED  BY <2>2 DEF LastBlocks
  <1>4. Max({r.to : r \in rows}) = e
    <2> DEFINE T == {s.to : s \in rows}
    <2>1. \A s \in rows : s.to \in Nat /\ s.to <= e
      BY DEF RowsInv, Row, Seamless
    <2>2. T \in SUBSET Nat /\ T # {} /\ \A n \in T : n <= e
      BY <2>1
    <2>3. Max(T) \in T /\ \A n \in T : Max(T) >= n
      BY <2>2, MaxOfNaturals
    <2>4. e \in T
      BY <1>1, LastRateIs DEF RowsInv, Row
    <2>5. Max(T) \in Nat /\ Max(T) <= e /\ Max(T) >= e
      BY <2>2, <2>3, <2>4
    <2> QED  BY <2>5
  <1> QED  BY <1>1, <1>2, <1>3, <1>4

(* What the invariant says of the properties the runs check.               *)
LEMMA RatesInvImplies ==
    ASSUME RatesInv
    PROVE  TypeOK /\ RowsAreRight /\ GroupsAreSeamless /\ CompletedIsCovered
  <1> USE ConstantsAre DEF RatesInv
  <1>1. TypeOK
    <2>1. to \in 0 .. MaxHead + 1
      BY DEF ProcessInv, Blocks
    <2>2. Clean => next <= MaxHead + 1
      BY DEF ProcessInv, DaemonInv, Blocks
    <2>3. \A r \in rows : r.pair \in Pairs /\ r.rate \in Rates /\ r.from \in Blocks
      BY DEF RowsInv, Row
    <2> QED  BY <2>1, <2>2, <2>3 DEF TypeOK, ProcessInv
  <1>2. RowsAreRight
    <2>1. RatesAreRight
      <3> SUFFICES ASSUME Clean, NEW r \in rows
                   PROVE  \A b \in r.from .. (r.to - 1) : b <= head /\ rateAt[r.pair][b] = r.rate
        BY DEF RatesAreRight
      <3>1. PICK e : Seamless(r.pair, e)
        BY DEF DaemonInv, RowsInv, Row
      <3> QED  BY <3>1 DEF Seamless
    <2> QED  BY <2>1 DEF RowsAreRight, RowsInv
  <1>3. GroupsAreSeamless
    <2>1. EveryBlockOnce
      <3> SUFFICES ASSUME Clean, NEW p \in Pairs, NEW mine, mine = {r \in rows : r.pair = p}, mine # {},
                          NEW b \in Min({r.from : r \in mine}) .. (Max({r.to : r \in mine}) - 1)
                   PROVE  Cardinality({r \in mine : Covers(r, p, b)}) = 1
        BY DEF EveryBlockOnce
      <3>1. PICK e \in 1 .. (head + 1) : Seamless(p, e)
        BY DEF DaemonInv
      <3>2. e \in Nat
        BY DEF ProcessInv
      <3> QED  BY <3>1, <3>2, SeamlessOnce
    <2>2. LastBlockIsNext
      <3> SUFFICES ASSUME Clean, rows # {}
                   PROVE  /\ LastBlocks = {Max({r.to : r \in rows})}
                          /\ \A p \in Pairs : \E r \in LastRate(p) : {r.to} = LastBlocks
        BY DEF LastBlockIsNext
      <3>1. PICK e \in 1 .. (head + 1) : \A p \in Pairs : Seamless(p, e)
        BY DEF DaemonInv
      <3>2. e \in Nat
        BY DEF ProcessInv
      <3> QED  BY <3>1, <3>2, SeamlessResumes
    <2> QED  BY <2>1, <2>2 DEF GroupsAreSeamless
  <1>4. CompletedIsCovered
    <2> SUFFICES ASSUME proc = "completed", skips = 0, flags.from # Unset,
                        NEW p \in Pairs, NEW b \in flags.from .. (flags.to - 1)
                 PROVE  CoveredRight(p, b)
      BY DEF CompletedIsCovered, CoveredRight
    <2>1. /\ flags.to # Unset /\ flags.to <= next /\ next \in Nat
          /\ flags.to \in 1 .. (FirstHead + 1) /\ flags.from \in Blocks
      BY DEF ProcessInv
    <2>2. b \in flags.from .. (next - 1)
      BY <2>1 DEF Blocks
    <2> QED  BY <2>1, <2>2 DEF RangeInv
  <1> QED  BY <1>1, <1>2, <1>3, <1>4

(* The whole invariant holds at first.                                     *)
LEMMA RatesInvInit == Init => RatesInv
  <1> SUFFICES ASSUME Init
               PROVE  RatesInv
    OBVIOUS
  <1>1. ProcessInv /\ RowsInv
    BY ProcessInit
  <1>2. DaemonInv
    BY <1>1, ConstantsAre DEF Init, DaemonInv, ProcessInv
  <1>3. RangeInv
    <2> SUFFICES ASSUME flags.from # Unset
                 PROVE  RangeInv
      BY DEF RangeInv
    <2>1. flags.from \in flags.from .. (MaxHead + 1) /\ \A p \in Pairs : Reached(p, flags.from)
      BY <1>1, ConstantsAre DEF Init, Reached, ProcessInv
    <2> QED  BY <2>1 DEF Init, RangeInv
  <1> QED  BY <1>1, <1>2, <1>3 DEF RatesInv

(* The crawler keeps the invariant of its rows, of the daemon that resumes *)
(* at the table's end, and of the range that is crawled from its start     *)
(* again after each crash.                                                 *)
THEOREM ReserveRatesInvariant == Spec => []RatesInv
  <1>1. RatesInv /\ [Next]_vars => RatesInv'
    BY ProcessStep, DaemonStep, RangeStep DEF RatesInv
  <1> QED  BY <1>1, RatesInvInit, PTL DEF Spec

(* Every variable has its type: a planned range ends within the chain and  *)
(* the daemon never resumes past its end.                                  *)
THEOREM ReserveRatesTypes == Spec => []TypeOK
  BY ReserveRatesInvariant, RatesInvImplies, PTL

(* UpsertRates: a group starts at a block with its rate, and the daemon's  *)
(* groups tell the rate of each of their blocks, wherever it was killed.   *)
THEOREM RowsAreAlwaysRight == Spec => []RowsAreRight
  BY ReserveRatesInvariant, RatesInvImplies, PTL

(* The groups of a pair neither overlap nor leave a gap, and LastBlock,    *)
(* which looks at one newest row, finds the block where all pairs end.     *)
THEOREM GroupsStaySeamless == Spec => []GroupsAreSeamless
  BY ReserveRatesInvariant, RatesInvImplies, PTL

(* A range that is completed is covered, although a crash starts it over   *)
(* from --from-block and the groups it stored are written again.           *)
THEOREM CompletedRangesAreCovered == Spec => []CompletedIsCovered
  BY ReserveRatesInvariant, RatesInvImplies, PTL
=============================================================================
