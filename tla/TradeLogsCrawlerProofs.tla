----------------------- MODULE TradeLogsCrawlerProofs ------------------------
(***************************************************************************)
(* The trade logs crawler, for every chain, range, number of workers and   *)
(* crashes: the jobs of a range leave nothing of it out, the rows that are *)
(* stored are canonical and complete up to where the crawler would resume, *)
(* and every user has one first trade, his earliest.                       *)
(*                                                                         *)
(* The argument: the jobs cut the range (CutsRange), so that what a job    *)
(* leaves undecoded at its end, trades of a generation that just starts,   *)
(* is decoded by the next one (JobDecodes).  CrawlerInv says of every job  *)
(* that is stored that nothing before its end is missing (StoredBefore),   *)
(* and of each user that his stored trades are a prefix of all his trades. *)
(***************************************************************************)
EXTENDS TradeLogsCrawler, DataLemmas

(* The blocks at which a generation starts.                                *)
Starts == {StartV2, StartV3, StartV4}

(* A sequence of jobs cuts the range a .. c: it leads from a to c without  *)
(* a gap, in steps of at most MaxBlocks, no generation starts in the midst *)
(* of a job, and none starts after the first block of the last job.        *)
CutsRange(jobs, a, c) ==
    /\ jobs \in Seq([from : Nat, to : Nat])
    /\ Len(jobs) >= 1
    /\ jobs[1].from = a /\ jobs[Len(jobs)].to = c
    /\ \A k \in 1 .. Len(jobs) :
          /\ a <= jobs[k].from /\ jobs[k].from <= jobs[k].to /\ jobs[k].to <= c
          /\ jobs[k].to <= jobs[k].from + MaxBlocks
    /\ \A k \in 2 .. Len(jobs) : jobs[k].from = jobs[k - 1].to
    /\ \A k \in 1 .. Len(jobs) : \A b \in Starts : ~(jobs[k].from < b /\ b < jobs[k].to)
    /\ \A b \in Starts : ~(jobs[Len(jobs)].from < b /\ b <= c)

(* Ranges that meet are cut by the jobs of both.                           *)
LEMMA CutsConcat ==
    ASSUME NEW s, NEW t, NEW a \in Nat, NEW b \in Nat, NEW c \in Nat,
           CutsRange(s, a, b), CutsRange(t, b, c), a <= b, b <= c
    PROVE  CutsRange(s \o t, a, c)
  <1> DEFINE J == [from : Nat, to : Nat]
             u == s \o t
             m == Len(s)
             n == Len(t)
  <1>1. s \in Seq(J) /\ t \in Seq(J) /\ m \in Nat \ {0} /\ n \in Nat \ {0}
    BY LenProperties DEF CutsRange
  <1>2. /\ u \in Seq(J) /\ Len(u) = m + n
        /\ \A k \in 1 .. Len(u) : u[k] = IF k <= m THEN s[k] ELSE t[k - m]
    BY <1>1, ConcatProperties
  <1>3. /\ \A k \in 1 .. m : s[k] \in J
        /\ \A k \in 1 .. n : t[k] \in J
    BY <1>1, ElementOfSeq
  <1>4. /\ s[1].from = a /\ s[m].to = b
        /\ \A k \in 1 .. m :
              /\ a <= s[k].from /\ s[k].from <= s[k].to /\ s[k].to <= b
              /\ s[k].to <= s[k].from + MaxBlocks
              /\ \A x \in Starts : ~(s[k].from < x /\ x < s[k].to)
        /\ \A k \in 2 .. m : s[k].from = s[k - 1].to
    BY DEF CutsRange
  <1>5. /\ t[1].from = b /\ t[n].to = c
        /\ \A k \in 1 .. n :
              /\ b <= t[k].from /\ t[k].from <= t[k].to /\ t[k].to <= c
              /\ t[k].to <= t[k].from + MaxBlocks
              /\ \A x \in Starts : ~(t[k].from < x /\ x < t[k].to)
        /\ \A k \in 2 .. n : t[k].from = t[k - 1].to
        /\ \A x \in Starts : ~(t[n].from < x /\ x <= c)
    BY DEF CutsRange
  <1> HIDE DEF u, m, n
  <1>6. \A k \in 1 .. (m + n) : \/ k \in 1 .. m /\ u[k] = s[k]
                                \/ k - m \in 1 .. n /\ u[k] = t[k - m]
    <2> SUFFICES ASSUME NEW k \in 1 .. (m + n)
                 PROVE  \/ k \in 1 .. m /\ u[k] = s[k]
                        \/ k - m \in 1 .. n /\ u[k] = t[k - m]
      OBVIOUS
    <2>1. k \in 1 .. m \/ (k - m \in 1 .. n /\ ~(k <= m))
      BY <1>1
    <2> QED  BY <1>2, <2>1
  <1>7. u[1] = s[1]
    <2>1. 1 \in 1 .. (m + n) /\ 1 <= m
      BY <1>1
    <2> QED  BY <1>2, <2>1
  <1>8. u[m + n] = t[n]
    <2>1. m + n \in 1 .. (m + n) /\ ~(m + n <= m) /\ (m + n) - m = n
      BY <1>1
    <2> QED  BY <1>2, <2>1
  <1>9. \A k \in 1 .. (m + n) :
            /\ a <= u[k].from /\ u[k].from <= u[k].to /\ u[k].to <= c
            /\ u[k].to <= u[k].from + MaxBlocks
            /\ \A x \in Starts : ~(u[k].from < x /\ x < u[k].to)
    <2> SUFFICES ASSUME NEW k \in 1 .. (m + n)
                 PROVE  /\ a <= u[k].from /\ u[k].from <= u[k].to /\ u[k].to <= c
                        /\ u[k].to <= u[k].from + MaxBlocks
                        /\ \A x \in Starts : ~(u[k].from < x /\ x < u[k].to)
      OBVIOUS
    <2>1. CASE k \in 1 .. m /\ u[k] = s[k]
      <3>1. s[k].from \in Nat /\ s[k].to \in Nat
        BY <1>3, <2>1
      <3> QED  BY <1>4, <2>1, <3>1
    <2>2. CASE k - m \in 1 .. n /\ u[k] = t[k - m]
      <3>1. t[k - m].from \in Nat /\ t[k - m].to \in Nat
        BY <1>3, <2>2
      <3> QED  BY <1>5, <2>2, <3>1
    <2> QED  BY <1>6, <2>1, <2>2
  <1>10. \A k \in 2 .. (m + n) : u[k].from = u[k - 1].to
    <2> SUFFICES ASSUME NEW k \in 2 .. (m + n)
                 PROVE  u[k].from = u[k - 1].to
      OBVIOUS
    <2>1. CASE k <= m
      <3>1. k \in 2 .. m /\ k - 1 <= m /\ k \in 1 .. (m + n) /\ k - 1 \in 1 .. (m + n)
        BY <1>1, <2>1
      <3>2. u[k] = s[k] /\ u[k - 1] = s[k - 1]
        BY <1>2, <2>1, <3>1
      <3> QED  BY <1>4, <3>1, <3>2
    <2>2. CASE k = m + 1
      <3>1. /\ k \in 1 .. (m + n) /\ ~(k <= m) /\ k - m = 1
            /\ k - 1 \in 1 .. (m + n) /\ k - 1 <= m /\ k - 1 = m
        BY <1>1, <2>2
      <3>2. u[k] = t[1] /\ u[k - 1] = s[m]
        BY <1>2, <3>1
      <3> QED  BY <1>4, <1>5, <3>2
    <2>3. CASE k > m + 1
      <3>1. /\ k \in 1 .. (m + n) /\ ~(k <= m) /\ k - m \in 2 .. n
            /\ k - 1 \in 1 .. (m + n) /\ ~(k - 1 <= m) /\ (k - 1) - m = (k - m) - 1
        BY <1>1, <2>3
      <3>2. u[k] = t[k - m] /\ u[k - 1] = t[(k - m) - 1]
        BY <1>2, <3>1
      <3> QED  BY <1>5, <3>1, <3>2
    <2> QED  BY <1>1, <2>1, <2>2, <2>3
  <1>11. m + n >= 1
    BY <1>1
  <1> QED  BY <1>2, <1>4, <1>5, <1>7, <1>8, <1>9, <1>10, <1>11 DEF CutsRange, u

(* Start(g) is one of the starts, and a block.                             *)
LEMMA StartIsStart == \A g \in 2 .. 4 : Start(g) \in Starts /\ Start(g) \in Nat
  BY JobsAssumption DEF Start, Starts

(* The starts at which a chunk is cut.                                     *)
LEMMA CutsAreStarts ==
    ASSUME NEW i \in Nat, NEW end \in Nat
    PROVE  Cuts(i, end) = {b \in Starts : i < b /\ b <= end}
  <1>1. 2 \in 2 .. 4 /\ 3 \in 2 .. 4 /\ 4 \in 2 .. 4
    OBVIOUS
  <1>2. Start(2) = StartV2 /\ Start(3) = StartV3 /\ Start(4) = StartV4
    BY DEF Start
  <1>3. \A b \in Starts : \E g \in 2 .. 4 : b = Start(g)
    BY <1>1, <1>2 DEF Starts
  <1> QED  BY <1>3, StartIsStart DEF Cuts

(* A chunk is cut into one or two jobs.                                    *)
LEMMA SplitChunkCuts ==
    ASSUME NEW i \in Nat, NEW end \in Nat, i <= end, end <= i + MaxBlocks
    PROVE  CutsRange(SplitChunk(i, end), i, end)
  <1> DEFINE s == SplitChunk(i, end)
  <1>1. CASE Cuts(i, end) = {}
    <2>1. s = <<Job(i, end)>>
      BY <1>1 DEF SplitChunk
    <2>2. s = <<[from |-> i, to |-> end]>>
      BY <2>1 DEF Job
    <2>3. \A b \in Starts : ~(i < b /\ b <= end)
      BY <1>1, CutsAreStarts
    <2>4. \A b \in Starts : b \in Nat
      BY JobsAssumption DEF Starts
    <2> HIDE DEF s
    <2>5. s \in Seq([from : Nat, to : Nat]) /\ Len(s) = 1 /\ s[1].from = i /\ s[1].to = end
      BY <2>2
    <2> QED  BY <2>3, <2>4, <2>5 DEF CutsRange, s
  <1>2. CASE Cuts(i, end) # {}
    <2> DEFINE m == Max(Cuts(i, end))
    <2>1. /\ m \in Starts /\ m \in Nat /\ i < m /\ m <= end
          /\ \A b \in Starts : i < b /\ b <= end => m >= b
      <3>1. Cuts(i, end) \subseteq Nat /\ \A b \in Cuts(i, end) : b <= end
        BY CutsAreStarts, JobsAssumption DEF Starts
      <3>2. m \in Cuts(i, end) /\ \A b \in Cuts(i, end) : m >= b
        BY <1>2, <3>1, MaxOfNaturals
      <3> QED  BY <3>1, <3>2, CutsAreStarts
    <2> HIDE DEF m
    <2>2. s = <<[from |-> i, to |-> m], [from |-> m, to |-> end]>>
      BY <1>2 DEF SplitChunk, Job, m
    <2> HIDE DEF s
    <2>3. /\ s \in Seq([from : Nat, to : Nat]) /\ Len(s) = 2
          /\ s[1].from = i /\ s[1].to = m /\ s[2].from = m /\ s[2].to = end
      BY <2>1, <2>2
    <2>4. \A b \in Starts : ~(i < b /\ b < m)
      BY <2>1, JobsAssumption DEF Starts
    <2>5. \A b \in Starts : ~(m < b /\ b <= end)
      BY <2>1, JobsAssumption DEF Starts
    <2>6. \A b \in Starts : b \in Nat
      BY JobsAssumption DEF Starts
    <2>7. MaxBlocks \in Nat
      BY JobsAssumption
    <2>8. 1 .. 2 = {1, 2} /\ 2 .. 2 = {2}
      OBVIOUS
    <2> QED  BY <2>1, <2>3, <2>4, <2>5, <2>6, <2>7, <2>8 DEF CutsRange, s
  <1> QED  BY <1>1, <1>2

(* The loop over the chunks ends right after the one that reaches `to`.    *)
LEMMA NumChunksIsEnough ==
    ASSUME NEW from \in Nat, NEW to \in Nat, from <= to
    PROVE  /\ NumChunks(from, to) \in Nat \ {0}
           /\ \A k \in 1 .. NumChunks(from, to) :
                 from + (k - 1) * MaxBlocks \in Nat /\ from + (k - 1) * MaxBlocks <= to
           /\ to <= from + NumChunks(from, to) * MaxBlocks
  <1> DEFINE d == (to - from) \div MaxBlocks
  <1>1. to - from \in Nat /\ MaxBlocks \in Nat \ {0}
    BY JobsAssumption
  <1>2. d \in Nat /\ d * MaxBlocks <= to - from /\ to - from < (d + 1) * MaxBlocks
    BY <1>1
  <1>3. NumChunks(from, to) = d + 1
    BY DEF NumChunks
  <1> HIDE DEF d
  <1>4. ASSUME NEW k \in 1 .. (d + 1)
        PROVE  (k - 1) * MaxBlocks \in Nat /\ (k - 1) * MaxBlocks <= d * MaxBlocks
    BY <1>1, <1>2
  <1> QED  BY <1>1, <1>2, <1>3, <1>4

(* The jobs of a range cut it.                                             *)
LEMMA JobsCutTheRange ==
    ASSUME NEW from \in Nat, NEW to \in Nat, from <= to
    PROVE  CutsRange(Jobs(from, to), from, to)
  <1> DEFINE n == NumChunks(from, to)
             first(k) == from + (k - 1) * MaxBlocks
             seqs == [k \in 1 .. n |-> Chunk(from, to, k)]
  <1>1. n \in Nat \ {0} /\ MaxBlocks \in Nat \ {0}
    BY NumChunksIsEnough, JobsAssumption
  <1>2. \A k \in 1 .. n :
            /\ first(k) \in Nat /\ first(k) <= to
            /\ CutsRange(seqs[k], first(k), Least(first(k) + MaxBlocks, to))
    <2> SUFFICES ASSUME NEW k \in 1 .. n
                 PROVE  /\ first(k) \in Nat /\ first(k) <= to
                        /\ CutsRange(seqs[k], first(k), Least(first(k) + MaxBlocks, to))
      OBVIOUS
    <2>1. first(k) \in Nat /\ first(k) <= to
      BY NumChunksIsEnough
    <2>2. seqs[k] = SplitChunk(first(k), Least(first(k) + MaxBlocks, to))
      BY DEF Chunk
    <2> HIDE DEF first, seqs
    <2>3. /\ Least(first(k) + MaxBlocks, to) \in Nat
          /\ first(k) <= Least(first(k) + MaxBlocks, to)
          /\ Least(first(k) + MaxBlocks, to) <= first(k) + MaxBlocks
      BY <1>1, <2>1 DEF Least
    <2> QED  BY <2>1, <2>2, <2>3, SplitChunkCuts
  <1>3. \A k \in 1 .. n : first(k + 1) = first(k) + MaxBlocks
    BY <1>1
  <1>4. first(1) = from /\ to <= first(n + 1)
    BY <1>1, NumChunksIsEnough
  <1>5. Len(seqs) = n /\ Jobs(from, to) = FlattenSeq(seqs)
    BY <1>1 DEF Jobs
  <1> HIDE DEF n, first, seqs
  <1>6. PICK f : /\ FlattenSeq(seqs) = f[n]
                 /\ f[1] = seqs[1]
                 /\ \A i \in 2 .. n : f[i] = f[i - 1] \o seqs[i]
    BY <1>1, <1>5, FlattenSeqSteps
  <1> DEFINE end(k) == Least(first(k) + MaxBlocks, to)
             S == {k \in Nat : k + 1 \in 1 .. n => CutsRange(f[k + 1], from, end(k + 1))}
  <1>7. 0 \in S
    BY <1>1, <1>2, <1>4, <1>6
  <1>8. ASSUME NEW k \in Nat, k \in S
        PROVE  k + 1 \in S
    <2> SUFFICES ASSUME (k + 1) + 1 \in 1 .. n
                 PROVE  CutsRange(f[(k + 1) + 1], from, end((k + 1) + 1))
      OBVIOUS
    <2> DEFINE i == k + 1
    <2>1. i \in 1 .. n /\ i + 1 \in 2 .. n /\ i + 1 \in 1 .. n /\ (i + 1) - 1 = i
      BY <1>1
    <2>2. CutsRange(f[i], from, end(i))
      BY <1>8, <2>1
    <2>3. first(i + 1) \in Nat /\ first(i + 1) <= to /\ first(i + 1) = first(i) + MaxBlocks
          /\ first(i) \in Nat
      BY <1>2, <1>3, <2>1
    <2>4. end(i) = first(i + 1)
      BY <2>3 DEF Least
    <2>5. CutsRange(seqs[i + 1], first(i + 1), end(i + 1))
      BY <1>2, <2>1
    <2>6. f[i + 1] = f[i] \o seqs[i + 1]
      BY <1>6, <2>1
    <2>7. end(i + 1) \in Nat /\ first(i + 1) <= end(i + 1)
      BY <1>1, <2>3 DEF Least
    <2>8. from <= first(i + 1)
      <3>1. from <= f[i][1].to /\ f[i][1].to <= end(i) /\ f[i][1].to \in Nat
        <4>1. /\ Len(f[i]) >= 1 /\ f[i] \in Seq([from : Nat, to : Nat])
              /\ \A j \in 1 .. Len(f[i]) :
                    from <= f[i][j].from /\ f[i][j].from <= f[i][j].to /\ f[i][j].to <= end(i)
          BY <2>2 DEF CutsRange
        <4>2. 1 \in 1 .. Len(f[i])
          BY <4>1, LenProperties
        <4>3. f[i][1] \in [from : Nat, to : Nat]
          BY <4>1, <4>2, ElementOfSeq
        <4> QED  BY <4>1, <4>2, <4>3
      <3> QED  BY <2>3, <2>4, <3>1
    <2> HIDE DEF i, end
    <2>9. CutsRange(f[i] \o seqs[i + 1], from, end(i + 1))
      BY <2>2, <2>3, <2>4, <2>5, <2>7, <2>8, CutsConcat
    <2> QED  BY <2>6, <2>9 DEF i
  <1>9. Nat \subseteq S
    <2> HIDE DEF S
    <2> QED  BY <1>7, <1>8, NatSetInduction
  <1>10. CutsRange(f[n], from, end(n))
    <2>1. n - 1 \in Nat /\ (n - 1) + 1 = n /\ n \in 1 .. n
      BY <1>1
    <2> QED  BY <1>9, <2>1
  <1>11. end(n) = to
    <2>1. n \in 1 .. n
      BY <1>1
    <2>2. to <= first(n) + MaxBlocks /\ first(n) \in Nat
      BY <1>2, <1>3, <1>4, <2>1
    <2> QED  BY <1>1, <2>2 DEF Least
  <1> QED  BY <1>5, <1>6, <1>10, <1>11

-----------------------------------------------------------------------------
(* A trade of the last generation in the block in which a new one starts. *)
Outgoing(b, gen) == \E g \in 2 .. 4 : b = Start(g) /\ gen < g

(* All that a range from block b on need not fetch again is stored: the    *)
(* trades of earlier blocks, and those that its decoders may not know.     *)
StoredBefore(b) ==
    \A t \in Trades : t.block < b \/ (t.block = b /\ Outgoing(b, t.gen)) => Canonical(t) \in rows

StoredUpTo(b) == \A t \in Trades : t.block <= b => Canonical(t) \in rows

(* The jobs of the round whose trades are stored.                          *)
StoredJobs == done + (IF between THEN 1 ELSE 0)

ChainInv ==
    /\ head \in 1 .. MaxHead /\ fork \in [Blocks -> {0, 1}] /\ reorgs \in 0 .. MaxReorgs
    /\ crashes \in 0 .. MaxCrashes /\ lost \in 0 .. MaxLost

(* The process, and the jobs of its round.                                 *)
ProcessInv ==
    /\ proc \in {"down", "planning", "crawling", "completed"}
    /\ flags \in Flags
    /\ fromBlock \in Nat \cup {Unset}
    /\ between \in BOOLEAN /\ done \in Nat
    /\ proc = "crawling" =>
          /\ CutsRange(round, round[1].from, round[Len(round)].to)
          /\ round[Len(round)].to <= ConfirmedBlock
          /\ round[Len(round)].to = IF flags.to = Unset THEN fromBlock ELSE flags.to
          /\ StoredJobs <= Len(round)
    /\ proc # "crawling" => round = <<>> /\ done = 0 /\ ~between
    /\ proc \in {"planning", "completed"} /\ flags.to # Unset => flags.to <= ConfirmedBlock
    /\ proc = "completed" => flags.to # Unset
    /\ proc = "planning" /\ fromBlock # Unset => fromBlock <= ConfirmedBlock \/ fromBlock <= FirstBlock

(* What is fetched, and what is stored, is what is on chain and stays.     *)
FetchedInv ==
    /\ DOMAIN fetched \subseteq 1 .. Len(round)
    /\ \A k \in DOMAIN fetched : fetched[k] = OnChain(round[k])

RowsInv ==
    /\ \A r \in rows : r[1] \in Trades /\ r = Canonical(r[1]) /\ r[1].block <= ConfirmedBlock
    /\ bigs \subseteq rows

(* What is stored is complete up to where the work is, and up to where it  *)
(* would be resumed, unless a COMMIT was lost.                             *)
ProgressInv ==
    lost = 0 =>
        /\ rows # {} => StoredBefore(LastBlock)
        /\ proc = "planning" /\ fromBlock # Unset => StoredBefore(fromBlock)
        /\ proc = "crawling" =>
              /\ StoredBefore(round[1].from)
              /\ \A k \in 1 .. Len(round) : k <= StoredJobs => StoredBefore(round[k].to)
              /\ StoredJobs = Len(round) => StoredUpTo(round[Len(round)].to)
        /\ proc = "completed" => StoredUpTo(flags.to)

(* Of each user the trades that are stored are the first ones.             *)
UsersInv ==
    /\ firsts \subseteq rows
    /\ lost = 0 =>
          \A r \in rows : \A t \in Trades :
              t.user = r[1].user /\ Before(t, r[1]) => Canonical(t) \in rows
    /\ OneFirstTrade

BigsInv ==
    crashes = 0 =>
        \A r \in rows : r[1].big /\ Recent(r[1].block) =>
            r \in bigs \/ (between /\ r[1].block >= round[done + 1].from)

CrawlerInv == ChainInv /\ ProcessInv /\ FetchedInv /\ RowsInv /\ ProgressInv /\ UsersInv /\ BigsInv

-----------------------------------------------------------------------------
(* Jobs and decoders.                                                      *)

(* The decoder of a job is that of its first block.                        *)
LEMMA HandlerIsOfFirstBlock ==
    ASSUME NEW job \in [from : Nat, to : Nat], job.from <= job.to
    PROVE  Handler(job) = IF job.from < StartV2 THEN 1 ELSE IF job.from < StartV3 THEN 2
                          ELSE IF job.from < StartV4 THEN 3 ELSE 4
  <1> DEFINE S == {1} \cup {gen \in 2 .. 4 : job.from >= Start(gen) /\ job.to >= Start(gen)}
             h == IF job.from < StartV2 THEN 1 ELSE IF job.from < StartV3 THEN 2
                          ELSE IF job.from < StartV4 THEN 3 ELSE 4
  <1>1. Start(2) = StartV2 /\ Start(3) = StartV3 /\ Start(4) = StartV4
    BY DEF Start
  <1>2. S \in SUBSET Nat /\ S # {} /\ \A n \in S : n <= 4
    OBVIOUS
  <1>3. Max(S) \in S /\ \A n \in S : Max(S) >= n
    BY <1>2, MaxOfNaturals
  <1>4. \A g \in 2 .. 4 : g \in S <=> job.from >= Start(g)
    BY StartIsStart, JobsAssumption
  <1>5. \A g \in S : g = 1 \/ g = 2 \/ g = 3 \/ g = 4
    OBVIOUS
  <1>6. (2 \in S <=> job.from >= StartV2) /\ (3 \in S <=> job.from >= StartV3) /\ (4 \in S <=> job.from >= StartV4)
        /\ 1 \in S
    <2> HIDE DEF S
    <2>1. 2 \in 2 .. 4 /\ 3 \in 2 .. 4 /\ 4 \in 2 .. 4
      OBVIOUS
    <2>2. 1 \in S
      BY DEF S
    <2> QED  BY <1>1, <1>4, <2>1, <2>2
  <1>7. h \in S /\ \A n \in S : h >= n
    <2> HIDE DEF S
    <2> QED  BY <1>5, <1>6, JobsAssumption
  <1>8. Max(S) = h
    <2> DEFINE m == Max(S)
    <2>1. m \in S /\ m >= h /\ h >= m
      BY <1>3, <1>7
    <2>2. m \in Nat /\ h \in Nat
      BY <1>2, <1>3, <1>7
    <2> HIDE DEF S, h, m
    <2>3. m = h
      BY <2>1, <2>2
    <2> QED  BY <2>3 DEF m
  <1> QED  BY <1>8 DEF Handler

(* Which generations meet in the block in which one starts.                *)
LEMMA OutgoingIs ==
    ASSUME NEW b \in Nat, NEW gen \in GenerationsAt(b)
    PROVE  /\ b = StartV2 => (Outgoing(b, gen) <=> gen = 1) /\ gen \in {1, 2}
           /\ b = StartV3 => (Outgoing(b, gen) <=> gen = 2) /\ gen \in {2, 3}
           /\ b = StartV4 => (Outgoing(b, gen) <=> gen = 3) /\ gen \in {3, 4}
           /\ b \notin Starts => ~Outgoing(b, gen)
  <1>1. Start(2) = StartV2 /\ Start(3) = StartV3 /\ Start(4) = StartV4
    BY DEF Start
  <1>2. Outgoing(b, gen) <=> \/ b = StartV2 /\ gen < 2
                             \/ b = StartV3 /\ gen < 3
                             \/ b = StartV4 /\ gen < 4
    <2>1. 2 .. 4 = {2, 3, 4}
      OBVIOUS
    <2> QED  BY <1>1, <2>1 DEF Outgoing
  <1>3. gen \in 1 .. 4 /\ (gen = 1 \/ gen = 2 \/ gen = 3 \/ gen = 4)
    BY DEF GenerationsAt
  <1>4. /\ gen = 1 => b <= StartV2
        /\ gen = 2 => b >= StartV2 /\ b <= StartV3
        /\ gen = 3 => b >= StartV3
        /\ gen = 4 => b >= StartV4
    BY DEF GenerationsAt
  <1> QED  BY <1>2, <1>3, <1>4, JobsAssumption DEF Starts

(* What a job decodes: the trades in its midst, in its first block those   *)
(* of the newest generation, in its last one those of the generation it    *)
(* began with.                                                             *)
LEMMA JobDecodes ==
    ASSUME NEW job \in [from : Nat, to : Nat], job.from <= job.to, job.to <= job.from + MaxBlocks,
           \A x \in Starts : ~(job.from < x /\ x < job.to),
           NEW b \in Nat, NEW gen \in GenerationsAt(b), job.from <= b, b <= job.to
    PROVE  /\ b = job.from /\ ~Outgoing(b, gen) => Decodes(job, gen)
           /\ job.from < b /\ b < job.to => Decodes(job, gen)
           /\ job.from < b /\ b \notin Starts => Decodes(job, gen)
           /\ job.from < b /\ Outgoing(b, gen) => Decodes(job, gen)
           /\ job.from < b /\ b \in Starts /\ Decodes(job, gen) => Outgoing(b, gen)
  <1>1. Handler(job) = IF job.from < StartV2 THEN 1 ELSE IF job.from < StartV3 THEN 2
                       ELSE IF job.from < StartV4 THEN 3 ELSE 4
    BY HandlerIsOfFirstBlock
  <1>2. gen = 1 \/ gen = 2 \/ gen = 3 \/ gen = 4
    BY DEF GenerationsAt
  <1>3. /\ gen = 1 => b <= StartV2
        /\ gen = 2 => b >= StartV2 /\ b <= StartV3
        /\ gen = 3 => b >= StartV3
        /\ gen = 4 => b >= StartV4
    BY DEF GenerationsAt
  <1>4. /\ b = StartV2 => (Outgoing(b, gen) <=> gen = 1) /\ gen \in {1, 2}
        /\ b = StartV3 => (Outgoing(b, gen) <=> gen = 2) /\ gen \in {2, 3}
        /\ b = StartV4 => (Outgoing(b, gen) <=> gen = 3) /\ gen \in {3, 4}
        /\ b \notin Starts => ~Outgoing(b, gen)
    BY OutgoingIs
  <1>5. /\ ~(job.from < StartV2 /\ StartV2 < job.to)
        /\ ~(job.from < StartV3 /\ StartV3 < job.to)
        /\ ~(job.from < StartV4 /\ StartV4 < job.to)
    BY DEF Starts
  <1>6. Decodes(job, gen) <=> gen = Handler(job) \/ (gen = 3 /\ Handler(job) = 4)
    BY DEF Decodes
  <1>7. b \in Starts <=> b = StartV2 \/ b = StartV3 \/ b = StartV4
    BY DEF Starts
  <1> QED  BY <1>1, <1>2, <1>3, <1>4, <1>5, <1>6, <1>7, JobsAssumption
-----------------------------------------------------------------------------
(* What the steps of the invariant need.                                   *)

(* What is assumed of a trade.                                             *)
LEMMA TradeIs ==
    ASSUME NEW t \in Trades
    PROVE  /\ t.block \in Nat \ {0} /\ t.idx \in Nat /\ t.gen \in GenerationsAt(t.block)
           /\ t.gen \in 1 .. 4 /\ FirstBlock <= t.block
  BY CrawlerAssumption, DeploymentAssumption DEF GenerationsAt

(* The numbers of blocks.                                                  *)
LEMMA BlocksAre ==
    ASSUME ChainInv
    PROVE  /\ head \in Nat /\ ConfirmedBlock \in Int /\ ConfirmedBlock <= head /\ head <= MaxHead
           /\ MaxHead \in Nat /\ FirstBlock \in Nat \ {0} /\ FirstBlock < StartV2
           /\ Confirmations \in Nat /\ StartV2 \in Nat
  BY CrawlerAssumption, DeploymentAssumption, JobsAssumption DEF ChainInv, ConfirmedBlock

(* Nothing is before the first block, where no generation starts.          *)
LEMMA NothingBefore ==
    ASSUME NEW b \in Nat, b <= FirstBlock
    PROVE  \A t \in Trades : ~(t.block < b \/ (t.block = b /\ Outgoing(b, t.gen)))
  <1> SUFFICES ASSUME NEW t \in Trades
               PROVE  ~(t.block < b \/ (t.block = b /\ Outgoing(b, t.gen)))
    OBVIOUS
  <1>1. t.block \in Nat /\ FirstBlock <= t.block /\ t.gen \in GenerationsAt(t.block)
    BY TradeIs
  <1>2. b \notin Starts
    BY CrawlerAssumption, DeploymentAssumption, JobsAssumption DEF Starts
  <1> QED  BY <1>1, <1>2, OutgoingIs, CrawlerAssumption

(* The last block of the stored trades.                                    *)
LEMMA LastBlockOf ==
    ASSUME NEW R, R # {}, NEW bound \in Nat,
           \A r \in R : r[1].block \in Nat /\ r[1].block <= bound
    PROVE  /\ Max({r[1].block : r \in R}) \in Nat
           /\ \E r \in R : r[1].block = Max({q[1].block : q \in R})
           /\ \A r \in R : r[1].block <= Max({q[1].block : q \in R})
  <1> DEFINE T == {q[1].block : q \in R}
  <1>1. T \in SUBSET Nat /\ T # {} /\ \A n \in T : n <= bound
    OBVIOUS
  <1>2. Max(T) \in T /\ \A n \in T : Max(T) >= n
    BY <1>1, MaxOfNaturals
  <1> QED  BY <1>1, <1>2

(* MAX(block_number) of the tradelogs table, unless it is empty.           *)
LEMMA LastBlockIs ==
    ASSUME ChainInv, RowsInv, rows # {}
    PROVE  /\ LastBlock \in Nat \ {0} /\ LastBlock <= ConfirmedBlock
           /\ \A r \in rows : r[1].block <= LastBlock
           /\ \E r \in rows : r[1].block = LastBlock
  <1>1. \A r \in rows : r[1].block \in Nat \ {0} /\ r[1].block <= ConfirmedBlock /\ r[1].block <= head
    BY TradeIs, BlocksAre DEF RowsInv
  <1>2. head \in Nat
    BY BlocksAre
  <1>3. /\ Max({r[1].block : r \in rows}) \in Nat
        /\ \E r \in rows : r[1].block = Max({q[1].block : q \in rows})
        /\ \A r \in rows : r[1].block <= Max({q[1].block : q \in rows})
    BY <1>1, <1>2, LastBlockOf
  <1>4. LastBlock = Max({r[1].block : r \in rows})
    BY DEF LastBlock
  <1> HIDE DEF LastBlock
  <1> QED  BY <1>1, <1>3, <1>4

(* What a job of confirmed blocks fetches.                                 *)
LEMMA OnChainIs ==
    ASSUME ChainInv, NEW job \in [from : Nat, to : Nat], job.to <= ConfirmedBlock
    PROVE  /\ \A r \in OnChain(job) :
                 /\ r[1] \in Trades /\ r = Canonical(r[1])
                 /\ job.from <= r[1].block /\ r[1].block <= job.to /\ Decodes(job, r[1].gen)
           /\ \A t \in Trades :
                 job.from <= t.block /\ t.block <= job.to /\ Decodes(job, t.gen)
                 => Canonical(t) \in OnChain(job)
  <1>1. Least(job.to, head) = job.to /\ job.to \in Nat /\ job.from \in Nat
    BY BlocksAre DEF Least
  <1>2. \A t \in Trades : t.block \in Nat
    BY TradeIs
  <1>3. OnChain(job) = {Canonical(t) : t \in
            {u \in Trades : u.block \in job.from .. job.to /\ Decodes(job, u.gen)}}
    BY <1>1 DEF OnChain, Canonical
  <1>4. \A t : Canonical(t)[1] = t
    BY DEF Canonical
  <1> QED  BY <1>1, <1>2, <1>3, <1>4

(* What is stored before a block is stored before any earlier one.         *)
LEMMA StoredBeforeLess ==
    ASSUME NEW b \in Nat, NEW c \in Nat, b <= c, StoredBefore(c)
    PROVE  StoredBefore(b)
  BY TradeIs DEF StoredBefore

(* What is stored up to a block is stored before it.                       *)
LEMMA StoredUpToIsBefore ==
    ASSUME NEW b \in Nat, StoredUpTo(b)
    PROVE  StoredBefore(b)
  BY TradeIs DEF StoredBefore, StoredUpTo

(* Facts about the jobs of a round.                                        *)
LEMMA RoundIs ==
    ASSUME ProcessInv, ChainInv, proc = "crawling"
    PROVE  /\ Len(round) \in Nat \ {0}
           /\ \A k \in 1 .. Len(round) :
                 /\ round[k] \in [from : Nat, to : Nat]
                 /\ round[k].from \in Nat /\ round[k].to \in Nat
                 /\ round[k].from <= round[k].to /\ round[k].to <= ConfirmedBlock
                 /\ round[k].to <= round[k].from + MaxBlocks
                 /\ \A x \in Starts : ~(round[k].from < x /\ x < round[k].to)
           /\ \A k \in 2 .. Len(round) : round[k].from = round[k - 1].to
           /\ \A x \in Starts : ~(round[Len(round)].from < x /\ x <= round[Len(round)].to)
  <1> DEFINE n == Len(round)
  <1>1. /\ round \in Seq([from : Nat, to : Nat]) /\ n >= 1
        /\ \A k \in 1 .. n :
              /\ round[1].from <= round[k].from /\ round[k].from <= round[k].to
              /\ round[k].to <= round[n].to
              /\ round[k].to <= round[k].from + MaxBlocks
              /\ \A x \in Starts : ~(round[k].from < x /\ x < round[k].to)
        /\ \A k \in 2 .. n : round[k].from = round[k - 1].to
        /\ \A x \in Starts : ~(round[n].from < x /\ x <= round[n].to)
        /\ round[n].to <= ConfirmedBlock
    BY DEF ProcessInv, CutsRange
  <1>2. n \in Nat
    BY <1>1, LenProperties
  <1>3. \A k \in 1 .. n : round[k] \in [from : Nat, to : Nat]
    BY <1>1, ElementOfSeq
  <1>4. ConfirmedBlock \in Int
    BY BlocksAre
  <1> HIDE DEF n
  <1>5. \A k \in 1 .. n : round[k].from \in Nat /\ round[k].to \in Nat
    BY <1>3
  <1>6. round[n].to \in Nat
    BY <1>1, <1>2, <1>5
  <1>7. \A k \in 1 .. n : round[k].to <= ConfirmedBlock
    BY <1>1, <1>4, <1>5, <1>6
  <1> QED  BY <1>1, <1>2, <1>3, <1>5, <1>7 DEF n
-----------------------------------------------------------------------------
(* The steps.                                                              *)

(* The chain grows, and what it replaces was not confirmed.                *)
LEMMA ChainSteps ==
    ASSUME CrawlerInv, Mine \/ \E d \in 1 .. MaxReorgDepth : Reorg(d)
    PROVE  CrawlerInv'
  <1> USE DEF CrawlerInv
  <1>1. /\ head' \in 1 .. MaxHead /\ head <= head'
        /\ fork' \in [Blocks -> {0, 1}] /\ reorgs' \in 0 .. MaxReorgs
        /\ \A b \in Blocks : b <= ConfirmedBlock => fork'[b] = fork[b]
        /\ UNCHANGED <<proc, flags, fromBlock, round, fetched, done, between, dbVars, crashes>>
    <2>1. CASE Mine
      BY <2>1, BlocksAre DEF Mine, ChainInv
    <2>2. CASE \E d \in 1 .. MaxReorgDepth : Reorg(d)
      <3>0. PICK d \in 1 .. MaxReorgDepth : Reorg(d)
        BY <2>2
      <3>1. /\ reorgs \in Nat /\ MaxReorgs \in Nat /\ reorgs < MaxReorgs /\ reorgs' = reorgs + 1
            /\ head' = head
            /\ fork' = [b \in Blocks |-> IF b > head - d /\ b <= head THEN 1 - fork[b] ELSE fork[b]]
            /\ UNCHANGED <<proc, flags, fromBlock, round, fetched, done, between, dbVars, crashes>>
        BY <3>0, CrawlerAssumption DEF Reorg, ChainInv
      <3>2. fork' \in [Blocks -> {0, 1}]
        BY <3>1 DEF ChainInv
      <3>3. \A b \in Blocks : b <= ConfirmedBlock => ~(b > head - d)
        BY BlocksAre, CrawlerAssumption, DeploymentAssumption DEF ConfirmedBlock, Blocks
      <3>4. \A b \in Blocks : b <= ConfirmedBlock => fork'[b] = fork[b]
        BY <3>1, <3>3
      <3> QED  BY <3>1, <3>2, <3>4 DEF ChainInv
    <2> QED  BY <2>1, <2>2
  <1>2. ChainInv'
    BY <1>1 DEF ChainInv, dbVars
  <1>3. head \in Nat /\ head' \in Nat /\ ConfirmedBlock \in Int /\ ConfirmedBlock' \in Int
        /\ ConfirmedBlock <= ConfirmedBlock' /\ ConfirmedBlock <= head /\ ConfirmedBlock <= head'
    BY <1>1, BlocksAre DEF ConfirmedBlock, ChainInv
  <1>4. \A t \in Trades : t.block <= ConfirmedBlock => Canonical(t)' = Canonical(t)
    <2>1. \A t \in Trades : t.block <= ConfirmedBlock => t.block \in Blocks
      BY <1>3, TradeIs, BlocksAre DEF Blocks
    <2> QED  BY <1>1, <2>1 DEF Canonical
  <1>5. \A b \in Nat : b <= ConfirmedBlock \/ b <= FirstBlock =>
            (StoredBefore(b) => StoredBefore(b)')
    <2> SUFFICES ASSUME NEW b \in Nat, b <= ConfirmedBlock \/ b <= FirstBlock, StoredBefore(b),
                        NEW t \in Trades, t.block < b \/ (t.block = b /\ Outgoing(b, t.gen))
                 PROVE  Canonical(t)' \in rows'
      BY DEF StoredBefore
    <2>1. b <= ConfirmedBlock
      BY NothingBefore
    <2>2. t.block <= ConfirmedBlock
      BY <1>3, <2>1, TradeIs
    <2> QED  BY <1>1, <1>4, <2>2 DEF StoredBefore, dbVars
  <1>6. \A b \in Nat : b <= ConfirmedBlock => (StoredUpTo(b) => StoredUpTo(b)')
    <2> SUFFICES ASSUME NEW b \in Nat, b <= ConfirmedBlock, StoredUpTo(b), NEW t \in Trades, t.block <= b
                 PROVE  Canonical(t)' \in rows'
      BY DEF StoredUpTo
    <2>1. t.block <= ConfirmedBlock
      BY <1>3, TradeIs
    <2> QED  BY <1>1, <1>4, <2>1 DEF StoredUpTo, dbVars
  <1>7. ProcessInv'
    <2>1. proc = "crawling" => round[Len(round)].to \in Int
      BY RoundIs, BlocksAre
    <2>2. \A f \in Flags : f.to # Unset => f.to \in Nat
      BY CrawlerAssumption
    <2>3. (proc = "crawling" => round[Len(round)].to <= ConfirmedBlock')
      BY <1>3, <2>1 DEF ProcessInv
    <2>4. proc \in {"planning", "completed"} /\ flags.to # Unset => flags.to <= ConfirmedBlock'
      BY <1>3, <2>2 DEF ProcessInv
    <2>5. proc = "planning" /\ fromBlock # Unset => fromBlock <= ConfirmedBlock' \/ fromBlock <= FirstBlock
      BY <1>3 DEF ProcessInv
    <2> HIDE DEF ConfirmedBlock
    <2> QED  BY <1>1, <2>3, <2>4, <2>5 DEF ProcessInv, StoredJobs
  <1>8. FetchedInv'
    <2>1. \A k \in DOMAIN fetched : OnChain(round[k])' = OnChain(round[k])
      <3> SUFFICES ASSUME NEW k \in DOMAIN fetched
                   PROVE  OnChain(round[k])' = OnChain(round[k])
        OBVIOUS
      <3>1. proc = "crawling"
        BY DEF FetchedInv, ProcessInv
      <3>2. round[k] \in [from : Nat, to : Nat] /\ round[k].to <= ConfirmedBlock
        BY <3>1, RoundIs DEF FetchedInv
      <3> DEFINE job == round[k]
      <3>3. job.to \in Nat /\ job.from \in Nat /\ job.to <= head /\ job.to <= head'
        BY <1>3, <3>2
      <3>4. Least(job.to, head) = job.to /\ Least(job.to, head') = job.to
        BY <3>3 DEF Least
      <3>5. \A t \in Trades : t.block \in job.from .. job.to => Canonical(t)' = Canonical(t)
        BY <1>3, <1>4, <3>2, <3>3, TradeIs
      <3>6. OnChain(job) = {Canonical(t) : t \in
                {u \in Trades : u.block \in job.from .. job.to /\ Decodes(job, u.gen)}}
        BY <3>4 DEF OnChain, Canonical
      <3>7. OnChain(job)' = {Canonical(t)' : t \in
                {u \in Trades : u.block \in job.from .. job.to /\ Decodes(job, u.gen)}}
        BY <1>1, <3>4 DEF OnChain, Canonical
      <3> QED  BY <3>5, <3>6, <3>7
    <2> QED  BY <1>1, <2>1 DEF FetchedInv
  <1>9. RowsInv'
    <2>1. \A r \in rows : r[1].block \in Nat /\ r[1].block <= ConfirmedBlock'
      BY <1>3, TradeIs DEF RowsInv
    <2> QED  BY <1>1, <1>4, <2>1 DEF RowsInv, dbVars
  <1>10. ProgressInv'
    <2>1. ASSUME lost = 0, rows # {}
          PROVE  StoredBefore(LastBlock)'
      <3>1. LastBlock \in Nat /\ LastBlock <= ConfirmedBlock
        BY <2>1, LastBlockIs
      <3>2. LastBlock' = LastBlock
        BY <1>1 DEF LastBlock, dbVars
      <3>3. StoredBefore(LastBlock)
        BY <2>1 DEF ProgressInv
      <3>4. PICK b \in Nat : b = LastBlock
        BY <3>1
      <3>5. StoredBefore(b)'
        BY <1>5, <3>1, <3>3, <3>4
      <3> HIDE DEF LastBlock
      <3> QED  BY <3>2, <3>4, <3>5 DEF StoredBefore
    <2>2. ASSUME lost = 0, proc = "planning", fromBlock # Unset
          PROVE  StoredBefore(fromBlock)'
      <3>1. PICK b \in Nat : b = fromBlock
        BY <2>2 DEF ProcessInv
      <3>2. StoredBefore(b)'
        BY <1>5, <2>2, <3>1 DEF ProgressInv, ProcessInv
      <3> QED  BY <1>1, <3>1, <3>2 DEF StoredBefore
    <2>3. ASSUME lost = 0, proc = "crawling"
          PROVE  /\ StoredBefore(round[1].from)'
                 /\ \A k \in 1 .. Len(round) : k <= StoredJobs => StoredBefore(round[k].to)'
                 /\ StoredJobs = Len(round) => StoredUpTo(round[Len(round)].to)'
      <3>1. /\ 1 \in 1 .. Len(round) /\ Len(round) \in 1 .. Len(round)
            /\ \A k \in 1 .. Len(round) :
                  /\ round[k].from \in Nat /\ round[k].to \in Nat
                  /\ round[k].from <= ConfirmedBlock /\ round[k].to <= ConfirmedBlock
        BY <1>3, <2>3, RoundIs
      <3>2. StoredBefore(round[1].from)'
        <4>1. PICK b \in Nat : b = round[1].from
          BY <3>1
        <4>2. StoredBefore(b)'
          BY <1>5, <2>3, <3>1, <4>1 DEF ProgressInv
        <4> QED  BY <1>1, <4>1, <4>2 DEF StoredBefore
      <3>3. ASSUME NEW k \in 1 .. Len(round), k <= StoredJobs
            PROVE  StoredBefore(round[k].to)'
        <4>1. PICK b \in Nat : b = round[k].to
          BY <3>1
        <4>2. StoredBefore(b)'
          BY <1>5, <2>3, <3>1, <3>3, <4>1 DEF ProgressInv
        <4> QED  BY <1>1, <4>1, <4>2 DEF StoredBefore
      <3>4. ASSUME StoredJobs = Len(round)
            PROVE  StoredUpTo(round[Len(round)].to)'
        <4>1. PICK b \in Nat : b = round[Len(round)].to
          BY <3>1
        <4>2. StoredUpTo(b)'
          BY <1>6, <2>3, <3>1, <3>4, <4>1 DEF ProgressInv
        <4> QED  BY <1>1, <4>1, <4>2 DEF StoredUpTo
      <3> QED  BY <3>2, <3>3, <3>4
    <2>4. ASSUME lost = 0, proc = "completed"
          PROVE  StoredUpTo(flags.to)'
      <3>1. PICK b \in Nat : b = flags.to
        BY <2>4, CrawlerAssumption DEF ProcessInv
      <3>2. StoredUpTo(b)'
        BY <1>6, <2>4, <3>1 DEF ProgressInv, ProcessInv
      <3> QED  BY <1>1, <3>1, <3>2 DEF StoredUpTo
    <2>5. /\ lost' = lost /\ rows' = rows /\ proc' = proc /\ fromBlock' = fromBlock
          /\ round' = round /\ done' = done /\ between' = between
      BY <1>1 DEF dbVars
    <2> QED  BY <2>1, <2>2, <2>3, <2>4, <2>5 DEF ProgressInv, StoredJobs
  <1>11. UsersInv'
    <2>1. \A r \in rows : r[1] \in Trades
      BY DEF RowsInv
    <2>2. ASSUME lost = 0, NEW r \in rows, NEW t \in Trades, t.user = r[1].user, Before(t, r[1])
          PROVE  Canonical(t)' \in rows
      <3>1. t.block <= r[1].block /\ r[1].block <= ConfirmedBlock /\ t.block \in Nat /\ r[1].block \in Nat
        BY <2>1, <2>2, TradeIs DEF Before, RowsInv
      <3> QED  BY <1>3, <1>4, <2>2, <3>1 DEF UsersInv
    <2>3. OneFirstTrade'
      BY <1>1 DEF UsersInv, OneFirstTrade, dbVars
    <2> QED  BY <1>1, <2>2, <2>3 DEF UsersInv, dbVars
  <1>12. BigsInv'
    <2>1. \A r \in rows : Recent(r[1].block)' => Recent(r[1].block)
      <3>1. \A r \in rows : r[1].block \in Nat
        BY TradeIs DEF RowsInv
      <3> QED  BY <1>1, <1>3, <3>1, CrawlerAssumption DEF Recent
    <2> QED  BY <1>1, <2>1 DEF BigsInv, dbVars, Recent
  <1> QED  BY <1>2, <1>7, <1>8, <1>9, <1>10, <1>11, <1>12

(* Neither the chain nor the database changes.                             *)
LEMMA QuietSteps ==
    ASSUME RowsInv, UsersInv, UNCHANGED <<chainVars, dbVars>>
    PROVE  /\ RowsInv' /\ UsersInv'
           /\ lost' = lost /\ rows' = rows /\ bigs' = bigs
           /\ LastBlock' = LastBlock /\ ConfirmedBlock' = ConfirmedBlock
           /\ \A b : StoredBefore(b)' = StoredBefore(b)
           /\ StoredBefore(LastBlock)' = StoredBefore(LastBlock)
           /\ \A b : StoredUpTo(b)' = StoredUpTo(b)
           /\ \A job : OnChain(job)' = OnChain(job)
           /\ \A b : Recent(b)' = Recent(b)
           /\ (ChainInv /\ crashes' \in 0 .. MaxCrashes => ChainInv')
  <1>1. head' = head /\ fork' = fork /\ reorgs' = reorgs /\ rows' = rows /\ firsts' = firsts
        /\ bigs' = bigs /\ lost' = lost
    BY DEF chainVars, dbVars
  <1> QED  BY <1>1 DEF RowsInv, UsersInv, OneFirstTrade, Canonical, LastBlock, ConfirmedBlock,
              StoredBefore, StoredUpTo, OnChain, Recent, ChainInv, Blocks

(* Resuming from the last stored block, or from the first of all.          *)
LEMMA ResumeStep ==
    ASSUME CrawlerInv, Resume
    PROVE  CrawlerInv'
  <1>1. UNCHANGED <<chainVars, dbVars>>
    BY DEF Resume
  <1>2. /\ proc = "planning" /\ proc' = "planning" /\ flags' = flags /\ round' = round
        /\ fetched' = fetched /\ done' = done /\ between' = between /\ crashes' = crashes
        /\ round = <<>> /\ done = 0 /\ ~between
        /\ fromBlock' = IF LastBlock = 0 THEN FirstBlock ELSE LastBlock
    BY DEF Resume, CrawlerInv, ProcessInv
  <1>3. ChainInv' /\ RowsInv' /\ UsersInv'
    BY <1>1, <1>2, QuietSteps DEF CrawlerInv, ChainInv
  <1>4. /\ fromBlock' \in Nat /\ (fromBlock' <= ConfirmedBlock \/ fromBlock' <= FirstBlock)
        /\ lost = 0 => StoredBefore(fromBlock')
    <2>1. CASE LastBlock = 0
      <3>1. fromBlock' = FirstBlock /\ FirstBlock \in Nat
        BY <1>2, <2>1, CrawlerAssumption
      <3> QED  BY <3>1, NothingBefore DEF StoredBefore
    <2>2. CASE LastBlock # 0
      <3>1. rows # {}
        BY <2>2 DEF LastBlock
      <3>2. fromBlock' = LastBlock
        BY <1>2, <2>2
      <3> QED  BY <3>1, <3>2, LastBlockIs DEF CrawlerInv, ProgressInv
    <2> QED  BY <2>1, <2>2
  <1>5. ProcessInv'
    BY <1>1, <1>2, <1>4, QuietSteps DEF CrawlerInv, ProcessInv
  <1>6. FetchedInv'
    BY <1>1, <1>2, QuietSteps DEF CrawlerInv, FetchedInv
  <1>7. ProgressInv'
    <2>1. lost = 0 /\ rows # {} => StoredBefore(LastBlock)'
      BY <1>1, QuietSteps DEF CrawlerInv, ProgressInv
    <2>2. lost = 0 => StoredBefore(fromBlock)'
      BY <1>1, <1>4 DEF StoredBefore, Canonical, chainVars, dbVars
    <2> QED  BY <1>1, <1>2, <2>1, <2>2, QuietSteps DEF CrawlerInv, ProgressInv
  <1>8. BigsInv'
    BY <1>1, <1>2, QuietSteps DEF CrawlerInv, BigsInv
  <1> QED  BY <1>3, <1>5, <1>6, <1>7, <1>8 DEF CrawlerInv

(* A round is planned from where everything before is stored.              *)
LEMMA PlanStep ==
    ASSUME CrawlerInv, proc = "planning", fromBlock # Unset,
           NEW to \in Nat, fromBlock <= to, to <= ConfirmedBlock,
           flags.to # Unset => to = flags.to,
           StartRound(fromBlock, to),
           fromBlock' = IF flags.to = Unset THEN to ELSE fromBlock,
           UNCHANGED <<chainVars, flags, dbVars, crashes>>
    PROVE  CrawlerInv'
  <1> DEFINE n == Len(round')
  <1>1. fromBlock \in Nat /\ ConfirmedBlock \in Int
    BY BlocksAre DEF CrawlerInv, ProcessInv
  <1>2. /\ proc' = "crawling" /\ fetched' = <<>> /\ done' = 0 /\ between' = FALSE
        /\ flags' = flags /\ crashes' = crashes /\ UNCHANGED <<chainVars, dbVars>>
    BY DEF StartRound
  <1>3. CutsRange(round', fromBlock, to)
    BY <1>1, JobsCutTheRange DEF StartRound
  <1>4. /\ n \in Nat \ {0} /\ round'[1].from = fromBlock /\ round'[n].to = to
        /\ CutsRange(round', round'[1].from, round'[n].to)
    <2>1. round'[1].from = fromBlock /\ round'[n].to = to /\ n >= 1
          /\ round' \in Seq([from : Nat, to : Nat])
      BY <1>3 DEF CutsRange
    <2>2. n \in Nat
      BY <2>1, LenProperties
    <2> HIDE DEF n
    <2> QED  BY <1>3, <2>1, <2>2
  <1>5. ChainInv' /\ RowsInv' /\ UsersInv'
    BY <1>2, QuietSteps DEF CrawlerInv, ChainInv
  <1>6. StoredJobs' = 0
    BY <1>2 DEF StoredJobs
  <1>7. ProcessInv'
    <2>1. fromBlock' \in Nat \cup {Unset} /\ flags' \in Flags
      BY <1>1, <1>2 DEF CrawlerInv, ProcessInv
    <2>2. round'[n].to <= ConfirmedBlock'
      BY <1>2, <1>4, QuietSteps DEF CrawlerInv
    <2>3. round'[n].to = IF flags'.to = Unset THEN fromBlock' ELSE flags'.to
      BY <1>2, <1>4
    <2>4. /\ CutsRange(round, round[1].from, round[Len(round)].to)'
          /\ (round[Len(round)].to <= ConfirmedBlock)'
          /\ (StoredJobs <= Len(round))'
      BY <1>4, <1>6, <2>2
    <2> HIDE DEF n, ConfirmedBlock, StoredJobs, CutsRange
    <2> QED  BY <1>2, <2>1, <2>3, <2>4 DEF ProcessInv, n
  <1>8. FetchedInv'
    BY <1>2 DEF FetchedInv
  <1>9. ProgressInv'
    <2>1. lost = 0 => StoredBefore(fromBlock)
      BY DEF CrawlerInv, ProgressInv
    <2>2. lost = 0 => StoredBefore(round[1].from)'
      BY <1>2, <1>4, <2>1 DEF StoredBefore, Canonical, chainVars, dbVars
    <2>3. lost = 0 /\ rows # {} => StoredBefore(LastBlock)'
      BY <1>2, QuietSteps DEF CrawlerInv, ProgressInv
    <2> QED  BY <1>2, <1>4, <1>6, <2>2, <2>3, QuietSteps DEF CrawlerInv, ProgressInv
  <1>10. BigsInv'
    BY <1>2, QuietSteps DEF CrawlerInv, BigsInv, ProcessInv
  <1> QED  BY <1>5, <1>7, <1>8, <1>9, <1>10 DEF CrawlerInv

(* Both planners plan such a round.                                        *)
LEMMA PlanSteps ==
    ASSUME CrawlerInv, PlanFixed \/ PlanDaemon
    PROVE  CrawlerInv'
  <1>1. CASE PlanFixed
    <2>1. flags.to \in Nat /\ flags.to <= ConfirmedBlock
      BY <1>1, CrawlerAssumption DEF PlanFixed, CrawlerInv, ProcessInv
    <2> QED  BY <1>1, <2>1, PlanStep DEF PlanFixed
  <1>2. CASE PlanDaemon
    <2>1. ConfirmedBlock \in Nat /\ fromBlock <= ConfirmedBlock
      BY <1>2, BlocksAre DEF PlanDaemon, CrawlerInv, ProcessInv
    <2>2. ConfirmedBlock <= ConfirmedBlock
      BY <2>1
    <2> HIDE DEF ConfirmedBlock
    <2> QED  BY <1>2, <2>1, <2>2, PlanStep DEF PlanDaemon
  <1> QED  BY <1>1, <1>2

(* The process ends, or dies: only the database is left.                   *)
LEMMA DownSteps ==
    ASSUME CrawlerInv, PlanRefused \/ Crash
    PROVE  CrawlerInv'
  <1>1. /\ UNCHANGED <<chainVars, dbVars>> /\ flags' = flags
        /\ proc' = "down" /\ round' = <<>> /\ done' = 0 /\ between' = FALSE
        /\ fromBlock' \in Nat \cup {Unset}
        /\ \/ crashes' = crashes /\ fetched' = fetched
           \/ crashes' \in 1 .. MaxCrashes /\ fetched' = <<>>
    BY CrawlerAssumption DEF PlanRefused, Crash, CrawlerInv, ProcessInv, ChainInv
  <1>2. DOMAIN fetched = {} \/ fetched' = <<>>
    BY DEF PlanRefused, Crash, CrawlerInv, ProcessInv, FetchedInv
  <1>3. ChainInv' /\ RowsInv' /\ UsersInv'
    <2>1. crashes' \in 0 .. MaxCrashes
      BY <1>1 DEF CrawlerInv, ChainInv
    <2> QED  BY <1>1, <2>1, QuietSteps DEF CrawlerInv
  <1>4. ProcessInv'
    BY <1>1 DEF CrawlerInv, ProcessInv
  <1>5. FetchedInv'
    BY <1>1, <1>2 DEF CrawlerInv, FetchedInv
  <1>6. ProgressInv'
    BY <1>1, QuietSteps DEF CrawlerInv, ProgressInv
  <1>7. BigsInv'
    <2>1. CASE crashes' = crashes /\ fetched' = fetched
      <3>1. proc = "planning" \/ crashes' # 0
        BY <1>1, <2>1, CrawlerAssumption DEF PlanRefused, Crash, CrawlerInv, ChainInv
      <3> QED  BY <1>1, <2>1, <3>1, QuietSteps DEF CrawlerInv, BigsInv, ProcessInv
    <2>2. CASE crashes' \in 1 .. MaxCrashes
      BY <2>2 DEF BigsInv
    <2> QED  BY <1>1, <2>1, <2>2
  <1> QED  BY <1>3, <1>4, <1>5, <1>6, <1>7 DEF CrawlerInv

(* A started process begins where nothing is before, or asks the database. *)
LEMMA StartProcessStep ==
    ASSUME CrawlerInv, NEW f \in Flags, StartProcess(f)
    PROVE  CrawlerInv'
  <1>1. /\ UNCHANGED <<chainVars, dbVars>> /\ flags' = f /\ fromBlock' = f.from
        /\ proc # "crawling" /\ proc' = "planning" /\ round' = round /\ fetched' = fetched
        /\ done' = done /\ between' = between /\ crashes' = crashes
        /\ round = <<>> /\ done = 0 /\ ~between
        /\ (f.to # Unset => f.to <= ConfirmedBlock)
    BY DEF StartProcess, CrawlerInv, ProcessInv
  <1>2. f.from \in Nat \cup {Unset} /\ (f.from # Unset => f.from \in Nat /\ f.from <= FirstBlock)
    BY CrawlerAssumption, DeploymentAssumption
  <1>3. ChainInv' /\ RowsInv' /\ UsersInv'
    BY <1>1, QuietSteps DEF CrawlerInv, ChainInv
  <1>4. ProcessInv'
    BY <1>1, <1>2, QuietSteps DEF CrawlerInv, ProcessInv
  <1>5. FetchedInv'
    BY <1>1, QuietSteps DEF CrawlerInv, FetchedInv
  <1>6. ProgressInv'
    <2>1. fromBlock' # Unset => StoredBefore(fromBlock)'
      BY <1>1, <1>2, NothingBefore DEF StoredBefore
    <2> QED  BY <1>1, <2>1, QuietSteps DEF CrawlerInv, ProgressInv
  <1>7. BigsInv'
    BY <1>1, QuietSteps DEF CrawlerInv, BigsInv
  <1> QED  BY <1>3, <1>4, <1>5, <1>6, <1>7 DEF CrawlerInv

(* A fetch takes what is on chain, which is confirmed.                     *)
LEMMA FetchStep ==
    ASSUME CrawlerInv, NEW k \in DOMAIN round, Fetch(k)
    PROVE  CrawlerInv'
  <1>1. /\ UNCHANGED <<chainVars, dbVars>> /\ flags' = flags /\ fromBlock' = fromBlock
        /\ proc = "crawling" /\ proc' = proc /\ round' = round
        /\ done' = done /\ between' = between /\ crashes' = crashes
        /\ fetched' = [j \in DOMAIN fetched \cup {k} |-> IF j = k THEN OnChain(round[k]) ELSE fetched[j]]
    BY DEF Fetch, Outstanding
  <1>2. ChainInv' /\ RowsInv' /\ UsersInv'
    BY <1>1, QuietSteps DEF CrawlerInv, ChainInv
  <1>3. ProcessInv'
    BY <1>1, QuietSteps DEF CrawlerInv, ProcessInv, StoredJobs
  <1>4. FetchedInv'
    <2>1. k \in 1 .. Len(round)
      BY <1>1, LenProperties DEF CrawlerInv, ProcessInv, CutsRange
    <2>2. DOMAIN fetched' \subseteq 1 .. Len(round)
      BY <1>1, <2>1 DEF CrawlerInv, FetchedInv
    <2>3. \A j \in DOMAIN fetched' : fetched'[j] = OnChain(round[j])
      BY <1>1 DEF CrawlerInv, FetchedInv
    <2> QED  BY <1>1, <2>2, <2>3, QuietSteps DEF CrawlerInv, FetchedInv
  <1>5. ProgressInv'
    <2>1. lost = 0 /\ rows # {} => StoredBefore(LastBlock)'
      BY <1>1, QuietSteps DEF CrawlerInv, ProgressInv
    <2>2. StoredJobs' = StoredJobs
      BY <1>1 DEF StoredJobs
    <2>3. ASSUME lost = 0
          PROVE  /\ StoredBefore(round[1].from)'
                 /\ \A i \in 1 .. Len(round) : i <= StoredJobs => StoredBefore(round[i].to)'
                 /\ StoredJobs = Len(round) => StoredUpTo(round[Len(round)].to)'
      BY <1>1, <2>3 DEF CrawlerInv, ProgressInv, StoredBefore, StoredUpTo, Canonical, chainVars, dbVars
    <2> QED  BY <1>1, <2>1, <2>2, <2>3, QuietSteps DEF CrawlerInv, ProgressInv
  <1>6. BigsInv'
    BY <1>1, QuietSteps DEF CrawlerInv, BigsInv
  <1> QED  BY <1>2, <1>3, <1>4, <1>5, <1>6 DEF CrawlerInv

(* The last job of a round leaves nothing of its range out.                *)
LEMMA RoundOverStep ==
    ASSUME CrawlerInv, RoundOver
    PROVE  CrawlerInv'
  <1> DEFINE n == Len(round)
  <1>1. /\ UNCHANGED <<chainVars, dbVars>> /\ flags' = flags /\ fromBlock' = fromBlock
        /\ proc = "crawling" /\ done = n /\ round' = <<>> /\ fetched' = <<>> /\ done' = 0
        /\ proc' = IF flags.to = Unset THEN "planning" ELSE "completed"
        /\ between' = between /\ crashes' = crashes
    BY DEF RoundOver
  <1>2. n \in Nat \ {0} /\ ~between /\ StoredJobs = n /\ round[n].to \in Nat
        /\ round[n].to <= ConfirmedBlock
        /\ round[n].to = IF flags.to = Unset THEN fromBlock ELSE flags.to
    <2>1. n \in Nat \ {0} /\ round[n].to \in Nat
      BY <1>1, RoundIs DEF CrawlerInv
    <2> QED  BY <1>1, <2>1 DEF CrawlerInv, ProcessInv, StoredJobs
  <1>3. ChainInv' /\ RowsInv' /\ UsersInv'
    BY <1>1, QuietSteps DEF CrawlerInv, ChainInv
  <1>4. ProcessInv'
    BY <1>1, <1>2, QuietSteps DEF CrawlerInv, ProcessInv
  <1>5. FetchedInv'
    BY <1>1 DEF FetchedInv
  <1>6. ProgressInv'
    <2>1. lost = 0 => StoredUpTo(round[n].to) /\ StoredBefore(round[n].to)
      BY <1>1, <1>2, StoredUpToIsBefore DEF CrawlerInv, ProgressInv
    <2>2. lost = 0 /\ flags.to = Unset => StoredBefore(fromBlock)'
      BY <1>1, <1>2, <2>1 DEF StoredBefore, Canonical, chainVars, dbVars
    <2>3. lost = 0 /\ flags.to # Unset => StoredUpTo(flags.to)'
      BY <1>1, <1>2, <2>1 DEF StoredUpTo, Canonical, chainVars, dbVars
    <2> QED  BY <1>1, <2>2, <2>3, QuietSteps DEF CrawlerInv, ProgressInv
  <1>7. BigsInv'
    BY <1>1, <1>2, QuietSteps DEF CrawlerInv, BigsInv
  <1> QED  BY <1>3, <1>4, <1>5, <1>6, <1>7 DEF CrawlerInv

(* The job whose turn it is, what it fetched, and what is stored before.   *)
LEMMA TurnIs ==
    ASSUME CrawlerInv, proc = "crawling", done < Len(round), ~between
    PROVE  /\ done + 1 \in 1 .. Len(round)
           /\ StoredJobs = done
           /\ round[done + 1] \in [from : Nat, to : Nat]
           /\ round[done + 1].to <= ConfirmedBlock
           /\ lost = 0 => StoredBefore(round[done + 1].from)
  <1>1. Len(round) \in Nat /\ done \in Nat
    BY RoundIs DEF CrawlerInv, ProcessInv
  <1>2. done + 1 \in 1 .. Len(round)
    BY <1>1
  <1>3. round[done + 1] \in [from : Nat, to : Nat] /\ round[done + 1].to <= ConfirmedBlock
    BY <1>2, RoundIs DEF CrawlerInv
  <1>4. StoredJobs = done
    BY <1>1 DEF StoredJobs
  <1>5. ASSUME lost = 0
        PROVE  StoredBefore(round[done + 1].from)
    <2>1. CASE done = 0
      BY <1>5, <2>1 DEF CrawlerInv, ProgressInv
    <2>2. CASE done # 0
      <3>1. done + 1 \in 2 .. Len(round) /\ (done + 1) - 1 = done /\ done \in 1 .. Len(round) /\ done <= done
        BY <1>1, <2>2
      <3>2. round[done + 1].from = round[done].to
        BY <3>1, RoundIs DEF CrawlerInv
      <3>3. StoredBefore(round[done].to)
        BY <1>4, <1>5, <3>1 DEF CrawlerInv, ProgressInv
      <3> QED  BY <3>2, <3>3
    <2> QED  BY <2>1, <2>2
  <1> QED  BY <1>2, <1>3, <1>4, <1>5

(* From a lost COMMIT on, nothing is promised of what is complete.         *)
LEMMA CommitFailsStep ==
    ASSUME CrawlerInv, CommitFails
    PROVE  CrawlerInv'
  <1>1. /\ UNCHANGED <<chainVars, proc, flags, fromBlock, round, fetched, done, rows, firsts, bigs, crashes>>
        /\ proc = "crawling" /\ done < Len(round) /\ ~between /\ between' = TRUE
        /\ lost' \in 1 .. MaxLost
    BY CrawlerAssumption DEF CommitFails, Turn, CrawlerInv, ChainInv
  <1>2. done + 1 \in 1 .. Len(round) /\ StoredJobs' = done + 1
    BY <1>1, TurnIs DEF StoredJobs
  <1>3. head' = head /\ fork' = fork /\ reorgs' = reorgs
    BY <1>1 DEF chainVars
  <1>4. ChainInv'
    BY <1>1, <1>3 DEF CrawlerInv, ChainInv, Blocks
  <1>5. ProcessInv'
    <2>1. StoredJobs' <= Len(round')
      BY <1>1, <1>2, RoundIs DEF CrawlerInv
    <2> HIDE DEF StoredJobs
    <2> QED  BY <1>1, <1>3, <2>1 DEF CrawlerInv, ProcessInv, ConfirmedBlock
  <1>6. FetchedInv' /\ RowsInv'
    BY <1>1, <1>3 DEF CrawlerInv, FetchedInv, RowsInv, OnChain, Canonical, ConfirmedBlock
  <1>7. ProgressInv' /\ UsersInv'
    BY <1>1 DEF CrawlerInv, ProgressInv, UsersInv, OneFirstTrade
  <1>8. BigsInv'
    BY <1>1, <1>3 DEF CrawlerInv, BigsInv, Recent
  <1> QED  BY <1>4, <1>5, <1>6, <1>7, <1>8 DEF CrawlerInv

(* A job is completed.                                                     *)
LEMMA SaveBigTradesStep ==
    ASSUME CrawlerInv, SaveBigTrades
    PROVE  CrawlerInv'
  <1>1. /\ UNCHANGED <<chainVars, proc, flags, fromBlock, round, rows, firsts, lost, crashes>>
        /\ proc = "crawling" /\ between /\ between' = FALSE /\ done' = done + 1
        /\ fetched' = [j \in DOMAIN fetched \ {done + 1} |-> fetched[j]]
        /\ bigs' = bigs \cup BigTradesFrom(round[done + 1].from)
    BY DEF SaveBigTrades
  <1>2. StoredJobs' = StoredJobs /\ done \in Nat
    BY <1>1 DEF StoredJobs, CrawlerInv, ProcessInv
  <1>3. head' = head /\ fork' = fork /\ reorgs' = reorgs
    BY <1>1 DEF chainVars
  <1>4. ChainInv'
    BY <1>1, <1>3 DEF CrawlerInv, ChainInv, Blocks
  <1>5. ProcessInv'
    <2>1. done' \in Nat /\ ConfirmedBlock' = ConfirmedBlock
      BY <1>1, <1>2, <1>3 DEF ConfirmedBlock
    <2>2. (StoredJobs <= Len(round))'
      BY <1>1, <1>2 DEF CrawlerInv, ProcessInv
    <2> HIDE DEF ConfirmedBlock, StoredJobs
    <2> QED  BY <1>1, <2>1, <2>2 DEF CrawlerInv, ProcessInv
  <1>6. FetchedInv' /\ RowsInv'
    BY <1>1, <1>3 DEF CrawlerInv, FetchedInv, RowsInv, OnChain, Canonical, ConfirmedBlock, BigTradesFrom
  <1>7. ProgressInv'
    BY <1>1, <1>2, <1>3 DEF CrawlerInv, ProgressInv, StoredBefore, StoredUpTo, Canonical, LastBlock
  <1>8. UsersInv'
    BY <1>1, <1>3 DEF CrawlerInv, UsersInv, OneFirstTrade, Canonical
  <1>9. BigsInv'
    BY <1>1, <1>3 DEF CrawlerInv, BigsInv, Recent, BigTradesFrom
  <1> QED  BY <1>4, <1>5, <1>6, <1>7, <1>8, <1>9 DEF CrawlerInv

(* A stored job: up to its last block nothing is missing any more.         *)
LEMMA SavedBefore ==
    ASSUME CrawlerInv, SaveTradeLogs, lost = 0
    PROVE  /\ StoredBefore(round[done + 1].to)'
           /\ done + 1 = Len(round) => StoredUpTo(round[done + 1].to)'
  <1> DEFINE job == round[done + 1]
  <1>1. /\ proc = "crawling" /\ done < Len(round) /\ ~between /\ done + 1 \in DOMAIN fetched
        /\ rows' = rows \cup OnChain(job)
        /\ head' = head /\ fork' = fork /\ round' = round /\ done' = done
    BY DEF SaveTradeLogs, Turn, Upserted, chainVars, CrawlerInv, FetchedInv
  <1>2. /\ done + 1 \in 1 .. Len(round) /\ job \in [from : Nat, to : Nat]
        /\ job.from \in Nat /\ job.to \in Nat
        /\ job.to <= ConfirmedBlock /\ job.from <= job.to /\ job.to <= job.from + MaxBlocks
        /\ \A x \in Starts : ~(job.from < x /\ x < job.to)
        /\ StoredBefore(job.from)
    BY <1>1, TurnIs, RoundIs DEF CrawlerInv
  <1>3. \A t \in Trades : Canonical(t)' = Canonical(t)
    BY <1>1 DEF Canonical
  <1>4. done + 1 = Len(round) => \A x \in Starts : ~(job.from < x /\ x <= job.to)
    BY <1>1, RoundIs DEF CrawlerInv
  <1> HIDE DEF job
  <1>5. \A t \in Trades : job.from <= t.block /\ t.block <= job.to /\ Decodes(job, t.gen) => Canonical(t) \in rows'
    BY <1>1, <1>2, OnChainIs DEF CrawlerInv
  <1>6. \A t \in Trades : t.block < job.from \/ (t.block = job.from /\ Outgoing(t.block, t.gen))
                           => Canonical(t) \in rows'
    BY <1>1, <1>2 DEF StoredBefore
  <1>7. ASSUME NEW t \in Trades, t.block < job.to \/ (t.block = job.to /\ Outgoing(job.to, t.gen))
        PROVE  Canonical(t) \in rows'
    <2>1. t.block \in Nat /\ t.gen \in GenerationsAt(t.block)
      BY TradeIs
    <2>2. CASE t.block < job.from \/ (t.block = job.from /\ Outgoing(t.block, t.gen))
      BY <1>6, <2>2
    <2>3. CASE t.block = job.from /\ ~Outgoing(t.block, t.gen)
      BY <1>2, <1>5, <1>7, <2>1, <2>3, JobDecodes
    <2>4. CASE t.block > job.from
      BY <1>2, <1>5, <1>7, <2>1, <2>4, JobDecodes
    <2> QED  BY <1>2, <2>1, <2>2, <2>3, <2>4
  <1>8. ASSUME done + 1 = Len(round), NEW t \in Trades, t.block <= job.to
        PROVE  Canonical(t) \in rows'
    <2>1. t.block \in Nat /\ t.gen \in GenerationsAt(t.block)
      BY TradeIs
    <2>2. CASE t.block < job.from \/ (t.block = job.from /\ Outgoing(t.block, t.gen))
      BY <1>6, <2>2
    <2>3. CASE t.block = job.from /\ ~Outgoing(t.block, t.gen)
      BY <1>2, <1>5, <1>8, <2>1, <2>3, JobDecodes
    <2>4. CASE t.block > job.from
      <3>1. t.block \notin Starts
        BY <1>4, <1>8, <2>4
      <3> QED  BY <1>2, <1>5, <1>8, <2>1, <2>4, <3>1, JobDecodes
    <2> QED  BY <1>2, <2>1, <2>2, <2>3, <2>4
  <1>9. job' = job
    BY <1>1 DEF job
  <1>10. \A t \in Trades :
            t.block < job.to \/ (t.block = job.to /\ Outgoing(job.to, t.gen)) => Canonical(t)' \in rows'
    BY <1>3, <1>7
  <1>11. done + 1 = Len(round) => \A t \in Trades : t.block <= job.to => Canonical(t)' \in rows'
    BY <1>3, <1>8
  <1> QED  BY <1>1, <1>10, <1>11 DEF StoredBefore, StoredUpTo, job

(* A user's trades are stored in their order: the jobs are, and within a   *)
(* job only trades of a generation that just starts are left to the next.  *)
LEMMA SavedInOrder ==
    ASSUME CrawlerInv, SaveTradeLogs, lost = 0,
           NEW r \in rows', NEW t \in Trades, t.user = r[1].user, Before(t, r[1])
    PROVE  Canonical(t) \in rows'
  <1> DEFINE job == round[done + 1]
  <1>1. /\ proc = "crawling" /\ done < Len(round) /\ ~between
        /\ rows' = rows \cup OnChain(job)
    BY DEF SaveTradeLogs, Turn, Upserted, chainVars, CrawlerInv, FetchedInv
  <1>2. /\ done + 1 \in 1 .. Len(round) /\ job \in [from : Nat, to : Nat]
        /\ job.from \in Nat /\ job.to \in Nat
        /\ job.to <= ConfirmedBlock /\ job.from <= job.to /\ job.to <= job.from + MaxBlocks
        /\ \A x \in Starts : ~(job.from < x /\ x < job.to)
        /\ StoredBefore(job.from)
    BY <1>1, TurnIs, RoundIs DEF CrawlerInv
  <1> HIDE DEF job
  <1>3. CASE r \in rows
    BY <1>1, <1>3 DEF CrawlerInv, UsersInv
  <1>4. CASE r \in OnChain(job)
    <2> DEFINE s == r[1]
    <2>1. /\ s \in Trades /\ job.from <= s.block /\ s.block <= job.to /\ Decodes(job, s.gen)
          /\ \A u \in Trades : job.from <= u.block /\ u.block <= job.to /\ Decodes(job, u.gen)
                 => Canonical(u) \in rows'
      BY <1>1, <1>2, <1>4, OnChainIs DEF CrawlerInv
    <2>2. /\ t.block \in Nat /\ t.gen \in GenerationsAt(t.block) /\ t.gen \in 1 .. 4 /\ t.idx \in Nat
          /\ s.block \in Nat /\ s.gen \in GenerationsAt(s.block) /\ s.gen \in 1 .. 4 /\ s.idx \in Nat
      BY <2>1, TradeIs
    <2>3. t.block <= s.block /\ t.user = s.user /\ (t.block = s.block => t.idx < s.idx)
      BY <2>2 DEF Before
    <2> HIDE DEF s
    <2>4. CASE t.block < job.from \/ (t.block = job.from /\ Outgoing(job.from, t.gen))
      BY <1>1, <1>2, <2>4 DEF StoredBefore
    <2>5. CASE t.block = job.from /\ ~Outgoing(job.from, t.gen)
      BY <1>2, <2>1, <2>2, <2>5, JobDecodes
    <2>6. CASE t.block > job.from /\ (t.block < job.to \/ t.block \notin Starts \/ Outgoing(t.block, t.gen))
      BY <1>2, <2>1, <2>2, <2>3, <2>6, JobDecodes
    <2>7. CASE t.block > job.from /\ t.block \in Starts /\ ~Outgoing(t.block, t.gen) /\ t.block >= job.to
      <3>1. t.block = job.to /\ s.block = t.block
        BY <1>2, <2>1, <2>2, <2>3, <2>7
      <3>2. Outgoing(t.block, s.gen)
        BY <1>2, <2>1, <2>2, <2>7, <3>1, JobDecodes
      <3>3. s.gen < t.gen
        BY <2>2, <2>7, <3>1, <3>2, StartIsStart DEF Outgoing
      <3>4. Before(s, t)
        BY <2>1, <2>3, <2>7, <3>1, <3>3, DeploymentAssumption DEF Starts
      <3> QED  BY <2>2, <2>3, <3>1, <3>4 DEF Before
    <2> QED  BY <1>2, <2>2, <2>4, <2>5, <2>6, <2>7
  <1> QED  BY <1>1, <1>3, <1>4

(* Log order.                                                              *)
LEMMA BeforeIsTotal ==
    ASSUME NEW t \in Trades, NEW u \in Trades
    PROVE  /\ t = u \/ Before(t, u) \/ Before(u, t)
           /\ ~(Before(t, u) /\ Before(u, t))
  BY TradeIs, DeploymentAssumption DEF Before

(* A user who has no row gets the first trade of the batch, and a user who *)
(* has one gets none: what precedes a stored trade of his is stored.       *)
LEMMA SavedFirstTrades ==
    ASSUME CrawlerInv, SaveTradeLogs
    PROVE  OneFirstTrade'
  <1> DEFINE batch == OnChain(round[done + 1])
             Minimal(S, u) == {s \in S : s[1].user = u /\ ~\E q \in S : q[1].user = u /\ Before(q[1], s[1])}
  <1>1. /\ proc = "crawling" /\ done < Len(round) /\ ~between /\ lost' = lost
        /\ rows' = rows \cup batch
        /\ firsts' = firsts \cup (FirstTrades(batch) \ rows)
    BY DEF SaveTradeLogs, Turn, Upserted, CrawlerInv, FetchedInv
  <1>2. /\ \A r \in batch : r[1] \in Trades /\ r = Canonical(r[1])
        /\ \A r \in rows : r[1] \in Trades /\ r = Canonical(r[1])
    BY <1>1, TurnIs, OnChainIs DEF CrawlerInv, RowsInv
  <1>3. firsts \subseteq rows
    BY DEF CrawlerInv, UsersInv
  <1> SUFFICES ASSUME lost = 0, NEW u
               PROVE  {s \in rows' : s[1].user = u} \cap firsts' = Minimal(rows', u)
    BY <1>1 DEF OneFirstTrade
  <1>4. ASSUME NEW r \in rows, r[1].user = u
        PROVE  {s \in rows : s[1].user = u} \cap firsts = Minimal(rows, u)
    BY <1>4 DEF CrawlerInv, UsersInv, OneFirstTrade
  <1>5. \A r \in rows : \A t \in Trades : t.user = r[1].user /\ Before(t, r[1]) => Canonical(t) \in rows
    BY DEF CrawlerInv, UsersInv
  <1> HIDE DEF batch
  <1>6. CASE \E r \in rows : r[1].user = u
    <2>1. PICK x \in rows : x[1].user = u
      BY <1>6
    <2>2. {s \in rows' : s[1].user = u} \cap firsts' = {s \in rows : s[1].user = u} \cap firsts
      BY <1>1, <1>3, <2>1 DEF FirstTrades
    <2>3. \A s \in rows : s[1].user = u => (s \in Minimal(rows', u) <=> s \in Minimal(rows, u))
      BY <1>1, <1>2, <1>5
    <2>4. \A s \in batch : s \in Minimal(rows', u) => s \in rows
      <3> SUFFICES ASSUME NEW s \in batch, s \in Minimal(rows', u), s \notin rows
                   PROVE  FALSE
        OBVIOUS
      <3>1. s[1] \in Trades /\ x[1] \in Trades /\ s = Canonical(s[1]) /\ x = Canonical(x[1]) /\ s # x
        BY <1>2
      <3>2. ~Before(x[1], s[1])
        BY <1>1, <2>1
      <3>3. Before(s[1], x[1])
        BY <3>1, <3>2, BeforeIsTotal
      <3> QED  BY <1>5, <2>1, <3>1, <3>3
    <2>5. Minimal(rows', u) = Minimal(rows, u)
      BY <1>1, <2>3, <2>4
    <2> QED  BY <1>4, <2>1, <2>2, <2>5
  <1>7. CASE ~\E r \in rows : r[1].user = u
    BY <1>1, <1>3, <1>7 DEF FirstTrades
  <1> QED  BY <1>6, <1>7

(* A job is stored.                                                        *)
LEMMA SaveTradeLogsStep ==
    ASSUME CrawlerInv, SaveTradeLogs
    PROVE  CrawlerInv'
  <1> DEFINE job == round[done + 1]
             batch == OnChain(job)
  <1>1. /\ UNCHANGED <<chainVars, proc, flags, fromBlock, round, fetched, done, bigs, lost, crashes>>
        /\ proc = "crawling" /\ done < Len(round) /\ ~between /\ between' = TRUE
        /\ rows' = rows \cup batch
        /\ firsts' = firsts \cup (FirstTrades(batch) \ rows)
    BY DEF SaveTradeLogs, Turn, Upserted, CrawlerInv, FetchedInv
  <1>2. /\ done + 1 \in 1 .. Len(round) /\ job \in [from : Nat, to : Nat]
        /\ job.from \in Nat /\ job.to \in Nat
        /\ job.to <= ConfirmedBlock /\ StoredJobs' = done + 1 /\ StoredJobs = done
    BY <1>1, TurnIs DEF CrawlerInv, StoredJobs
  <1>3. head' = head /\ fork' = fork /\ reorgs' = reorgs /\ ConfirmedBlock' = ConfirmedBlock
        /\ \A t : Canonical(t)' = Canonical(t)
    BY <1>1 DEF chainVars, ConfirmedBlock, Canonical
  <1>4. \A r \in batch : /\ r[1] \in Trades /\ r = Canonical(r[1]) /\ r[1].block \in Nat
                         /\ job.from <= r[1].block /\ r[1].block <= job.to
    BY <1>2, OnChainIs, TradeIs DEF CrawlerInv
  <1> HIDE DEF batch
  <1>5. ChainInv'
    BY <1>1, <1>3 DEF CrawlerInv, ChainInv, Blocks
  <1>6. ProcessInv'
    <2>1. StoredJobs' <= Len(round')
      BY <1>1, <1>2, RoundIs DEF CrawlerInv
    <2> HIDE DEF StoredJobs, job, ConfirmedBlock
    <2> QED  BY <1>1, <1>3, <2>1 DEF CrawlerInv, ProcessInv
  <1>7. FetchedInv'
    BY <1>1, <1>3 DEF CrawlerInv, FetchedInv, OnChain
  <1>8. RowsInv'
    <2>1. \A r \in batch : r[1].block <= ConfirmedBlock
      BY <1>2, <1>4, BlocksAre DEF CrawlerInv
    <2> HIDE DEF job, ConfirmedBlock
    <2> QED  BY <1>1, <1>3, <1>4, <2>1 DEF CrawlerInv, RowsInv
  <1>9. ProgressInv'
    <2> SUFFICES ASSUME lost = 0
                 PROVE  /\ rows' # {} => StoredBefore(LastBlock)'
                        /\ StoredBefore(round[1].from)'
                        /\ \A k \in 1 .. Len(round) : k <= done + 1 => StoredBefore(round[k].to)'
                        /\ done + 1 = Len(round) => StoredUpTo(round[Len(round)].to)'
      BY <1>1, <1>2 DEF ProgressInv
    <2>1. StoredBefore(job.to)' /\ (done + 1 = Len(round) => StoredUpTo(job.to)')
      BY SavedBefore
    <2>2. \A b : StoredBefore(b) => StoredBefore(b)'
      BY <1>1, <1>3 DEF StoredBefore
    <2>3. StoredBefore(round[1].from)'
      <3>1. StoredBefore(round[1].from)
        BY <1>1 DEF CrawlerInv, ProgressInv
      <3> QED  BY <1>1, <1>3, <3>1 DEF StoredBefore
    <2>4. ASSUME NEW k \in 1 .. Len(round), k <= done + 1
          PROVE  StoredBefore(round[k].to)'
      <3>1. CASE k = done + 1
        BY <1>1, <2>1, <3>1 DEF StoredBefore
      <3>2. CASE k # done + 1
        <4>1. k <= StoredJobs
          BY <1>2, <2>4, <3>2, RoundIs DEF CrawlerInv, ProcessInv
        <4>2. StoredBefore(round[k].to)
          BY <1>1, <4>1 DEF CrawlerInv, ProgressInv
        <4> QED  BY <1>1, <1>3, <4>2 DEF StoredBefore
      <3> QED  BY <3>1, <3>2
    <2>5. done + 1 = Len(round) => StoredUpTo(round[Len(round)].to)'
      BY <1>1, <2>1 DEF StoredUpTo
    <2>6. ASSUME rows' # {}
          PROVE  StoredBefore(LastBlock)'
      <3>1. (ChainInv /\ RowsInv)'
        BY <1>5, <1>8
      <3>2. /\ LastBlock' \in Nat /\ \A r \in rows' : r[1].block \in Nat /\ r[1].block <= LastBlock'
            /\ \E r \in rows' : r[1].block = LastBlock'
        <4>1. \A r \in rows' : r[1].block \in Nat /\ r[1].block <= head
          BY <1>3, <3>1, BlocksAre, TradeIs DEF RowsInv, CrawlerInv
        <4>2. head \in Nat
          BY BlocksAre DEF CrawlerInv
        <4>3. LastBlock' = Max({r[1].block : r \in rows'})
          BY <2>6 DEF LastBlock
        <4> HIDE DEF LastBlock
        <4> QED  BY <2>6, <4>1, <4>2, <4>3, LastBlockOf
      <3>3. PICK b \in Nat : b = LastBlock'
        BY <3>2
      <3>4. CASE \E r \in rows : r[1].block = b
        <4>1. rows # {} /\ b <= LastBlock /\ LastBlock \in Nat
          BY <3>4, LastBlockIs DEF CrawlerInv
        <4>2. StoredBefore(LastBlock)
          BY <4>1 DEF CrawlerInv, ProgressInv
        <4>3. StoredBefore(b)
          BY <4>1, <4>2, StoredBeforeLess
        <4> HIDE DEF LastBlock
        <4> QED  BY <1>1, <1>3, <3>3, <4>3 DEF StoredBefore
      <3>5. CASE \E r \in batch : r[1].block = b
        <4>1. b <= job.to
          BY <1>4, <3>5
        <4>2. \A t \in Trades : t.block < b \/ (t.block = b /\ Outgoing(b, t.gen))
                  => t.block < job.to \/ (t.block = job.to /\ Outgoing(job.to, t.gen))
          BY <1>2, <4>1, TradeIs
        <4>3. \A t \in Trades : t.block < job.to \/ (t.block = job.to /\ Outgoing(job.to, t.gen))
                  => Canonical(t) \in rows'
          BY <1>1, <1>3, <2>1 DEF StoredBefore
        <4> HIDE DEF LastBlock
        <4> QED  BY <1>3, <3>3, <4>2, <4>3 DEF StoredBefore
      <3> QED  BY <1>1, <3>2, <3>3, <3>4, <3>5
    <2> QED  BY <2>3, <2>4, <2>5, <2>6
  <1>10. UsersInv'
    <2>1. firsts' \subseteq rows'
      BY <1>1 DEF CrawlerInv, UsersInv, FirstTrades
    <2>2. OneFirstTrade'
      BY SavedFirstTrades
    <2>3. lost = 0 => \A r \in rows' : \A t \in Trades :
              t.user = r[1].user /\ Before(t, r[1]) => Canonical(t) \in rows'
      BY SavedInOrder
    <2> QED  BY <1>1, <1>3, <2>1, <2>2, <2>3 DEF UsersInv
  <1>11. BigsInv'
    BY <1>1, <1>3, <1>4 DEF CrawlerInv, BigsInv, Recent
  <1> QED  BY <1>5, <1>6, <1>7, <1>8, <1>9, <1>10, <1>11 DEF CrawlerInv

-----------------------------------------------------------------------------
(* The invariant holds at first, and every step keeps it.                  *)
LEMMA CrawlerInit ==
    ASSUME Init
    PROVE  CrawlerInv
  <1>1. ChainInv
    BY CrawlerAssumption DEF Init, ChainInv
  <1>2. ProcessInv
    BY DEF Init, ProcessInv
  <1>3. FetchedInv /\ RowsInv
    BY DEF Init, FetchedInv, RowsInv
  <1>4. ProgressInv /\ BigsInv
    BY DEF Init, ProgressInv, BigsInv
  <1>5. UsersInv
    BY DEF Init, UsersInv, OneFirstTrade
  <1> QED  BY <1>1, <1>2, <1>3, <1>4, <1>5 DEF CrawlerInv

(* One case per action, those that change the same things together.        *)
LEMMA CrawlerStep ==
    ASSUME CrawlerInv, [Next]_vars
    PROVE  CrawlerInv'
  <1>1. CASE Mine \/ \E d \in 1 .. MaxReorgDepth : Reorg(d)
    BY <1>1, ChainSteps
  <1>2. CASE Resume
    BY <1>2, ResumeStep
  <1>3. CASE PlanFixed \/ PlanDaemon
    BY <1>3, PlanSteps
  <1>4. CASE PlanRefused \/ Crash
    BY <1>4, DownSteps
  <1>5. CASE \E k \in DOMAIN round : Fetch(k)
    BY <1>5, FetchStep
  <1>6. CASE SaveTradeLogs
    BY <1>6, SaveTradeLogsStep
  <1>7. CASE SaveBigTrades
    BY <1>7, SaveBigTradesStep
  <1>8. CASE RoundOver
    BY <1>8, RoundOverStep
  <1>9. CASE \E f \in Flags : StartProcess(f)
    BY <1>9, StartProcessStep
  <1>10. CASE CommitFails
    BY <1>10, CommitFailsStep
  <1>11. CASE UNCHANGED vars
    <2>1. /\ UNCHANGED <<chainVars, dbVars>> /\ proc' = proc /\ flags' = flags /\ fromBlock' = fromBlock
          /\ round' = round /\ fetched' = fetched /\ done' = done /\ between' = between /\ crashes' = crashes
      BY <1>11 DEF vars
    <2>2. head' = head /\ fork' = fork /\ reorgs' = reorgs /\ rows' = rows /\ firsts' = firsts
          /\ bigs' = bigs /\ lost' = lost
      BY <2>1 DEF chainVars, dbVars
    <2>3. ChainInv' /\ RowsInv' /\ UsersInv'
      BY <2>1, QuietSteps DEF CrawlerInv, ChainInv
    <2>4. ProcessInv' /\ FetchedInv' /\ BigsInv'
      BY <2>1, <2>2 DEF CrawlerInv, ProcessInv, FetchedInv, BigsInv, StoredJobs, ConfirmedBlock, OnChain, Recent
    <2>5. ProgressInv'
      BY <2>1, <2>2 DEF CrawlerInv, ProgressInv, StoredJobs, StoredBefore, StoredUpTo, Canonical, LastBlock
    <2> QED  BY <2>3, <2>4, <2>5 DEF CrawlerInv
  <1> QED  BY <1>1, <1>2, <1>3, <1>4, <1>5, <1>6, <1>7, <1>8, <1>9, <1>10, <1>11 DEF Next, Process, Idle

(* The crawler keeps its invariant: whatever is mined, reorganised, lost   *)
(* or crashed, what is stored is canonical and complete up to where the    *)
(* next job, round or restart of main.go continues.                        *)
THEOREM CrawlerInvariant == Spec => []CrawlerInv
  <1>1. Init => CrawlerInv
    BY CrawlerInit
  <1>2. CrawlerInv /\ [Next]_vars => CrawlerInv'
    BY CrawlerStep
  <1> QED  BY <1>1, <1>2, PTL DEF Spec

(* Every variable keeps its type; the jobs fetched and the counter of      *)
(* completed ones stay within the round.                                   *)
THEOREM CrawlerTypes == Spec => []TypeOK
  <1>1. CrawlerInv => TypeOK
    <2> SUFFICES ASSUME CrawlerInv
                 PROVE  TypeOK
      OBVIOUS
    <2>1. /\ head \in 1 .. MaxHead /\ fork \in [Blocks -> {0, 1}] /\ reorgs \in 0 .. MaxReorgs
          /\ crashes \in 0 .. MaxCrashes /\ lost \in 0 .. MaxLost
      BY DEF CrawlerInv, ChainInv
    <2>2. /\ \A k \in DOMAIN round : round[k].from \in Nat /\ round[k].to \in Nat
          /\ done \in 0 .. Len(round)
      <3>1. CASE proc = "crawling"
        <4>1. /\ Len(round) \in Nat /\ DOMAIN round = 1 .. Len(round)
              /\ \A k \in 1 .. Len(round) : round[k].from \in Nat /\ round[k].to \in Nat
          BY <3>1, RoundIs, LenProperties DEF CrawlerInv, ProcessInv, CutsRange
        <4>2. done \in Nat /\ StoredJobs <= Len(round) /\ (StoredJobs = done \/ StoredJobs = done + 1)
          BY <3>1 DEF CrawlerInv, ProcessInv, StoredJobs
        <4> HIDE DEF StoredJobs
        <4> QED  BY <4>1, <4>2
      <3>2. CASE proc # "crawling"
        BY <3>2 DEF CrawlerInv, ProcessInv
      <3> QED  BY <3>1, <3>2
    <2>3. rows \subseteq Rows /\ firsts \subseteq rows /\ bigs \subseteq rows
      <3>1. ASSUME NEW r \in rows
            PROVE  r \in Rows
        <4>1. r[1] \in Trades /\ r = <<r[1], fork[r[1].block]>> /\ r[1].block \in Nat \ {0}
              /\ r[1].block <= head
          BY BlocksAre, TradeIs DEF CrawlerInv, RowsInv, Canonical
        <4>2. r[1].block \in Blocks
          BY <4>1, BlocksAre DEF CrawlerInv, Blocks
        <4> QED  BY <2>1, <4>1, <4>2 DEF Rows
      <3> QED  BY <3>1 DEF CrawlerInv, UsersInv, RowsInv
    <2> QED  BY <2>1, <2>2, <2>3 DEF CrawlerInv, ProcessInv, FetchedInv, TypeOK
  <1> QED  BY <1>1, CrawlerInvariant, PTL

(* Below MAX(block_number), where a restarted crawler resumes, no trade is *)
(* missing, whatever crashed between which two writes.                     *)
THEOREM NothingIsMissingBelowLastBlock == Spec => []NoGapBelowLastBlock
  <1>1. CrawlerInv => NoGapBelowLastBlock
    <2> SUFFICES ASSUME CrawlerInv, lost = 0, NEW t \in Trades, t.block < LastBlock
                 PROVE  Canonical(t) \in rows
      BY DEF NoGapBelowLastBlock
    <2>1. rows # {}
      BY TradeIs DEF LastBlock
    <2> QED  BY <2>1 DEF CrawlerInv, ProgressInv, StoredBefore
  <1> QED  BY <1>1, CrawlerInvariant, PTL

(* No row of the tradelogs table belongs to a transaction that was         *)
(* reorganised away: --wait-for-confirmations is enough.                   *)
THEOREM NothingStoredIsReorganised == Spec => []StoredIsCanonical
  <1>1. CrawlerInv => StoredIsCanonical
    BY DEF CrawlerInv, RowsInv, StoredIsCanonical
  <1> QED  BY <1>1, CrawlerInvariant, PTL

(* is_first_trade: a user's earliest trade has it, and no other one,       *)
(* however often a job is replayed.                                        *)
THEOREM FirstTradesAreFirst == Spec => []OneFirstTrade
  <1>1. CrawlerInv => OneFirstTrade
    BY DEF CrawlerInv, UsersInv
  <1> QED  BY <1>1, CrawlerInvariant, PTL

(* Between two jobs of a process that never crashed every big trade of the *)
(* last hour is in big_tradelogs: the windows of SaveBigTrades join.       *)
THEOREM BigTradesAreNotLeftOut == Spec => []BigTradesAreQueued
  <1>1. CrawlerInv => BigTradesAreQueued
    BY DEF CrawlerInv, BigsInv, BigTradesAreQueued
  <1> QED  BY <1>1, CrawlerInvariant, PTL

(* In jobs that cut a range every trade of the range but those of its      *)
(* first block is decoded by some job: the first one that reaches its      *)
(* block.                                                                  *)
LEMMA SomeJobDecodes ==
    ASSUME NEW jobs, NEW a \in Nat, NEW c \in Nat, CutsRange(jobs, a, c),
           NEW b \in a .. c, b # a, NEW gen \in GenerationsAt(b)
    PROVE  \E k \in DOMAIN jobs : b \in jobs[k].from .. jobs[k].to /\ Decodes(jobs[k], gen)
  <1> DEFINE n == Len(jobs)
             Reach == {k \in 1 .. n : b <= jobs[k].to}
  <1>1. /\ n \in Nat \ {0} /\ DOMAIN jobs = 1 .. n
        /\ \A k \in 1 .. n : jobs[k] \in [from : Nat, to : Nat]
        /\ jobs[1].from = a /\ jobs[n].to = c
        /\ \A k \in 1 .. n :
              /\ jobs[k].from <= jobs[k].to /\ jobs[k].to <= jobs[k].from + MaxBlocks
              /\ \A x \in Starts : ~(jobs[k].from < x /\ x < jobs[k].to)
        /\ \A k \in 2 .. n : jobs[k].from = jobs[k - 1].to
        /\ \A x \in Starts : ~(jobs[n].from < x /\ x <= c)
    <2>1. jobs \in Seq([from : Nat, to : Nat]) /\ n >= 1
      BY DEF CutsRange
    <2>2. n \in Nat \ {0} /\ DOMAIN jobs = 1 .. n
      BY <2>1, LenProperties
    <2>3. \A k \in 1 .. n : jobs[k] \in [from : Nat, to : Nat]
      BY <2>1, ElementOfSeq
    <2> QED  BY <2>2, <2>3 DEF CutsRange
  <1> HIDE DEF n
  <1>2. Reach \in SUBSET Nat /\ n \in Reach
    BY <1>1
  <1>3. PICK k \in Reach : \A j \in Reach : k <= j
    BY <1>2, LeastNatural
  <1>4. k \in 1 .. n /\ b <= jobs[k].to /\ jobs[k].from \in Nat /\ jobs[k].to \in Nat /\ b \in Nat
    BY <1>1, <1>3
  <1>5. jobs[k].from < b
    <2>1. CASE k = 1
      BY <1>1, <1>4, <2>1
    <2>2. CASE k # 1
      <3>1. k \in 2 .. n /\ k - 1 \in 1 .. n /\ ~(k <= k - 1)
        BY <1>1, <1>4, <2>2
      <3>2. ~(b <= jobs[k - 1].to)
        BY <1>3, <3>1
      <3> QED  BY <1>1, <1>4, <3>1, <3>2
    <2> QED  BY <2>1, <2>2
  <1>6. CASE Decodes(jobs[k], gen)
    <2>1. b \in jobs[k].from .. jobs[k].to
      BY <1>4, <1>5
    <2> QED  BY <1>1, <1>4, <1>6, <2>1
  <1>7. CASE ~Decodes(jobs[k], gen)
    <2>1. b = jobs[k].to /\ b \in Starts /\ ~Outgoing(b, gen)
      <3> DEFINE job == jobs[k]
      <3>1. /\ job \in [from : Nat, to : Nat] /\ job.from <= job.to /\ job.to <= job.from + MaxBlocks
            /\ \A x \in Starts : ~(job.from < x /\ x < job.to)
            /\ job.from < b /\ b <= job.to /\ job.from \in Nat /\ job.to \in Nat
        BY <1>1, <1>4, <1>5
      <3> HIDE DEF job
      <3>2. job.from <= b
        BY <1>4, <3>1
      <3>3. /\ job.from < b /\ b < job.to => Decodes(job, gen)
            /\ job.from < b /\ b \notin Starts => Decodes(job, gen)
            /\ job.from < b /\ Outgoing(b, gen) => Decodes(job, gen)
        BY <1>4, <3>1, <3>2, JobDecodes
      <3>4. ~Decodes(job, gen)
        BY <1>7 DEF job
      <3>5. b = job.to
        BY <1>4, <3>1, <3>3, <3>4
      <3> QED  BY <3>1, <3>3, <3>4, <3>5 DEF job
    <2>2. k # n
      BY <1>1, <1>4, <1>5, <2>1
    <2>3. k + 1 \in 2 .. n /\ k + 1 \in 1 .. n /\ (k + 1) - 1 = k
      BY <1>1, <1>4, <2>2
    <2>4. jobs[k + 1].from = b /\ jobs[k + 1] \in [from : Nat, to : Nat] /\ b <= jobs[k + 1].to
      BY <1>1, <2>1, <2>3
    <2>5. Decodes(jobs[k + 1], gen)
      <3> DEFINE job == jobs[k + 1]
      <3>1. /\ job \in [from : Nat, to : Nat] /\ job.from <= job.to /\ job.to <= job.from + MaxBlocks
            /\ \A x \in Starts : ~(job.from < x /\ x < job.to)
            /\ job.from = b
        BY <1>1, <2>3, <2>4
      <3> HIDE DEF job
      <3>2. job.from <= b /\ b <= job.to
        BY <1>4, <3>1
      <3>3. Decodes(job, gen)
        BY <1>4, <2>1, <3>1, <3>2, JobDecodes
      <3> QED  BY <3>3 DEF job
    <2>6. b \in jobs[k + 1].from .. jobs[k + 1].to
      BY <1>4, <2>4
    <2> QED  BY <1>1, <2>3, <2>5, <2>6
  <1> QED  BY <1>6, <1>7

(* The jobs of every round leave no trade of its range out, and a crawler  *)
(* with --to-block that ended has stored the whole range.                  *)
THEOREM RoundsLeaveNothingOut == Spec => []RoundsAreComplete
  <1>1. CrawlerInv => CompletedMeansStored
    <2> SUFFICES ASSUME CrawlerInv, proc = "completed", lost = 0, NEW t \in Trades, t.block <= flags.to
                 PROVE  Canonical(t) \in rows
      BY DEF CompletedMeansStored
    <2> QED  BY DEF CrawlerInv, ProgressInv, StoredUpTo
  <1>2. CrawlerInv => RoundIsCovered
    <2> SUFFICES ASSUME CrawlerInv, round # <<>>
                 PROVE  RoundIsCovered
      BY DEF RoundIsCovered
    <2> DEFINE n == Len(round)
    <2>1. proc = "crawling"
      BY DEF CrawlerInv, ProcessInv
    <2>2. /\ n \in Nat \ {0} /\ DOMAIN round = 1 .. n /\ Last(round) = round[n]
          /\ CutsRange(round, round[1].from, round[n].to)
          /\ round[1].from \in Nat /\ round[n].to \in Nat
          /\ \A k \in 1 .. n : round[k].from <= round[k].to
          /\ \A k \in 2 .. n : round[k].from = round[k - 1].to
      <3>1. CutsRange(round, round[1].from, round[n].to)
        BY <2>1 DEF CrawlerInv, ProcessInv
      <3>2. DOMAIN round = 1 .. n
        BY <3>1, LenProperties DEF CutsRange
      <3>3. n \in Nat \ {0} /\ 1 \in 1 .. n /\ n \in 1 .. n
        BY <2>1, RoundIs DEF CrawlerInv
      <3> QED  BY <2>1, <3>1, <3>2, <3>3, RoundIs DEF CrawlerInv, Last
    <2>3. \A b \in round[1].from .. round[n].to : \A gen \in GenerationsAt(b) :
              b = round[1].from \/ \E k \in DOMAIN round :
                             b \in round[k].from .. round[k].to /\ Decodes(round[k], gen)
      BY <2>2, SomeJobDecodes
    <2> QED  BY <2>2, <2>3 DEF RoundIsCovered
  <1> QED  BY <1>1, <1>2, CrawlerInvariant, PTL DEF RoundsAreComplete
=============================================================================
