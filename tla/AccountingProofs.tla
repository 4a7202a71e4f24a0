--------------------------- MODULE AccountingProofs ---------------------------
(***************************************************************************)
(* Proofs about the programs that gather accounting data: the fetcher of   *)
(* Huobi withdrawals passes none, the resolver stores last blocks of days  *)
(* that are over and moves on by one day, and the fetcher of daily rates   *)
(* stores days in order and skips none of a reserve that its own job did   *)
(* not leave out, while all reserves are level, no range is given by hand  *)
(* and no goroutine that nobody hears resolves a day.  The invariants of   *)
(* the three, and that of the fetcher of Binance withdrawals, make the     *)
(* types.                                                                  *)
(***************************************************************************)
EXTENDS MCAccounting, BinanceWithdrawalsProofs

-----------------------------------------------------------------------------
(* The fetcher of Huobi withdrawals.                                       *)

HuobiWithdrawal == [account : HuobiOwners, currency : Currencies]

HuobiTypes ==
    /\ onHuobi \in Seq(HuobiWithdrawal) /\ Len(onHuobi) <= LastHuobiId
    /\ DOMAIN huobiRows \subseteq DOMAIN onHuobi
    /\ \A w \in DOMAIN huobiRows : huobiRows[w] = onHuobi[w].account
    /\ huobiAt \in 0 .. Len(HuobiAccounts)
    /\ fromID \in 0 .. Len(onHuobi)
    /\ nextFromID \in [Currencies -> 0 .. Len(onHuobi) + 1]
    /\ fetching \subseteq Currencies
    /\ fetchedIDs \subseteq DOMAIN onHuobi
    /\ huobiAt = 0 => fetchedIDs = {} /\ fetching = {}
    /\ \A w \in fetchedIDs : onHuobi[w].account = HuobiAccounts[huobiAt]
    /\ groupFailed \in BOOLEAN
    /\ lentFrom \in [HuobiOwners -> Nat]

(* A withdrawal of the account beyond fromID has been fetched, or is still *)
(* ahead of the goroutine of its currency, or was made in the meantime;    *)
(* and fromID is no higher than what is stored or excuses what it passes.  *)
HuobiTurn ==
    huobiAt # 0 =>
        /\ \/ fromID <= GetLastIDStored(HuobiAccounts[huobiAt])
           \/ fromID <= lentFrom[HuobiAccounts[huobiAt]]
        /\ \/ groupFailed
           \/ \A w \in DOMAIN onHuobi :
                 onHuobi[w].account = HuobiAccounts[huobiAt] /\ w > fromID =>
                     \/ w \in fetchedIDs \/ w \in madeMeanwhile
                     \/ onHuobi[w].currency \in fetching /\ w >= nextFromID[onHuobi[w].currency]

HuobiInv == HuobiTypes /\ HuobiTurn /\ NoWithdrawalIsPassed

(* What HuobiAssumption says of the constants, one by one.                 *)
LEMMA HuobiConstants ==
    /\ HuobiPageSize \in Nat \ {0} /\ LastHuobiId \in Nat
    /\ Len(HuobiAccounts) \in Nat \ {0}
    /\ \A i \in 1 .. Len(HuobiAccounts) : HuobiAccounts[i] \in HuobiOwners
  <1>1. HuobiAccounts \in Seq(HuobiOwners) /\ HuobiAccounts # <<>>
    BY HuobiAssumption DEF HuobiOwners
  <1>2. Len(HuobiAccounts) \in Nat /\ DOMAIN HuobiAccounts = 1 .. Len(HuobiAccounts)
    BY <1>1, LenProperties
  <1>3. Len(HuobiAccounts) # 0
    BY <1>1, EmptySeq
  <1> QED  BY <1>1, <1>2, <1>3, HuobiAssumption

NewestId(rows, a) == Max({0} \cup {w \in DOMAIN rows : rows[w] = a})

(* The newest id stored of an account, 0 if there is none.                 *)
LEMMA NewestIdIs ==
    ASSUME NEW rows, DOMAIN rows \subseteq Nat, NEW bound \in Nat, \A w \in DOMAIN rows : w <= bound, NEW a
    PROVE  /\ NewestId(rows, a) \in 0 .. bound
           /\ NewestId(rows, a) # 0 => NewestId(rows, a) \in DOMAIN rows /\ rows[NewestId(rows, a)] = a
           /\ \A w \in DOMAIN rows : rows[w] = a => w <= NewestId(rows, a)
  <1> DEFINE T == {0} \cup {w \in DOMAIN rows : rows[w] = a}
  <1>1. T \in SUBSET Nat /\ T # {} /\ \A n \in T : n <= bound
    OBVIOUS
  <1>2. Max(T) \in T /\ \A n \in T : Max(T) >= n
    BY <1>1, MaxOfNaturals
  <1>3. NewestId(rows, a) = Max(T)
    BY DEF NewestId
  <1> QED  BY <1>1, <1>2, <1>3

(* The query of the resume position looks for the newest stored id of an   *)
(* account.                                                                *)
LEMMA LastIDIsNewest == \A a : GetLastIDStored(a) = NewestId(huobiRows, a) /\ GetLastIDStored(a)' = NewestId(huobiRows', a)
  BY DEF GetLastIDStored, NewestId

(* Withdrawals are numbered in the order in which they are made.           *)
LEMMA HuobiDomain ==
    ASSUME HuobiTypes
    PROVE  /\ Len(onHuobi) \in Nat /\ DOMAIN onHuobi = 1 .. Len(onHuobi)
           /\ \A w \in DOMAIN onHuobi : /\ w \in Nat /\ onHuobi[w] \in HuobiWithdrawal
                                        /\ onHuobi[w].account \in HuobiOwners /\ onHuobi[w].currency \in Currencies
           /\ DOMAIN huobiRows \subseteq Nat /\ \A w \in DOMAIN huobiRows : w <= Len(onHuobi)
           /\ \A a : GetLastIDStored(a) \in 0 .. Len(onHuobi)
  <1>1. Len(onHuobi) \in Nat /\ DOMAIN onHuobi = 1 .. Len(onHuobi)
    BY LenProperties DEF HuobiTypes
  <1>2. \A w \in DOMAIN onHuobi : onHuobi[w] \in HuobiWithdrawal
    BY <1>1 DEF HuobiTypes
  <1>3. DOMAIN huobiRows \subseteq Nat /\ \A w \in DOMAIN huobiRows : w <= Len(onHuobi)
    BY <1>1 DEF HuobiTypes
  <1>4. \A a : GetLastIDStored(a) \in 0 .. Len(onHuobi)
    BY <1>1, <1>3, NewestIdIs, LastIDIsNewest
  <1> QED  BY <1>1, <1>2, <1>3, <1>4 DEF HuobiWithdrawal

(* A turn that begins has fetched nothing yet, and its fromID is what is   *)
(* stored of the account, or beyond that and noted.                        *)
LEMMA HuobiTurnBegins ==
    ASSUME HuobiTypes, NEW i \in 1 .. Len(HuobiAccounts), NEW from \in 0 .. Len(onHuobi),
           BeginHuobiAccount(i, from), onHuobi' = onHuobi,
           DOMAIN huobiRows' \subseteq DOMAIN onHuobi,
           \A w \in DOMAIN huobiRows' : huobiRows'[w] = onHuobi[w].account,
           \A a : GetLastIDStored(a)' \in Nat /\ GetLastIDStored(a) <= GetLastIDStored(a)'
    PROVE  HuobiTypes' /\ HuobiTurn' /\ \A a \in HuobiOwners : lentFrom[a] <= lentFrom'[a]
  <1> USE HuobiConstants, HuobiDomain
  <1>1. PICK a \in HuobiOwners : a = HuobiAccounts[i]
    OBVIOUS
  <1>2. PICK last \in 0 .. Len(onHuobi) : last = GetLastIDStored(a)
    OBVIOUS
  <1>3. PICK id \in 0 .. Len(onHuobi) : id = IF from = 0 THEN last ELSE from
    OBVIOUS
  <1>4. /\ huobiAt' = i /\ fromID' = id
        /\ nextFromID' = [c \in Currencies |-> id + 1]
        /\ fetching' = Currencies /\ fetchedIDs' = {} /\ groupFailed' = FALSE
        /\ lentFrom' = IF id > last THEN [lentFrom EXCEPT ![a] = Max({@, id})] ELSE lentFrom
    BY <1>1, <1>2, <1>3 DEF BeginHuobiAccount
  <1>5. PICK lent \in Nat : lent = lentFrom[a]
    BY DEF HuobiTypes
  <1>6. Max({lent, id}) \in Nat /\ Max({lent, id}) >= lent /\ Max({lent, id}) >= id
    <2>1. {lent, id} \in SUBSET Nat /\ {lent, id} # {} /\ \A n \in {lent, id} : n <= lent + id /\ lent + id \in Nat
      OBVIOUS
    <2>2. Max({lent, id}) \in {lent, id} /\ \A n \in {lent, id} : Max({lent, id}) >= n
      BY <2>1, MaxOfNaturals
    <2> QED  BY <2>1, <2>2
  <1>7. lentFrom' = IF id > last THEN [lentFrom EXCEPT ![a] = Max({lent, id})] ELSE lentFrom
    BY <1>4, <1>5
  <1>8. lentFrom' \in [HuobiOwners -> Nat] /\ \A b \in HuobiOwners : lentFrom[b] <= lentFrom'[b]
    <2>1. lentFrom \in [HuobiOwners -> Nat]
      BY DEF HuobiTypes
    <2>2. CASE id > last
      <3>1. lentFrom' = [lentFrom EXCEPT ![a] = Max({lent, id})]
        BY <1>7, <2>2
      <3>2. \A b \in HuobiOwners : lentFrom'[b] = IF b = a THEN Max({lent, id}) ELSE lentFrom[b]
        BY <2>1, <3>1
      <3>3. lentFrom' \in [HuobiOwners -> Nat]
        BY <1>6, <2>1, <3>1
      <3>4. \A b \in HuobiOwners : lentFrom[b] \in Nat
        BY <2>1
      <3>5. ASSUME NEW b \in HuobiOwners
            PROVE  lentFrom[b] <= lentFrom'[b]
        <4>1. PICK n \in Nat : n = lentFrom[b]
          BY <3>4
        <4>2. CASE b = a
          <5>1. lentFrom'[b] = Max({lent, id}) /\ lentFrom[b] = lent
            BY <1>5, <3>2, <4>2
          <5> QED  BY ONLY <1>6, <5>1
        <4>3. CASE b # a
          <5>1. lentFrom'[b] = n
            BY <3>2, <4>1, <4>3
          <5> QED  BY ONLY <4>1, <5>1
        <4> QED  BY <4>2, <4>3
      <3> QED  BY <3>3, <3>5
    <2>3. CASE ~(id > last)
      BY <1>7, <2>1, <2>3
    <2> QED  BY <2>2, <2>3
  <1>9. id > last => id <= lentFrom'[a]
    BY <1>6, <1>7 DEF HuobiTypes
  <1>10. HuobiTypes'
    <2>1. nextFromID' \in [Currencies -> 0 .. Len(onHuobi) + 1]
      <3>1. id + 1 \in 0 .. Len(onHuobi) + 1
        OBVIOUS
      <3> QED  BY <1>4, <3>1
    <2>2. huobiAt' \in 0 .. Len(HuobiAccounts) /\ huobiAt' # 0
      <3>1. i \in 1 .. Len(HuobiAccounts) /\ Len(HuobiAccounts) \in Nat
        BY HuobiConstants
      <3> QED  BY ONLY <1>4, <3>1
    <2>3. fromID' \in 0 .. Len(onHuobi) /\ groupFailed' \in BOOLEAN
      BY ONLY <1>4, id \in 0 .. Len(onHuobi)
    <2> QED  BY <1>4, <1>8, <2>1, <2>2, <2>3 DEF HuobiTypes
  <1>11. GetLastIDStored(a)' \in Nat
    OBVIOUS
  <1>12. fromID' <= GetLastIDStored(a)' \/ fromID' <= lentFrom'[a]
    BY <1>2, <1>3, <1>4, <1>9, <1>11
  <1>13. /\ huobiAt' = i /\ HuobiAccounts[i] = a /\ groupFailed' = FALSE
         /\ \A w \in DOMAIN onHuobi : w > id => onHuobi[w].currency \in fetching' /\ w >= nextFromID'[onHuobi[w].currency]
    BY <1>1, <1>4
  <1> QED  BY <1>1, <1>4, <1>8, <1>10, <1>12, <1>13 DEF HuobiTurn

(* When no run is at work the invariant is about the types of the tables   *)
(* only.                                                                   *)
LEMMA HuobiIdle ==
    ASSUME HuobiTypes, EndHuobiRun, onHuobi' = onHuobi, lentFrom' = lentFrom,
           DOMAIN huobiRows' \subseteq DOMAIN onHuobi,
           \A w \in DOMAIN huobiRows' : huobiRows'[w] = onHuobi[w].account
    PROVE  HuobiTypes' /\ HuobiTurn'
  <1>1. nextFromID' \in [Currencies -> 0 .. Len(onHuobi) + 1] /\ fromID' \in 0 .. Len(onHuobi)
    BY HuobiDomain DEF EndHuobiRun
  <1>2. huobiAt' = 0 /\ fetching' = {} /\ fetchedIDs' = {} /\ groupFailed' = FALSE /\ 0 \in 0 .. Len(HuobiAccounts)
    BY HuobiConstants DEF EndHuobiRun
  <1> QED  BY <1>1, <1>2 DEF HuobiTypes, HuobiTurn

(* A step that stores nothing and excuses no less.                         *)
LEMMA HuobiRowsKept ==
    ASSUME HuobiTypes, NoWithdrawalIsPassed, huobiRows' = huobiRows, onHuobi' = onHuobi,
           madeMeanwhile \subseteq madeMeanwhile', \A a \in HuobiOwners : lentFrom[a] <= lentFrom'[a],
           lentFrom' \in [HuobiOwners -> Nat]
    PROVE  NoWithdrawalIsPassed'
  <1>1. \A a : GetLastIDStored(a)' = GetLastIDStored(a)
    BY DEF GetLastIDStored
  <1>2. \A w : Excused(w) => Excused(w)'
    BY HuobiDomain DEF Excused, HuobiTypes
  <1> QED  BY <1>1, <1>2 DEF NoWithdrawalIsPassed

(* The withdrawals of a currency from an id on, the page of the oldest of  *)
(* them, and what is passed when the next page begins after an entry.      *)
LEMMA PageIs ==
    ASSUME HuobiTypes, NEW c \in Currencies, NEW from \in Nat
    PROVE  /\ Page(c, from) \subseteq DOMAIN onHuobi
           /\ \A w \in Page(c, from) : onHuobi[w].account = HuobiAccounts[huobiAt]
           /\ Page(c, from) = {} =>
                 \A w \in DOMAIN onHuobi :
                    onHuobi[w].account = HuobiAccounts[huobiAt] /\ onHuobi[w].currency = c => w < from
           /\ \A first \in Page(c, from), w \in DOMAIN onHuobi :
                 /\ onHuobi[w].account = HuobiAccounts[huobiAt] /\ onHuobi[w].currency = c
                 /\ w >= from /\ w <= first
                 => w \in Page(c, from)
           /\ Page(c, from) # {} => Min(Page(c, from)) \in Page(c, from) /\ Max(Page(c, from)) \in Page(c, from)
  <1>1. PICK all : all = {w \in OfHuobi(HuobiAccounts[huobiAt]) : onHuobi[w].currency = c /\ w >= from}
    OBVIOUS
  <1>2. Page(c, from) = FirstOf(all, HuobiPageSize)
    BY <1>1 DEF Page, FirstOf, Below
  <1>3. /\ all \in SUBSET Nat /\ Len(onHuobi) \in Nat /\ \A w \in all : w <= Len(onHuobi)
        /\ \A w \in all : w \in DOMAIN onHuobi /\ onHuobi[w].account = HuobiAccounts[huobiAt]
    BY <1>1, HuobiDomain DEF OfHuobi
  <1>4. \A w \in DOMAIN onHuobi :
           /\ onHuobi[w].account = HuobiAccounts[huobiAt] /\ onHuobi[w].currency = c
           => w \in all \/ w < from
    BY <1>1, HuobiDomain DEF OfHuobi
  <1>5. \A w \in DOMAIN onHuobi :
           /\ onHuobi[w].account = HuobiAccounts[huobiAt] /\ onHuobi[w].currency = c /\ w >= from
           => w \in all
    BY <1>1 DEF OfHuobi
  <1>6. PICK page : page = FirstOf(all, HuobiPageSize)
    OBVIOUS
  <1>7. /\ page \subseteq all
        /\ all # {} => page # {}
        /\ \A first \in page, w \in all : w <= first => w \in page
        /\ page # {} => Min(page) \in page /\ Max(page) \in page
    BY <1>3, <1>6, FirstOfIs, HuobiConstants
  <1>8. Page(c, from) = page
    BY <1>2, <1>6
  <1> QED  BY <1>3, <1>4, <1>5, <1>7, <1>8

(* What an exchange has, and when, does not change what is stored; what it *)
(* has made while the account is fetched is known as such.                 *)
LEMMA WithdrawFromHuobiKeeps ==
    ASSUME HuobiInv, NEW account \in HuobiOwners, NEW currency \in Currencies, WithdrawFromHuobi(account, currency)
    PROVE  HuobiInv'
  <1> USE DEF HuobiInv
  <1>1. PICK n \in Nat : n = Len(onHuobi) /\ DOMAIN onHuobi = 1 .. n
    BY HuobiDomain
  <1>2. PICK new \in HuobiWithdrawal : new = [account |-> account, currency |-> currency]
    BY DEF HuobiWithdrawal
  <1>3. /\ onHuobi' = Append(onHuobi, new) /\ n < LastHuobiId
        /\ madeMeanwhile' = IF huobiAt # 0 /\ HuobiAccounts[huobiAt] = account
                            THEN madeMeanwhile \cup {Len(onHuobi')} ELSE madeMeanwhile
        /\ huobiRows' = huobiRows /\ lentFrom' = lentFrom
        /\ huobiAt' = huobiAt /\ fromID' = fromID /\ nextFromID' = nextFromID
        /\ fetching' = fetching /\ fetchedIDs' = fetchedIDs /\ groupFailed' = groupFailed
    BY <1>1, <1>2 DEF WithdrawFromHuobi, huobiRunVars
  <1>4. onHuobi \in Seq(HuobiWithdrawal) /\ LastHuobiId \in Nat
    BY HuobiConstants DEF HuobiTypes
  <1>5. /\ onHuobi' \in Seq(HuobiWithdrawal) /\ Len(onHuobi') = n + 1 /\ n + 1 <= LastHuobiId
        /\ DOMAIN onHuobi' = 1 .. n + 1
        /\ \A w \in 1 .. n : onHuobi'[w] = onHuobi[w]
        /\ onHuobi'[n + 1] = new
    BY <1>1, <1>3, <1>4, AppendProperties
  <1>6. /\ \A w \in DOMAIN onHuobi : w \in DOMAIN onHuobi' /\ onHuobi'[w] = onHuobi[w]
        /\ \A w \in DOMAIN onHuobi' : w \in DOMAIN onHuobi \/ w = n + 1
    BY <1>1, <1>5
  <1>7. HuobiTypes'
    <2>1. nextFromID \in [Currencies -> 0 .. Len(onHuobi) + 1] /\ fromID \in 0 .. Len(onHuobi)
      BY DEF HuobiTypes
    <2>2. nextFromID' \in [Currencies -> 0 .. Len(onHuobi') + 1]
      <3>1. 0 .. n + 1 \subseteq 0 .. (n + 1) + 1
        OBVIOUS
      <3> QED  BY <1>1, <1>3, <1>5, <2>1, <3>1
    <2>3. fromID' \in 0 .. Len(onHuobi')
      BY <1>1, <1>3, <1>5, <2>1
    <2> QED  BY <1>3, <1>5, <1>6, <2>2, <2>3 DEF HuobiTypes
  <1>8. HuobiTurn'
    <2> SUFFICES ASSUME huobiAt # 0
                 PROVE  HuobiTurn'
      BY <1>3 DEF HuobiTurn
    <2>0. \/ groupFailed
          \/ \A w \in DOMAIN onHuobi :
                onHuobi[w].account = HuobiAccounts[huobiAt] /\ w > fromID =>
                    \/ w \in fetchedIDs \/ w \in madeMeanwhile
                    \/ onHuobi[w].currency \in fetching /\ w >= nextFromID[onHuobi[w].currency]
      BY DEF HuobiTurn
    <2>1. PICK a : a = HuobiAccounts[huobiAt]
      OBVIOUS
    <2>2. fromID <= GetLastIDStored(a)' \/ fromID <= lentFrom[a]
      BY <1>3, <2>1 DEF HuobiTurn, GetLastIDStored
    <2>3. ASSUME ~groupFailed, NEW w \in DOMAIN onHuobi', onHuobi'[w].account = a, w > fromID
          PROVE  \/ w \in fetchedIDs \/ w \in madeMeanwhile'
                 \/ onHuobi'[w].currency \in fetching /\ w >= nextFromID[onHuobi'[w].currency]
      <3>1. CASE w \in DOMAIN onHuobi
        <4>1. onHuobi'[w] = onHuobi[w] /\ madeMeanwhile \subseteq madeMeanwhile'
          BY <1>3, <1>6, <3>1
        <4>2. onHuobi[w].account = HuobiAccounts[huobiAt]
          BY <2>1, <2>3, <4>1
        <4>3. \/ w \in fetchedIDs \/ w \in madeMeanwhile
              \/ onHuobi[w].currency \in fetching /\ w >= nextFromID[onHuobi[w].currency]
          BY <2>0, <2>3, <3>1, <4>2
        <4> QED  BY <4>1, <4>3
      <3>2. CASE w = n + 1
        <4>1. onHuobi'[w].account = account
          BY <1>2, <1>5, <3>2
        <4>2. madeMeanwhile' = madeMeanwhile \cup {Len(onHuobi')}
          BY <1>3, <2>1, <2>3, <4>1
        <4>3. Len(onHuobi') = w
          BY <1>5, <3>2
        <4>4. w \in madeMeanwhile'
          BY <4>2, <4>3
        <4> QED  BY <4>4
      <3> QED  BY <1>6, <3>1, <3>2
    <2> QED  BY <1>3, <2>1, <2>2, <2>3 DEF HuobiTurn
  <1>9. NoWithdrawalIsPassed'
    <2>1. ASSUME NEW w \in DOMAIN onHuobi', w < NewestId(huobiRows, onHuobi'[w].account)
          PROVE  w \in DOMAIN huobiRows \/ w \in madeMeanwhile' \/ w <= lentFrom[onHuobi'[w].account]
      <3>1. PICK last \in 0 .. n : last = NewestId(huobiRows, onHuobi'[w].account)
        BY <1>1, HuobiDomain, LastIDIsNewest
      <3>2. w # n + 1
        BY <2>1, <3>1
      <3>3. w \in DOMAIN onHuobi /\ onHuobi'[w] = onHuobi[w]
        BY <1>6, <3>2
      <3>4. w < GetLastIDStored(onHuobi[w].account)
        BY <2>1, <3>3, LastIDIsNewest
      <3>5. w \in DOMAIN huobiRows \/ w \in madeMeanwhile \/ w <= lentFrom[onHuobi[w].account]
        BY <3>3, <3>4 DEF NoWithdrawalIsPassed, Excused
      <3>6. madeMeanwhile \subseteq madeMeanwhile'
        BY <1>3
      <3> QED  BY <3>3, <3>5, <3>6
    <2> QED  BY <1>3, <2>1 DEF NoWithdrawalIsPassed, GetLastIDStored, NewestId, Excused
  <1> QED  BY <1>7, <1>8, <1>9

(* A run starts with the first account, from its resume position or a      *)
(* given one.                                                              *)
LEMMA StartHuobiKeeps ==
    ASSUME HuobiInv, NEW from \in 0 .. Len(onHuobi), StartHuobi(from)
    PROVE  HuobiInv'
  <1>1. /\ BeginHuobiAccount(1, from) /\ huobiRows' = huobiRows /\ onHuobi' = onHuobi
        /\ madeMeanwhile' = madeMeanwhile /\ HuobiTypes /\ NoWithdrawalIsPassed
    BY DEF StartHuobi, HuobiInv
  <1>2. 1 \in 1 .. Len(HuobiAccounts)
    BY HuobiConstants
  <1>3. \A a : GetLastIDStored(a)' \in Nat /\ GetLastIDStored(a) <= GetLastIDStored(a)'
    <2>1. \A a : GetLastIDStored(a)' = GetLastIDStored(a)
      BY <1>1 DEF GetLastIDStored
    <2>2. \A a : GetLastIDStored(a) \in Nat
      BY <1>1, HuobiDomain
    <2> QED  BY <2>1, <2>2
  <1>4. DOMAIN huobiRows' \subseteq DOMAIN onHuobi /\ \A w \in DOMAIN huobiRows' : huobiRows'[w] = onHuobi[w].account
    BY <1>1 DEF HuobiTypes
  <1>5. HuobiTypes' /\ HuobiTurn' /\ \A a \in HuobiOwners : lentFrom[a] <= lentFrom'[a]
    BY <1>1, <1>2, <1>3, <1>4, HuobiTurnBegins
  <1>6. NoWithdrawalIsPassed'
    BY <1>1, <1>5, HuobiRowsKept DEF HuobiTypes
  <1> QED  BY <1>5, <1>6 DEF HuobiInv

(* A goroutine gets a page, which begins where its last one ended.         *)
LEMMA FetchPageKeeps ==
    ASSUME HuobiInv, NEW c \in Currencies, FetchPage(c)
    PROVE  HuobiInv'
  <1>1. /\ HuobiTypes /\ HuobiTurn /\ NoWithdrawalIsPassed
        /\ c \in fetching
        /\ onHuobi' = onHuobi /\ huobiRows' = huobiRows /\ huobiAt' = huobiAt /\ fromID' = fromID
        /\ groupFailed' = groupFailed /\ madeMeanwhile' = madeMeanwhile /\ lentFrom' = lentFrom
    BY DEF HuobiInv, FetchPage
  <1>2. PICK n \in Nat : n = Len(onHuobi) /\ DOMAIN onHuobi = 1 .. n
    BY <1>1, HuobiDomain
  <1>3. nextFromID \in [Currencies -> 0 .. n + 1]
    BY <1>1, <1>2 DEF HuobiTypes
  <1>4. PICK from \in Nat : from = nextFromID[c]
    BY <1>3
  <1>5. PICK page : page = Page(c, from)
    OBVIOUS
  <1>6. PICK a : a = HuobiAccounts[huobiAt]
    OBVIOUS
  <1>7. /\ page \subseteq DOMAIN onHuobi
        /\ \A w \in page : onHuobi[w].account = a
        /\ page = {} => \A w \in DOMAIN onHuobi : onHuobi[w].account = a /\ onHuobi[w].currency = c => w < from
        /\ \A first \in page, w \in DOMAIN onHuobi :
              onHuobi[w].account = a /\ onHuobi[w].currency = c /\ w >= from /\ w <= first => w \in page
        /\ page # {} => Min(page) \in page /\ Max(page) \in page
    BY <1>1, <1>5, <1>6, PageIs
  <1>8. huobiAt # 0
    BY <1>1 DEF HuobiTypes
  <1>9. CASE page = {}
    <2>1. fetching' = fetching \ {c} /\ nextFromID' = nextFromID /\ fetchedIDs' = fetchedIDs
      BY <1>4, <1>5, <1>9 DEF FetchPage
    <2>2. HuobiTypes'
      BY <1>1, <2>1 DEF HuobiTypes
    <2>3. ASSUME NEW w \in DOMAIN onHuobi, onHuobi[w].account = a, onHuobi[w].currency = c, w >= from
          PROVE  FALSE
      <3>1. w < from /\ w \in Nat
        BY <1>2, <1>7, <1>9, <2>3
      <3> QED  BY ONLY <2>3, <3>1, from \in Nat
    <2>4. HuobiTurn'
      <3>1. /\ \/ fromID <= GetLastIDStored(a)'
               \/ fromID <= lentFrom[a]
            /\ \/ groupFailed
               \/ \A w \in DOMAIN onHuobi :
                     onHuobi[w].account = a /\ w > fromID =>
                         \/ w \in fetchedIDs \/ w \in madeMeanwhile
                         \/ onHuobi[w].currency \in fetching /\ w >= nextFromID[onHuobi[w].currency]
        BY <1>1, <1>6, <1>8 DEF HuobiTurn, GetLastIDStored
      <3>2. \/ groupFailed
            \/ \A w \in DOMAIN onHuobi :
                     onHuobi[w].account = a /\ w > fromID =>
                         \/ w \in fetchedIDs \/ w \in madeMeanwhile
                         \/ onHuobi[w].currency \in fetching' /\ w >= nextFromID[onHuobi[w].currency]
        BY <1>4, <2>1, <2>3, <3>1
      <3> QED  BY <1>1, <1>6, <2>1, <3>1, <3>2 DEF HuobiTurn
    <2>5. NoWithdrawalIsPassed'
      BY <1>1 DEF NoWithdrawalIsPassed, GetLastIDStored, Excused
    <2> QED  BY <2>2, <2>4, <2>5 DEF HuobiInv
  <1>10. CASE page # {}
    <2>1. PICK first \in page : nextFromID' = [nextFromID EXCEPT ![c] = first + 1]
      BY <1>4, <1>5, <1>7, <1>10 DEF FetchPage
    <2>2. fetching' = fetching /\ fetchedIDs' = fetchedIDs \cup page
      BY <1>4, <1>5, <1>10 DEF FetchPage
    <2>3. first \in 1 .. n
      BY <1>2, <1>7
    <2>4. first + 1 \in 0 .. n + 1
      BY <2>3
    <2>5. /\ nextFromID' \in [Currencies -> 0 .. n + 1]
          /\ nextFromID'[c] = first + 1
          /\ \A d \in Currencies : d # c => nextFromID'[d] = nextFromID[d]
      BY <1>3, <2>1, <2>4
    <2>6. HuobiTypes'
      BY <1>1, <1>2, <1>6, <1>7, <1>8, <2>2, <2>5 DEF HuobiTypes
    <2>7. ASSUME NEW w \in DOMAIN onHuobi, onHuobi[w].account = a, onHuobi[w].currency = c, w >= from
          PROVE  w \in page \/ w >= first + 1
      <3>1. w \in Nat /\ first \in Nat
        BY <1>2, <2>3
      <3>2. w <= first => w \in page
        BY <1>7, <2>7
      <3>3. w <= first \/ w >= first + 1
        BY ONLY <3>1
      <3> QED  BY <3>2, <3>3
    <2>8. HuobiTurn'
      <3>1. /\ \/ fromID <= GetLastIDStored(a)'
               \/ fromID <= lentFrom[a]
            /\ \/ groupFailed
               \/ \A w \in DOMAIN onHuobi :
                     onHuobi[w].account = a /\ w > fromID =>
                         \/ w \in fetchedIDs \/ w \in madeMeanwhile
                         \/ onHuobi[w].currency \in fetching /\ w >= nextFromID[onHuobi[w].currency]
        BY <1>1, <1>6, <1>8 DEF HuobiTurn, GetLastIDStored
      <3>2. ASSUME ~groupFailed, NEW w \in DOMAIN onHuobi, onHuobi[w].account = a, w > fromID
            PROVE  \/ w \in fetchedIDs' \/ w \in madeMeanwhile
                   \/ onHuobi[w].currency \in fetching' /\ w >= nextFromID'[onHuobi[w].currency]
        <4>1. onHuobi[w].currency \in Currencies
          BY <1>1, HuobiDomain
        <4>2. CASE onHuobi[w].currency = c
          BY <1>4, <2>2, <2>5, <2>7, <3>1, <3>2, <4>2
        <4>3. CASE onHuobi[w].currency # c
          BY <2>2, <2>5, <3>1, <3>2, <4>1, <4>3
        <4> QED  BY <4>2, <4>3
      <3> QED  BY <1>1, <1>6, <3>1, <3>2 DEF HuobiTurn
    <2>9. NoWithdrawalIsPassed'
      BY <1>1 DEF NoWithdrawalIsPassed, GetLastIDStored, Excused
    <2> QED  BY <2>6, <2>8, <2>9 DEF HuobiInv
  <1> QED  BY <1>9, <1>10

(* A goroutine gives up: the run ends and nothing of the account is        *)
(* stored.                                                                 *)
LEMMA PageFailsKeeps ==
    ASSUME HuobiInv, NEW c \in Currencies, PageFails(c)
    PROVE  HuobiInv'
  <1>1. /\ HuobiTypes /\ HuobiTurn /\ NoWithdrawalIsPassed
        /\ fetching' = fetching \ {c} /\ groupFailed' = TRUE
        /\ onHuobi' = onHuobi /\ huobiRows' = huobiRows /\ huobiAt' = huobiAt /\ fromID' = fromID
        /\ nextFromID' = nextFromID /\ fetchedIDs' = fetchedIDs
        /\ madeMeanwhile' = madeMeanwhile /\ lentFrom' = lentFrom
    BY DEF HuobiInv, PageFails
  <1>2. HuobiTypes'
    BY <1>1 DEF HuobiTypes
  <1>3. HuobiTurn'
    BY <1>1 DEF HuobiTurn, GetLastIDStored
  <1>4. NoWithdrawalIsPassed'
    BY <1>1 DEF NoWithdrawalIsPassed, GetLastIDStored, Excused
  <1> QED  BY <1>2, <1>3, <1>4 DEF HuobiInv

(* A killed run leaves the table as it is.                                 *)
LEMMA HuobiStopKeeps ==
    ASSUME HuobiInv, HuobiStop
    PROVE  HuobiInv'
  <1>1. /\ HuobiTypes /\ NoWithdrawalIsPassed /\ EndHuobiRun
        /\ onHuobi' = onHuobi /\ huobiRows' = huobiRows /\ madeMeanwhile' = madeMeanwhile /\ lentFrom' = lentFrom
    BY DEF HuobiInv, HuobiStop
  <1>2. DOMAIN huobiRows' \subseteq DOMAIN onHuobi /\ \A w \in DOMAIN huobiRows' : huobiRows'[w] = onHuobi[w].account
    BY <1>1 DEF HuobiTypes
  <1>3. HuobiTypes' /\ HuobiTurn'
    BY <1>1, <1>2, HuobiIdle
  <1>4. NoWithdrawalIsPassed'
    BY <1>1 DEF NoWithdrawalIsPassed, GetLastIDStored, Excused
  <1> QED  BY <1>3, <1>4 DEF HuobiInv

(* What the goroutines have fetched is stored: below the newest id of the  *)
(* account nothing is left out but what is excused.                        *)
LEMMA StoreHuobiPasses ==
    ASSUME HuobiInv, huobiAt # 0, fetching = {}, ~groupFailed, huobiRows' = Inserted(fetchedIDs),
           onHuobi' = onHuobi, madeMeanwhile' = madeMeanwhile,
           \A a \in HuobiOwners : lentFrom[a] <= lentFrom'[a], lentFrom' \in [HuobiOwners -> Nat]
    PROVE  NoWithdrawalIsPassed'
  <1>1. HuobiTypes /\ HuobiTurn /\ NoWithdrawalIsPassed
    BY DEF HuobiInv
  <1>2. PICK n \in Nat : n = Len(onHuobi) /\ DOMAIN onHuobi = 1 .. n
    BY <1>1, HuobiDomain
  <1>3. PICK a : a = HuobiAccounts[huobiAt]
    OBVIOUS
  <1>4. PICK rows : rows = huobiRows'
    OBVIOUS
  <1>5. /\ DOMAIN rows = DOMAIN huobiRows \cup fetchedIDs
        /\ \A w \in DOMAIN rows : rows[w] = IF w \in DOMAIN huobiRows THEN huobiRows[w] ELSE a
    BY <1>3, <1>4 DEF Inserted
  <1>6. /\ DOMAIN huobiRows \subseteq DOMAIN onHuobi /\ fetchedIDs \subseteq DOMAIN onHuobi
        /\ \A w \in DOMAIN huobiRows : huobiRows[w] = onHuobi[w].account
        /\ \A w \in fetchedIDs : onHuobi[w].account = a
    BY <1>1, <1>3 DEF HuobiTypes
  <1>7. DOMAIN rows \subseteq 1 .. n /\ \A w \in DOMAIN rows : rows[w] = onHuobi[w].account
    BY <1>2, <1>5, <1>6
  <1>8. \A b : b # a => NewestId(rows, b) = NewestId(huobiRows, b)
    <2> SUFFICES ASSUME NEW b, b # a
                 PROVE  NewestId(rows, b) = NewestId(huobiRows, b)
      OBVIOUS
    <2>1. {w \in DOMAIN rows : rows[w] = b} = {w \in DOMAIN huobiRows : huobiRows[w] = b}
      BY <1>5, <1>6, <1>7
    <2> QED  BY <2>1 DEF NewestId
  <1>9. ASSUME NEW w \in DOMAIN onHuobi, w < NewestId(rows, onHuobi[w].account)
        PROVE  w \in DOMAIN rows \/ w \in madeMeanwhile \/ w <= lentFrom'[onHuobi[w].account]
    <2>1. PICK b \in HuobiOwners : b = onHuobi[w].account
      BY <1>1, HuobiDomain
    <2>2. PICK last \in 0 .. n : last = NewestId(huobiRows, b)
      BY <1>1, <1>2, HuobiDomain, LastIDIsNewest
    <2>3. PICK lent \in Nat : lent = lentFrom[b]
      BY <1>1 DEF HuobiTypes
    <2>4. PICK lent2 \in Nat : lent2 = lentFrom'[b] /\ lent <= lent2
      BY <2>3
    <2>5. w \in Nat
      BY <1>2
    <2>6. ASSUME w < last
          PROVE  w \in DOMAIN rows \/ w \in madeMeanwhile \/ w <= lent2
      <3>1. w \in DOMAIN huobiRows \/ w \in madeMeanwhile \/ w <= lent
        BY <1>1, <2>1, <2>2, <2>3, <2>6, LastIDIsNewest DEF NoWithdrawalIsPassed, Excused
      <3>2. w <= lent => w <= lent2
        BY ONLY <2>4, <2>5, lent \in Nat
      <3> QED  BY <1>5, <3>1, <3>2
    <2>7. CASE b # a
      BY <1>8, <1>9, <2>1, <2>2, <2>4, <2>6, <2>7
    <2>8. CASE b = a /\ ~(w < last)
      <3>1. PICK from \in Nat : from = fromID
        BY <1>1, <1>2 DEF HuobiTypes
      <3>2. from <= last \/ from <= lent
        BY <1>1, <1>3, <2>2, <2>3, <2>8, <3>1, LastIDIsNewest DEF HuobiTurn
      <3>3. w > from => w \in fetchedIDs \/ w \in madeMeanwhile
        BY <1>1, <1>3, <2>1, <2>8, <3>1 DEF HuobiTurn
      <3>4. w <= from => w = last \/ w <= lent2
        BY ONLY <2>4, <2>5, <2>8, <3>2, last \in 0 .. n, n \in Nat, lent \in Nat, from \in Nat
      <3>5. w = last => w \in DOMAIN huobiRows
        <4>1. w # 0
          BY <1>2
        <4>2. DOMAIN huobiRows \subseteq Nat /\ \A v \in DOMAIN huobiRows : v <= n
          BY <1>2, <1>6
        <4>3. last # 0 => last \in DOMAIN huobiRows
          BY <2>2, <4>2, NewestIdIs
        <4> QED  BY <4>1, <4>3
      <3>6. w > from \/ w <= from
        BY <2>5
      <3> QED  BY <1>5, <2>1, <2>4, <3>3, <3>4, <3>5, <3>6
    <2> QED  BY <2>1, <2>4, <2>6, <2>7, <2>8
  <1> QED  BY <1>4, <1>9 DEF NoWithdrawalIsPassed, GetLastIDStored, NewestId, Excused

(* The withdrawals of the account are stored, all that its goroutines have *)
(* got.                                                                    *)
LEMMA StoreHuobiKeeps ==
    ASSUME HuobiInv, StoreHuobi
    PROVE  HuobiInv'
  <1>1. /\ HuobiTypes /\ HuobiTurn /\ NoWithdrawalIsPassed
        /\ huobiAt # 0 /\ fetching = {}
        /\ huobiRows' = IF groupFailed THEN huobiRows ELSE Inserted(fetchedIDs)
        /\ NextHuobiAccount /\ onHuobi' = onHuobi /\ madeMeanwhile' = madeMeanwhile
    BY DEF HuobiInv, StoreHuobi
  <1>2. PICK n \in Nat : n = Len(onHuobi) /\ DOMAIN onHuobi = 1 .. n
    BY <1>1, HuobiDomain
  <1>3. PICK rows : rows = huobiRows'
    OBVIOUS
  <1>4. /\ DOMAIN rows \subseteq DOMAIN onHuobi /\ DOMAIN huobiRows \subseteq DOMAIN rows
        /\ \A w \in DOMAIN rows : rows[w] = onHuobi[w].account
    <2>1. CASE groupFailed
      BY <1>1, <1>3, <2>1 DEF HuobiTypes
    <2>2. CASE ~groupFailed
      <3>1. rows = Inserted(fetchedIDs)
        BY <1>1, <1>3, <2>2
      <3> QED  BY <1>1, <3>1 DEF HuobiTypes, Inserted
    <2> QED  BY <2>1, <2>2
  <1>5. ASSUME NEW a
        PROVE  NewestId(rows, a) \in Nat /\ NewestId(huobiRows, a) <= NewestId(rows, a)
    <2>1. DOMAIN rows \subseteq Nat /\ (\A w \in DOMAIN rows : w <= n)
          /\ DOMAIN huobiRows \subseteq Nat /\ (\A w \in DOMAIN huobiRows : w <= n)
      BY <1>2, <1>4
    <2>2. PICK new \in 0 .. n : new = NewestId(rows, a)
      BY <2>1, NewestIdIs
    <2>3. PICK last \in 0 .. n : last = NewestId(huobiRows, a)
      BY <2>1, NewestIdIs
    <2>4. last # 0 => last \in DOMAIN huobiRows /\ huobiRows[last] = a
      BY <2>1, <2>3, NewestIdIs
    <2>5. last # 0 => last \in DOMAIN rows /\ rows[last] = a
      BY <1>1, <1>4, <2>4 DEF HuobiTypes
    <2>6. last # 0 => last <= new
      BY <2>1, <2>2, <2>5, NewestIdIs
    <2> QED  BY <2>2, <2>3, <2>6
  <1>6. \A a : GetLastIDStored(a)' \in Nat /\ GetLastIDStored(a) <= GetLastIDStored(a)'
    BY <1>3, <1>5, LastIDIsNewest
  <1>7. HuobiTypes' /\ HuobiTurn' /\ \A a \in HuobiOwners : lentFrom[a] <= lentFrom'[a]
    <2>1. CASE huobiAt < Len(HuobiAccounts)
      <3>1. BeginHuobiAccount(huobiAt + 1, fromID)
        BY <1>1, <2>1 DEF NextHuobiAccount
      <3>2. PICK i \in 1 .. Len(HuobiAccounts) : i = huobiAt + 1
        BY <1>1, <2>1, HuobiConstants DEF HuobiTypes
      <3>3. PICK from \in 0 .. Len(onHuobi) : from = fromID
        BY <1>1 DEF HuobiTypes
      <3>4. BeginHuobiAccount(i, from)
        BY <3>1, <3>2, <3>3 DEF BeginHuobiAccount
      <3> QED  BY <1>1, <1>3, <1>4, <1>6, <3>4, HuobiTurnBegins
    <2>2. CASE ~(huobiAt < Len(HuobiAccounts))
      <3>1. EndHuobiRun /\ lentFrom' = lentFrom
        BY <1>1, <2>2 DEF NextHuobiAccount
      <3>2. \A a \in HuobiOwners : lentFrom[a] \in Nat
        BY <1>1 DEF HuobiTypes
      <3>3. HuobiTypes' /\ HuobiTurn'
        BY <1>1, <1>3, <1>4, <3>1, HuobiIdle
      <3> QED  BY <3>1, <3>2, <3>3
    <2> QED  BY <2>1, <2>2
  <1>8. NoWithdrawalIsPassed'
    <2>1. lentFrom' \in [HuobiOwners -> Nat]
      BY <1>7 DEF HuobiTypes
    <2>2. CASE groupFailed
      BY <1>1, <1>7, <2>1, <2>2, HuobiRowsKept
    <2>3. CASE ~groupFailed
      BY <1>1, <1>7, <2>1, <2>3, StoreHuobiPasses
    <2> QED  BY <2>2, <2>3
  <1> QED  BY <1>7, <1>8 DEF HuobiInv

(* The other programs leave this one alone.                                *)
LEMMA HuobiStep == [Next]_vars => [HuobiNext]_huobiVars
  <1>1. CASE Next
    <2>1. CASE Alone("huobi withdrawals", HuobiNext)
      BY <2>1 DEF Alone
    <2>2. ASSUME NEW p \in {"resolver", "fetcher", "binance withdrawals"}, program = p,
                 Idle("huobi withdrawals", huobiVars)
          PROVE  UNCHANGED huobiVars
      BY <2>2 DEF Idle
    <2>3. CASE Alone("resolver", Resolver!Next)
      BY <2>2, <2>3 DEF Alone
    <2>4. CASE Alone("fetcher", RatesNext)
      BY <2>2, <2>4 DEF Alone
    <2>5. CASE Alone("binance withdrawals", BinanceNext)
      BY <2>2, <2>5 DEF Alone
    <2> QED  BY <1>1, <2>1, <2>3, <2>4, <2>5 DEF Next
  <1>2. CASE UNCHANGED vars
    BY <1>2 DEF vars
  <1> QED  BY <1>1, <1>2

(* The table is empty at first.                                            *)
LEMMA HuobiStarts == HuobiInit => HuobiInv
  <1> SUFFICES ASSUME HuobiInit
               PROVE  HuobiInv
    OBVIOUS
  <1>1. onHuobi \in Seq(HuobiWithdrawal) /\ Len(onHuobi) = 0 /\ DOMAIN onHuobi = {} /\ DOMAIN huobiRows = {}
    BY DEF HuobiInit
  <1>2. nextFromID \in [Currencies -> 0 .. Len(onHuobi) + 1] /\ fromID \in 0 .. Len(onHuobi)
    BY <1>1 DEF HuobiInit
  <1>3. lentFrom \in [HuobiOwners -> Nat] /\ 0 \in 0 .. Len(HuobiAccounts) /\ 0 <= LastHuobiId
    BY HuobiConstants DEF HuobiInit
  <1> QED  BY <1>1, <1>2, <1>3 DEF HuobiInit, HuobiInv, HuobiTypes, HuobiTurn, NoWithdrawalIsPassed

(* Every step of the fetcher keeps the invariant.                          *)
LEMMA HuobiSteps == HuobiInv /\ [HuobiNext]_huobiVars => HuobiInv'
  <1> SUFFICES ASSUME HuobiInv, [HuobiNext]_huobiVars
               PROVE  HuobiInv'
    OBVIOUS
  <1>1. CASE UNCHANGED huobiVars
    BY <1>1 DEF huobiVars, huobiRunVars, HuobiInv, HuobiTypes, HuobiTurn, NoWithdrawalIsPassed,
        GetLastIDStored, Excused
  <1>2. CASE \E a \in HuobiOwners, c \in Currencies : WithdrawFromHuobi(a, c)
    BY <1>2, WithdrawFromHuobiKeeps
  <1>3. CASE \E from \in 0 .. Len(onHuobi) : StartHuobi(from)
    BY <1>3, StartHuobiKeeps
  <1>4. CASE StoreHuobi
    BY <1>4, StoreHuobiKeeps
  <1>5. CASE \E c \in Currencies : FetchPage(c)
    BY <1>5, FetchPageKeeps
  <1>6. CASE \E c \in Currencies : PageFails(c)
    BY <1>6, PageFailsKeeps
  <1>7. CASE HuobiStop
    BY <1>7, HuobiStopKeeps
  <1> QED  BY <1>1, <1>2, <1>3, <1>4, <1>5, <1>6, <1>7 DEF HuobiNext, HuobiWorks

(* No withdrawal of an account below the newest one stored, from which the *)
(* next run of accounting-huobi-withdrawal-fetcher resumes, is missing but *)
(* those a from-id passed or that were made while it ran.                  *)
THEOREM WithdrawalsAreNotPassed == Spec => []NoWithdrawalIsPassed
  <1>1. Init => HuobiInv
    BY HuobiStarts DEF Init
  <1>2. HuobiInv /\ [Next]_vars => HuobiInv'
    BY HuobiStep, HuobiSteps
  <1>3. HuobiInv => NoWithdrawalIsPassed
    BY DEF HuobiInv
  <1> QED  BY <1>1, <1>2, <1>3, PTL DEF Spec

-----------------------------------------------------------------------------
(* The resolver of last blocks.                                            *)

(* A resolver searches from a block that is no later than the day whose    *)
(* last block it wants, to one of the next day.  LastResolved is a row of  *)
(* the table, and Next wants the day after it.                             *)
ResolverInv ==
    /\ dayOf \in DaysOf /\ tip \in 1 .. MaxBlock
    /\ call \in {"none", "Next", "Resolve"}
    /\ phase \in {"probe", "search"}
    /\ blockInfo \subseteq 1 .. MaxBlock
    /\ LastResolved \in blockInfo \cup {0}
    /\ call # "none" => /\ start \in 1 .. tip /\ end \in Nat \ {0}
                        /\ dayOf[start] <= current /\ current \in Nat
    /\ call # "none" /\ phase = "search" => end <= tip /\ dayOf[end] = current + 1
    /\ call = "Next" => LastResolved # 0 /\ current = dayOf[LastResolved] + 1
    /\ OnlyLastBlocks

(* Every block of the chain has its day.                                   *)
LEMMA ChainsHaveDays ==
    ASSUME NEW d \in DaysOf
    PROVE  /\ MaxBlock \in Nat /\ BlockStep \in Nat
           /\ \A b \in 1 .. MaxBlock : d[b] \in Nat
           /\ \A b, c \in 1 .. MaxBlock : /\ b <= c => d[b] <= d[c]
                                          /\ c = b + 1 => d[c] <= d[b] + 1
                                          /\ d[b] + 2 <= d[c] => c - b > BlockStep
  <1>1. MaxBlock \in Nat /\ BlockStep \in Nat /\ d \in [1 .. MaxBlock -> 1 .. MaxBlock]
    BY ChainsAssumption
  <1>2. \A b \in 1 .. MaxBlock : d[b] \in Nat
    <2> SUFFICES ASSUME NEW b \in 1 .. MaxBlock
                 PROVE  d[b] \in Nat
      OBVIOUS
    <2>1. d[b] \in 1 .. MaxBlock
      BY <1>1
    <2> QED  BY <1>1, <2>1
  <1>3. \A b, c \in 1 .. MaxBlock : /\ b <= c => d[b] <= d[c]
                                    /\ c = b + 1 => d[c] <= d[b] + 1
                                    /\ d[b] + 2 <= d[c] => c - b > BlockStep
    BY ChainsAssumption, Zenon
  <1> QED  BY <1>1, <1>2, <1>3

(* Probing moves the end of the interval while it is not past the day.     *)
LEMMA ResolverProbes ==
    ASSUME ResolverInv, Resolver!Probe
    PROVE  ResolverInv'
  <1>1. /\ dayOf' = dayOf /\ tip' = tip /\ call' = call /\ current' = current /\ start' = start
        /\ LastResolved' = LastResolved /\ blockInfo' = blockInfo
        /\ call # "none" /\ phase = "probe" /\ end <= tip
        /\ \/ dayOf[end] <= current /\ end' = end + BlockStep /\ phase' = phase
           \/ dayOf[end] = current + 1 /\ phase' = "search" /\ end' = end
           \/ dayOf[end] > current + 1 /\ end' = end - BlockStep /\ phase' = phase
    BY DEF Resolver!Probe, Resolver!chainVars
  <1>2. /\ dayOf \in DaysOf /\ tip \in 1 .. MaxBlock /\ start \in 1 .. tip /\ end \in 1 .. MaxBlock
        /\ dayOf[start] <= current /\ current \in Nat /\ BlockStep \in Nat /\ start \in 1 .. MaxBlock
    <2>1. dayOf \in DaysOf /\ tip \in 1 .. MaxBlock /\ start \in 1 .. tip /\ end \in Nat \ {0}
          /\ dayOf[start] <= current /\ current \in Nat
      BY <1>1 DEF ResolverInv
    <2>2. MaxBlock \in Nat /\ BlockStep \in Nat
      BY <2>1, ChainsHaveDays
    <2> QED  BY <1>1, <2>1, <2>2
  <1>3. end' \in Nat \ {0}
    <2>1. ASSUME dayOf[end] > current + 1
          PROVE  end - BlockStep \in Nat \ {0}
      <3>1. PICK s \in Nat : s = dayOf[start] /\ s <= current
        BY <1>2, ChainsHaveDays
      <3>2. PICK e \in Nat : e = dayOf[end] /\ e > current + 1
        BY <1>2, <2>1, ChainsHaveDays
      <3>3. s + 2 <= e
        BY <1>2, <3>1, <3>2
      <3>4. end - start > BlockStep
        BY <1>2, <3>1, <3>2, <3>3, ChainsHaveDays
      <3> QED  BY <1>2, <3>4
    <2> QED  BY <1>1, <1>2, <2>1
  <1> QED  BY <1>1, <1>2, <1>3 DEF ResolverInv, OnlyLastBlocks, Resolver!OnlyLastBlocks

(* Halving keeps the start at or before the day and the end after it.      *)
LEMMA ResolverSearches ==
    ASSUME ResolverInv, Resolver!Search
    PROVE  ResolverInv'
  <1>1. PICK mid : mid = (start + end) \div 2
    OBVIOUS
  <1>2. /\ dayOf' = dayOf /\ tip' = tip /\ call' = call /\ current' = current /\ phase' = phase
        /\ LastResolved' = LastResolved /\ blockInfo' = blockInfo
        /\ call # "none" /\ phase = "search" /\ end - start > 1
        /\ IF dayOf[mid] = dayOf[end] THEN end' = mid /\ start' = start ELSE start' = mid /\ end' = end
    BY <1>1 DEF Resolver!Search, Resolver!chainVars
  <1>3. /\ dayOf \in DaysOf /\ tip \in 1 .. MaxBlock /\ start \in 1 .. tip /\ end \in 1 .. tip
        /\ dayOf[start] <= current /\ current \in Nat /\ dayOf[end] = current + 1
    BY <1>2 DEF ResolverInv
  <1>4. mid \in 1 .. tip /\ mid <= end /\ end \in 1 .. MaxBlock /\ mid \in 1 .. MaxBlock
    <2>1. MaxBlock \in Nat
      BY <1>3, ChainsHaveDays
    <2> QED  BY <1>1, <1>2, <1>3, <2>1
  <1>5. dayOf[mid] = dayOf[end] \/ dayOf[mid] <= current
    <2>1. dayOf[mid] \in Nat /\ dayOf[mid] <= dayOf[end]
      BY <1>3, <1>4, ChainsHaveDays
    <2> QED  BY <1>3, <2>1
  <1>6. /\ start' \in 1 .. tip' /\ end' \in Nat \ {0} /\ dayOf'[start'] <= current'
        /\ end' <= tip' /\ dayOf'[end'] = current' + 1
    <2>1. CASE dayOf[mid] = dayOf[end]
      BY <1>2, <1>3, <1>4, <2>1
    <2>2. CASE dayOf[mid] # dayOf[end]
      BY <1>2, <1>3, <1>4, <1>5, <2>2
    <2> QED  BY <2>1, <2>2
  <1> QED  BY <1>2, <1>3, <1>6 DEF ResolverInv, OnlyLastBlocks, Resolver!OnlyLastBlocks

(* What is stored is the last block of the day that was asked for.         *)
LEMMA ResolverStoresDay ==
    ASSUME ResolverInv, Resolver!Store
    PROVE  ResolverInv' /\ dayOf[LastResolved'] = current
  <1>1. /\ dayOf' = dayOf /\ tip' = tip /\ call' = "none" /\ current' = current /\ phase' = phase
        /\ start' = start /\ end' = end /\ LastResolved' = start /\ blockInfo' = blockInfo \cup {start}
        /\ call # "none" /\ phase = "search" /\ end - start <= 1
    BY DEF Resolver!Store, Resolver!chainVars
  <1>2. /\ dayOf \in DaysOf /\ tip \in 1 .. MaxBlock /\ start \in 1 .. tip /\ end \in 1 .. tip
        /\ dayOf[start] <= current /\ current \in Nat /\ dayOf[end] = current + 1
    BY <1>1 DEF ResolverInv
  <1>3. MaxBlock \in Nat /\ start \in 1 .. MaxBlock /\ end \in 1 .. MaxBlock
    <2>1. MaxBlock \in Nat
      BY <1>2, ChainsHaveDays
    <2> QED  BY <1>2, <2>1
  <1>4. PICK s \in Nat : s = dayOf[start] /\ s <= current
    BY <1>2, <1>3, ChainsHaveDays
  <1>5. end = start + 1
    <2>1. end <= start => current + 1 <= s
      BY <1>2, <1>3, <1>4, ChainsHaveDays
    <2> QED  BY <1>1, <1>2, <1>4, <2>1
  <1>6. s = current
    <2>1. current + 1 <= s + 1
      BY <1>2, <1>3, <1>4, <1>5, ChainsHaveDays
    <2> QED  BY <1>2, <1>4, <2>1
  <1>7. start < tip /\ dayOf[start + 1] = dayOf[start] + 1
    BY <1>2, <1>4, <1>5, <1>6
  <1>8. ResolverInv'
    BY <1>1, <1>2, <1>3, <1>7 DEF ResolverInv, OnlyLastBlocks, Resolver!OnlyLastBlocks
  <1> QED  BY <1>1, <1>4, <1>6, <1>8

(* A search begins between the known block and the estimate.               *)
LEMMA ResolverStarts ==
    ASSUME ResolverInv, call = "none", NEW name \in {"Next", "Resolve"}, NEW from \in 1 .. tip, NEW day \in Nat,
           dayOf[from] <= day, Resolver!StartProbing(name, from, day),
           name = "Next" => LastResolved # 0 /\ day = dayOf[LastResolved] + 1
    PROVE  ResolverInv'
  <1>1. /\ dayOf' = dayOf /\ tip' = tip /\ LastResolved' = LastResolved /\ blockInfo' = blockInfo
        /\ call' = name /\ current' = day /\ phase' = "probe" /\ start' = from
        /\ \E estimated \in 0 .. MaxEstimate : end' = from + estimated
    BY DEF Resolver!StartProbing, Resolver!chainVars
  <1>2. end' \in Nat \ {0}
    <2>1. MaxEstimate \in Nat /\ from \in Nat \ {0}
      BY ChainsAssumption DEF ResolverInv
    <2> QED  BY <1>1, <2>1
  <1> QED  BY <1>1, <1>2 DEF ResolverInv, OnlyLastBlocks, Resolver!OnlyLastBlocks

(* A day that is in the table already is returned as it is stored.         *)
LEMMA ResolverFinds ==
    ASSUME ResolverInv, call = "none", NEW b \in blockInfo, Resolver!Found(b)
    PROVE  ResolverInv'
  BY DEF Resolver!Found, Resolver!chainVars, ResolverInv, OnlyLastBlocks, Resolver!OnlyLastBlocks

(* Resolve begins its interval with the block it is given.                 *)
LEMMA ResolverResolves ==
    ASSUME ResolverInv, NEW b \in Resolver!Blocks, Resolver!Resolve(b)
    PROVE  ResolverInv'
  <1>1. call = "none" /\ b <= tip /\ b \in 1 .. MaxBlock /\ dayOf \in DaysOf /\ tip \in 1 .. MaxBlock
        /\ blockInfo \subseteq 1 .. MaxBlock /\ LastResolved \in blockInfo \cup {0} /\ MaxBlock \in Nat
    BY ChainsAssumption DEF Resolver!Resolve, Resolver!Blocks, ResolverInv
  <1>2. CASE \E stored2 \in Resolver!GetBlockInfo(dayOf[b]) : Resolver!Found(stored2)
    <2>1. PICK c \in blockInfo : Resolver!Found(c)
      BY <1>2 DEF Resolver!GetBlockInfo
    <2> QED  BY <1>1, <2>1, ResolverFinds
  <1>3. CASE Resolver!StartProbing("Resolve", IF LastResolved > 1 /\ LastResolved < b THEN LastResolved ELSE 1, dayOf[b])
    <2>1. PICK from \in 1 .. b : from = IF LastResolved > 1 /\ LastResolved < b THEN LastResolved ELSE 1
      BY <1>1
    <2>2. PICK day \in Nat : day = dayOf[b]
      BY <1>1, ChainsHaveDays
    <2>3. from \in 1 .. tip /\ from \in 1 .. MaxBlock /\ from <= b
      BY <1>1
    <2>4. dayOf[from] <= day
      BY <1>1, <2>2, <2>3, ChainsHaveDays
    <2>5. Resolver!StartProbing("Resolve", from, day)
      BY <1>3, <2>1, <2>2
    <2> QED  BY <1>1, <2>3, <2>4, <2>5, ResolverStarts
  <1> QED  BY <1>2, <1>3 DEF Resolver!Resolve

(* Next begins its interval with the last block of the last day.           *)
LEMMA ResolverMovesOn ==
    ASSUME ResolverInv, Resolver!Next_
    PROVE  ResolverInv'
  <1>1. call = "none" /\ LastResolved # 0 /\ dayOf \in DaysOf /\ tip \in 1 .. MaxBlock
        /\ blockInfo \subseteq 1 .. MaxBlock /\ LastResolved \in blockInfo /\ MaxBlock \in Nat
    BY ChainsAssumption DEF Resolver!Next_, ResolverInv
  <1>2. CASE \E stored2 \in Resolver!GetBlockInfo(dayOf[LastResolved] + 1) : Resolver!Found(stored2)
    <2>1. PICK c \in blockInfo : Resolver!Found(c)
      BY <1>2 DEF Resolver!GetBlockInfo
    <2> QED  BY <1>1, <2>1, ResolverFinds
  <1>3. CASE LastResolved + 1 <= tip /\ Resolver!StartProbing("Next", LastResolved + 1, dayOf[LastResolved + 1])
    <2>1. PICK from \in 1 .. tip : from = LastResolved + 1
      BY <1>1, <1>3
    <2>2. from \in 1 .. MaxBlock
      BY <1>1
    <2>3. PICK day \in Nat : day = dayOf[from]
      BY <1>1, <2>2, ChainsHaveDays
    <2>4. day = dayOf[LastResolved] + 1
      BY <1>1, <2>1, <2>3 DEF ResolverInv, OnlyLastBlocks, Resolver!OnlyLastBlocks
    <2>5. Resolver!StartProbing("Next", from, day)
      BY <1>3, <2>1, <2>3
    <2>6. dayOf[from] <= day /\ "Next" \in {"Next", "Resolve"}
      BY <2>3
    <2> QED  BY <1>1, <2>4, <2>5, <2>6, ResolverStarts
  <1> QED  BY <1>2, <1>3 DEF Resolver!Next_

(* Every step of the resolver keeps the bracket around the block searched. *)
LEMMA ResolverKeeps == ResolverInv /\ [Resolver!Next]_resolverVars => ResolverInv'
  <1> SUFFICES ASSUME ResolverInv, [Resolver!Next]_resolverVars
               PROVE  ResolverInv'
    OBVIOUS
  <1>1. CASE UNCHANGED resolverVars
    BY <1>1 DEF resolverVars, ResolverInv, OnlyLastBlocks, Resolver!OnlyLastBlocks
  <1>2. CASE Resolver!Mine
    <2>1. /\ tip < MaxBlock /\ tip' = tip + 1 /\ tip \in 1 .. MaxBlock /\ MaxBlock \in Nat
          /\ dayOf' = dayOf /\ call' = call /\ current' = current /\ phase' = phase
          /\ start' = start /\ end' = end /\ LastResolved' = LastResolved /\ blockInfo' = blockInfo
      BY <1>2, ChainsAssumption DEF Resolver!Mine, ResolverInv
    <2>2. tip' \in 1 .. MaxBlock
      BY <2>1
    <2>3. call # "none" => start \in 1 .. tip'
      BY <2>1 DEF ResolverInv
    <2>4. call # "none" /\ phase = "search" => end <= tip'
      <3>1. call # "none" => end \in Nat
        BY DEF ResolverInv
      <3> QED  BY <2>1, <3>1 DEF ResolverInv
    <2>5. \A b \in blockInfo : b < tip' /\ dayOf[b + 1] = dayOf[b] + 1
      <3>1. \A b \in blockInfo : b \in Nat /\ b < tip /\ dayOf[b + 1] = dayOf[b] + 1
        BY <2>1 DEF ResolverInv, OnlyLastBlocks, Resolver!OnlyLastBlocks
      <3> QED  BY <2>1, <3>1
    <2> QED  BY <2>1, <2>2, <2>3, <2>4, <2>5 DEF ResolverInv, OnlyLastBlocks, Resolver!OnlyLastBlocks
  <1>3. CASE \E b \in Resolver!Blocks : Resolver!Resolve(b)
    BY <1>3, ResolverResolves
  <1>4. CASE Resolver!Next_
    BY <1>4, ResolverMovesOn
  <1>5. CASE Resolver!Probe
    BY <1>5, ResolverProbes
  <1>6. CASE Resolver!Search
    BY <1>6, ResolverSearches
  <1>7. CASE Resolver!Store
    BY <1>7, ResolverStoresDay
  <1>8. CASE Resolver!Fails
    BY <1>8 DEF Resolver!Fails, Resolver!chainVars, ResolverInv, OnlyLastBlocks, Resolver!OnlyLastBlocks
  <1> QED
    BY <1>1, <1>2, <1>3, <1>4, <1>5, <1>6, <1>7, <1>8 DEF Resolver!Next, Resolver!Step, Resolver!NotMined

(* Nothing is searched at first.                                           *)
LEMMA ResolverBegins == Resolver!Init => ResolverInv
  <1> SUFFICES ASSUME Resolver!Init
               PROVE  ResolverInv
    OBVIOUS
  <1>1. 1 \in 1 .. MaxBlock
    BY ChainsAssumption
  <1> QED  BY <1>1 DEF Resolver!Init, ResolverInv, OnlyLastBlocks, Resolver!OnlyLastBlocks

(* The other programs leave this one alone.                                *)
LEMMA ResolverStep == [Next]_vars => [Resolver!Next]_resolverVars
  <1>1. CASE Next
    <2>1. CASE Alone("resolver", Resolver!Next)
      BY <2>1 DEF Alone
    <2>2. ASSUME NEW p \in {"huobi withdrawals", "fetcher", "binance withdrawals"}, program = p,
                 Idle("resolver", resolverVars)
          PROVE  UNCHANGED resolverVars
      BY <2>2 DEF Idle
    <2>3. CASE Alone("huobi withdrawals", HuobiNext)
      BY <2>2, <2>3 DEF Alone
    <2>4. CASE Alone("fetcher", RatesNext)
      BY <2>2, <2>4 DEF Alone
    <2>5. CASE Alone("binance withdrawals", BinanceNext)
      BY <2>2, <2>5 DEF Alone
    <2> QED  BY <1>1, <2>1, <2>3, <2>4, <2>5 DEF Next
  <1>2. CASE UNCHANGED vars
    BY <1>2 DEF vars
  <1> QED  BY <1>1, <1>2

(* The bracket holds throughout, whichever program runs.                   *)
LEMMA ResolverInvariant == Spec => []ResolverInv
  <1>1. Init => ResolverInv
    BY ResolverBegins DEF Init
  <1>2. ResolverInv /\ [Next]_vars => ResolverInv'
    BY ResolverStep, ResolverKeeps
  <1> QED  BY <1>1, <1>2, PTL DEF Spec

(* However the gap to the next day is estimated and however the chain      *)
(* grows, LastBlockResolver stores last blocks of days that are over.      *)
THEOREM LastBlocksAreStored == Spec => []OnlyLastBlocks
  <1>1. ResolverInv => OnlyLastBlocks
    BY DEF ResolverInv
  <1> QED  BY <1>1, ResolverInvariant, PTL

(* LastBlockResolver.Next resolves the day after the one resolved before.  *)
THEOREM NextMovesByOneDay == Spec => NextIsNextDay
  <1>1. ResolverInv /\ [Next]_vars =>
            [call = "Next" /\ Resolver!Store => dayOf[LastResolved'] = dayOf[LastResolved] + 1]_(Resolver!lbdVars)
    <2> SUFFICES ASSUME ResolverInv, call = "Next", Resolver!Store
                 PROVE  dayOf[LastResolved'] = dayOf[LastResolved] + 1
      OBVIOUS
    <2>1. current = dayOf[LastResolved] + 1
      BY DEF ResolverInv
    <2> QED  BY <2>1, ResolverStoresDay
  <1> QED  BY <1>1, ResolverInvariant, PTL DEF Spec, NextIsNextDay, Resolver!NextIsNextDay

-----------------------------------------------------------------------------
(* The fetcher of daily rates.                                             *)

Phase == [addrs : SUBSET Reserves, from : Nat, to : Nat]
RunPlaces == {"next", "resolving", "result", "notFound", "end", "gone"}
JobPlaces == {"fetching", "fetched", "reporting", "storing", "done"}
ResolverRun == [pc : RunPlaces, day : Nat, from : Nat, to : Nat]
DailyJob == [day : Nat, pc : JobPlaces, rates : SUBSET Reserves]

(* What is stored is of days that are over and of reserves that are known. *)
RoundTypes ==
    /\ today \in 1 .. MaxDay /\ known \subseteq Reserves
    /\ stored \subseteq known \X (1 .. today - 1) /\ leftOut \subseteq known \X (1 .. today - 1)
    /\ daily \in {"down", "planning", "fetching", "waiting"}
    /\ phases \subseteq Phase /\ \A p \in phases : p.addrs \subseteq known /\ p.from >= 2
    /\ daily \in {"fetching", "waiting"} => phases # {} /\ Len(resolvers) # 0
    /\ resolved \in 0 .. today - 1
    /\ once \in BOOLEAN /\ excused \in BOOLEAN

ResolverTypes ==
    /\ resolvers \in Seq(ResolverRun)
    /\ \A k \in 1 .. Len(resolvers) :
          /\ resolvers[k].from >= 2
          /\ resolvers[k].pc \in {"resolving", "result"} => resolvers[k].day >= 1
          /\ resolvers[k].pc = "result" => resolvers[k].day < today

(* The jobs that are done are the first ones.                              *)
JobTypes ==
    /\ jobs \in Seq(DailyJob)
    /\ \A k \in 1 .. Len(jobs) :
          /\ jobs[k].day \in 1 .. today - 1 /\ jobs[k].rates \subseteq known
          /\ jobs[k].pc = "done" <=> k <= completed
          /\ jobs[k].pc = "storing" => k = completed + 1
    /\ completed \in 0 .. Len(jobs)

RatesTypes == RoundTypes /\ ResolverTypes /\ JobTypes

(* The last day of the table, 0 if it is empty.                            *)
LastDay(rows) == Max({0} \cup {s[2] : s \in rows})

(* Each reserve has the rates of every day from its first one to a day, or *)
(* was left out of the job of that day.                                    *)
Complete(rows, without, n) == \A s \in rows : \A d \in s[2] .. n : <<s[1], d>> \in rows \cup without

UpTo(n) == Complete(stored, leftOut, n)

UpToLastDay == UpTo(LastDay(stored))

(* The goroutine of the Fetch.                                             *)
Current == resolvers[Len(resolvers)]

(* The day for which the next job will be started.                         *)
Awaited ==
    IF resolved = 0 THEN DayOf(First(phases).from)
    ELSE IF Current.pc = "result" THEN resolved ELSE resolved + 1

(* The day of the job whose turn it is to store.                           *)
NextToStore == Awaited - Len(jobs) + completed

(* A Fetch of all reserves: its jobs have days that follow one another,    *)
(* and the next one that is stored is no earlier than the last day of the  *)
(* table, which a restarted process fetches again, and leaves no gap.      *)
WholePhase ==
    /\ \E p \in phases : phases = {p}
    /\ \A s \in stored : s[1] \in First(phases).addrs

RightDay ==
    /\ Current.from = First(phases).from
    /\ daily = "fetching" /\ Current.pc = "resolving" => Current.day = Awaited
    /\ Current.pc = "result" => daily = "fetching" /\ Current.day = resolved

JobDays ==
    /\ Len(jobs) # 0 => resolved # 0
    /\ \A k \in 1 .. Len(jobs) :
          /\ jobs[k].day = Awaited - Len(jobs) + k - 1
          /\ jobs[k].rates \subseteq First(phases).addrs

StoreOrder == NextToStore >= LastDay(stored) /\ UpTo(NextToStore - 1)

SinglePhase == WholePhase /\ RightDay /\ JobDays /\ StoreOrder

(* Between two rounds the resolver may be ahead of the table, if all were  *)
(* left out of the last days.                                              *)
Resumes == resolved # 0 => resolved + 1 >= LastDay(stored) /\ UpTo(resolved)

RoundInv ==
    ~excused =>
        /\ UpToLastDay
        /\ daily \in {"down", "planning"} => Resumes
        /\ daily \in {"fetching", "waiting"} => SinglePhase

DailyInv == RatesTypes /\ RoundInv

(* The phase with which a round goes on.                                    *)
LEMMA FirstIs ==
    ASSUME NEW round, round # {}, \A p \in round : p.from \in Nat
    PROVE  First(round) \in round /\ \A q \in round : First(round).from <= q.from
  <1>1. PICK T : T = {p.from : p \in round}
    OBVIOUS
  <1>2. T \in SUBSET Nat /\ T # {}
    BY <1>1
  <1>3. PICK m \in T : \A n \in T : m <= n
    BY <1>2, LeastNatural
  <1>4. \E p \in round : \A q \in round : p.from <= q.from
    BY <1>1, <1>3
  <1> QED  BY <1>4 DEF First

(* The resolvers that go on are among the resolvers.                       *)
LEMMA RunningIs ==
    ASSUME NEW rs \in Seq(ResolverRun)
    PROVE  /\ Running(rs) \in Seq(ResolverRun)
           /\ \A n \in 1 .. Len(Running(rs)) :
                 \E k \in 1 .. Len(rs) : Running(rs)[n] = rs[k] /\ rs[k].pc \in {"next", "resolving"}
           /\ (\A k \in 1 .. Len(rs) : rs[k].pc = "gone") => Running(rs) = <<>>
  <1>1. Len(rs) \in Nat /\ DOMAIN rs = 1 .. Len(rs) /\ \A k \in 1 .. Len(rs) : rs[k] \in ResolverRun
    BY LenProperties, ElementOfSeq
  <1>2. PICK left : left = {k \in DOMAIN rs : rs[k].pc \in {"next", "resolving"}}
    OBVIOUS
  <1>3. left \in SUBSET Nat /\ (\A k \in left : k <= Len(rs)) /\ left \subseteq 1 .. Len(rs)
    BY <1>1, <1>2
  <1>4. IsFiniteSet(left) /\ Cardinality(left) \in Nat
    BY <1>1, <1>3, FS_BoundedSetOfNaturals, FS_CardinalityType
  <1> DEFINE Nth(n) == CHOOSE k \in left : Cardinality(NoMore(left, k)) = n
  <1>5. ASSUME NEW n \in 1 .. Cardinality(left)
        PROVE  Nth(n) \in left
    <2>1. \E k \in left : Cardinality(NoMore(left, k)) = n
      BY <1>1, <1>3, <1>4, <1>5, RankExists
    <2> QED  BY <2>1
  <1>6. Running(rs) = [n \in 1 .. Cardinality(left) |-> rs[Nth(n)]]
    BY <1>2 DEF Running, NoMore
  <1> HIDE DEF Nth
  <1>7. \A n \in 1 .. Cardinality(left) : Nth(n) \in 1 .. Len(rs) /\ rs[Nth(n)] \in ResolverRun
                                          /\ rs[Nth(n)].pc \in {"next", "resolving"}
    BY <1>1, <1>2, <1>3, <1>5
  <1>8. Running(rs) \in Seq(ResolverRun) /\ Len(Running(rs)) = Cardinality(left)
    <2>1. PICK run : run = Running(rs)
      OBVIOUS
    <2>2. run \in [1 .. Cardinality(left) -> ResolverRun]
      BY <1>6, <1>7, <2>1
    <2>3. run \in Seq(ResolverRun)
      BY <1>4, <2>2
    <2>4. Len(run) \in Nat /\ DOMAIN run = 1 .. Len(run) /\ DOMAIN run = 1 .. Cardinality(left)
      BY <2>2, <2>3, LenProperties
    <2>5. Len(run) = Cardinality(left)
      BY <1>4, <2>4
    <2> QED  BY <2>1, <2>3, <2>5
  <1>9. ASSUME \A k \in 1 .. Len(rs) : rs[k].pc = "gone"
        PROVE  Running(rs) = <<>>
    <2>1. left = {}
      BY <1>1, <1>2, <1>9
    <2>2. Cardinality(left) = 0
      BY <2>1, FS_EmptySet
    <2> QED  BY <1>8, <2>2, EmptySeq
  <1> QED  BY <1>6, <1>7, <1>8, <1>9

(* The last day in the table is the day of one of its rows.                *)
LEMMA LastDayIs ==
    ASSUME NEW rows, NEW rs, NEW n \in Nat, rows \subseteq rs \X (1 .. n)
    PROVE  /\ LastDay(rows) \in 0 .. n
           /\ rows # {} => \E s \in rows : s[2] = LastDay(rows)
           /\ \A s \in rows : s[2] \in 1 .. LastDay(rows)
  <1>1. PICK T : T = {0} \cup {s[2] : s \in rows}
    OBVIOUS
  <1>2. \A s \in rows : s[2] \in 1 .. n
    OBVIOUS
  <1>3. T \in SUBSET Nat /\ T # {} /\ \A d \in T : d <= n
    BY <1>1, <1>2
  <1>4. Max(T) \in T /\ \A d \in T : Max(T) >= d
    BY <1>3, MaxOfNaturals
  <1>5. LastDay(rows) = Max(T)
    BY <1>1 DEF LastDay
  <1>6. Max(T) \in Nat /\ Max(T) <= n
    BY <1>3, <1>4
  <1>7. ASSUME NEW s \in rows
        PROVE  s[2] \in 1 .. Max(T)
    <2>1. s[2] \in T
      BY <1>1
    <2> QED  BY <1>2, <1>4, <1>6, <2>1
  <1>8. rows # {} => \E s \in rows : s[2] = Max(T)
    <2> SUFFICES ASSUME rows # {}
                 PROVE  \E s \in rows : s[2] = Max(T)
      OBVIOUS
    <2>1. Max(T) # 0
      BY <1>6, <1>7
    <2> QED  BY <1>1, <1>4, <2>1
  <1> QED  BY <1>5, <1>6, <1>7, <1>8

(* The assumptions in the form the proofs use.                              *)
LEMMA RatesConstants ==
    /\ IsFiniteSet(Reserves) /\ MaxDay \in Nat \ {0}
    /\ \A r \in Reserves : Created[r] \in 2 .. 2 * MaxDay
  BY DailyAssumption

(* The days of the table are over.                                          *)
LEMMA StoredDays ==
    ASSUME RatesTypes
    PROVE  /\ LastDay(stored) \in 0 .. today - 1 /\ LastDay(stored) \in Nat
           /\ today \in Nat /\ today >= 1 /\ today <= MaxDay
           /\ stored # {} => \E s \in stored : s[2] = LastDay(stored)
           /\ \A s \in stored : s[2] \in 1 .. LastDay(stored) /\ s[1] \in known /\ s = <<s[1], s[2]>>
  <1>1. PICK n \in Nat : n = today - 1
    BY RatesConstants DEF RatesTypes, RoundTypes
  <1>2. stored \subseteq known \X (1 .. n) /\ today \in 1 .. MaxDay
    BY <1>1 DEF RatesTypes, RoundTypes
  <1>3. \A s \in stored : s[1] \in known /\ s = <<s[1], s[2]>>
    BY <1>2
  <1>4. /\ LastDay(stored) \in 0 .. n
        /\ stored # {} => \E s \in stored : s[2] = LastDay(stored)
        /\ \A s \in stored : s[2] \in 1 .. LastDay(stored)
    BY <1>2, LastDayIs
  <1> QED  BY <1>1, <1>2, <1>3, <1>4, RatesConstants

(* A reserve was fetched last at the last day of the table, or never.       *)
LEMMA LastFetchedIs ==
    ASSUME RatesTypes, NEW r \in Reserves
    PROVE  /\ LastFetched(r) = IF <<r, LastDay(stored)>> \in stored THEN LastBlockOf(LastDay(stored)) ELSE Created[r]
           /\ LastFetched(r) \in 2 .. 2 * MaxDay
  <1>1. PICK days : days = {s[2] : s \in stored}
    OBVIOUS
  <1>2. PICK last \in Nat : last = LastDay(stored) /\ last <= today - 1
    BY StoredDays
  <1>3. days # {} => Max(days) = last
    <2> SUFFICES ASSUME days # {}
                 PROVE  Max(days) = last
      OBVIOUS
    <2>1. \A s \in stored : s[2] \in 1 .. last
      BY <1>2, StoredDays
    <2>2. days \in SUBSET Nat /\ \A d \in days : d <= last
      BY <1>1, <2>1
    <2>3. last \in days
      <3>1. stored # {}
        BY <1>1
      <3> QED  BY <1>1, <1>2, <3>1, StoredDays
    <2>4. Max(days) \in days /\ \A d \in days : Max(days) >= d
      BY <2>2, <2>3, MaxOfNaturals
    <2>5. Max(days) \in Nat /\ Max(days) <= last /\ Max(days) >= last
      BY <2>2, <2>3, <2>4
    <2> QED  BY <2>5
  <1>4. days = {} => <<r, last>> \notin stored
    BY <1>1
  <1>5. LastFetched(r) = IF days # {} /\ <<r, Max(days)>> \in stored THEN LastBlockOf(Max(days)) ELSE Created[r]
    BY <1>1 DEF LastFetched
  <1>6. LastFetched(r) = IF <<r, last>> \in stored THEN LastBlockOf(last) ELSE Created[r]
    BY <1>3, <1>4, <1>5
  <1>7. LastFetched(r) \in 2 .. 2 * MaxDay
    <2>1. <<r, last>> \in stored => last \in 1 .. today - 1
      BY <1>2 DEF RatesTypes, RoundTypes
    <2>2. today \in 1 .. MaxDay /\ MaxDay \in Nat
      BY RatesConstants DEF RatesTypes, RoundTypes
    <2>3. <<r, last>> \in stored => 2 * last + 1 \in 2 .. 2 * MaxDay
      BY <2>1, <2>2
    <2> QED  BY <1>6, <2>3, RatesConstants DEF LastBlockOf
  <1> QED  BY <1>2, <1>6, <1>7

(* The phases of a round.                                                  *)
LEMMA PhasesAre ==
    ASSUME RatesTypes, known # {}
    PROVE  /\ Phases \subseteq Phase /\ Phases # {}
           /\ \A p \in Phases : p.addrs \subseteq known /\ p.from >= 2
           /\ IsFiniteSet(Phases)
           /\ \A m \in {LastFetched(r) : r \in known} :
                 \E p \in Phases : p.from = m /\ p.addrs = {r \in known : LastFetched(r) <= m}
  <1>1. PICK moments : moments = {LastFetched(r) : r \in known}
    OBVIOUS
  <1> DEFINE After(m) == {n \in moments : n > m}
             PhaseOf(m) == [addrs |-> {r \in known : LastFetched(r) <= m}, from |-> m,
                            to |-> IF After(m) = {} THEN 0 ELSE Min(After(m))]
  <1>2. known \subseteq Reserves /\ \A r \in known : LastFetched(r) \in 2 .. 2 * MaxDay
    BY LastFetchedIs DEF RatesTypes, RoundTypes
  <1>3. /\ 2 * MaxDay \in Nat /\ moments \in SUBSET Nat /\ moments # {}
        /\ \A m \in moments : m <= 2 * MaxDay /\ m >= 2
    BY <1>1, <1>2, RatesConstants
  <1>4. Phases = {PhaseOf(m) : m \in moments}
    BY <1>1, Zenon DEF Phases
  <1>5. \A m \in moments : (IF After(m) = {} THEN 0 ELSE Min(After(m))) \in Nat
    <2> SUFFICES ASSUME NEW m \in moments, After(m) # {}
                 PROVE  Min(After(m)) \in Nat
      BY <1>3
    <2>1. After(m) \in SUBSET Nat
      BY <1>3
    <2> QED  BY <2>1, MinOfNaturals
  <1>6. \A m \in moments : /\ PhaseOf(m) \in Phase /\ PhaseOf(m).from = m
                           /\ PhaseOf(m).addrs = {r \in known : LastFetched(r) <= m} /\ PhaseOf(m).addrs \subseteq known
    <2> SUFFICES ASSUME NEW m \in moments
                 PROVE  /\ PhaseOf(m) \in Phase /\ PhaseOf(m).from = m
                        /\ PhaseOf(m).addrs = {r \in known : LastFetched(r) <= m} /\ PhaseOf(m).addrs \subseteq known
      OBVIOUS
    <2>1. PICK to \in Nat : to = IF After(m) = {} THEN 0 ELSE Min(After(m))
      BY <1>5
    <2>2. PICK addrs \in SUBSET Reserves : addrs = {r \in known : LastFetched(r) <= m}
      BY <1>2
    <2>3. PhaseOf(m) = [addrs |-> addrs, from |-> m, to |-> to]
      BY <2>1, <2>2
    <2>4. m \in Nat
      BY <1>3
    <2> HIDE DEF PhaseOf
    <2>5. PhaseOf(m) \in Phase
      BY <2>3, <2>4 DEF Phase
    <2> QED  BY <2>1, <2>2, <2>3, <2>5
  <1>7. IsFiniteSet(moments)
    BY <1>3, FS_BoundedSetOfNaturals
  <1> HIDE DEF PhaseOf
  <1>8. IsFiniteSet(Phases)
    <2> DEFINE f == [m \in moments |-> PhaseOf(m)]
    <2>1. f \in Surjection(moments, Phases)
      <3>1. f \in [moments -> Phases]
        BY <1>4
      <3>2. \A p \in Phases : \E m \in moments : f[m] = p
        BY <1>4
      <3> QED  BY <3>1, <3>2 DEF Surjection
    <2> QED  BY <1>7, <2>1, FS_Surjection
  <1>9. Phases \subseteq Phase /\ Phases # {} /\ \A p \in Phases : p.addrs \subseteq known /\ p.from >= 2
    <2>1. Phases # {}
      BY <1>3, <1>4
    <2>2. ASSUME NEW p \in Phases
          PROVE  p \in Phase /\ p.addrs \subseteq known /\ p.from >= 2
      <3>1. PICK m \in moments : p = PhaseOf(m)
        BY <1>4
      <3> HIDE DEF After
      <3>2. m >= 2 /\ p.from = m
        BY <1>3, <1>6, <3>1
      <3> QED  BY <1>6, <3>1, <3>2
    <2> QED  BY <2>1, <2>2
  <1>10. \A m \in moments : /\ PhaseOf(m) \in Phases /\ PhaseOf(m).from = m
                            /\ PhaseOf(m).addrs = {r \in known : LastFetched(r) <= m}
    BY <1>4, <1>6
  <1> HIDE DEF After
  <1> QED  BY <1>1, <1>8, <1>9, <1>10

(* A round of one phase: all reserves are at one moment, the last block of *)
(* the last day if there are rates.                                        *)
LEMMA OnePhase ==
    ASSUME RatesTypes, known # {}, ~(Cardinality(Phases) > 1)
    PROVE  \E p \in Phase : /\ Phases = {p} /\ p.addrs = known /\ p.from >= 2
                            /\ LastDay(stored) # 0 => p.from = LastBlockOf(LastDay(stored))
  <1>1. \A p, q \in Phases : p = q
    <2> SUFFICES ASSUME NEW p \in Phases, NEW q \in Phases, p # q
                 PROVE  FALSE
      OBVIOUS
    <2>1. IsFiniteSet(Phases) /\ Cardinality(Phases) \in Nat
      BY PhasesAre, FS_CardinalityType
    <2>2. Cardinality({p}) = 1 /\ IsFiniteSet({p})
      BY FS_Singleton
    <2>3. Cardinality({p} \cup {q}) = 2
      BY <2>2, FS_AddElement
    <2>4. {p} \cup {q} \subseteq Phases
      OBVIOUS
    <2>5. Cardinality({p} \cup {q}) <= Cardinality(Phases)
      BY <2>1, <2>4, FS_Subset
    <2> QED  BY <2>1, <2>3, <2>5
  <1>2. PICK moments : moments = {LastFetched(r) : r \in known}
    OBVIOUS
  <1>3. ASSUME NEW r \in known
        PROVE  LastFetched(r) \in Nat /\ LastFetched(r) \in moments
    <2>1. r \in Reserves
      BY DEF RatesTypes, RoundTypes
    <2>2. LastFetched(r) \in 2 .. 2 * MaxDay
      BY <2>1, LastFetchedIs
    <2> QED  BY <1>2, <2>2
  <1>4. \A m \in moments :
           \E p \in Phases : p.from = m /\ p.addrs = {r \in known : LastFetched(r) <= m}
    BY <1>2, PhasesAre
  <1>5. \A m, n \in moments : m = n
    BY <1>1, <1>4
  <1>6. PICK r0 \in known : TRUE
    OBVIOUS
  <1>7. PICK m \in Nat : m = LastFetched(r0) /\ m \in moments /\ \A r \in known : LastFetched(r) = m
    BY <1>3, <1>5, <1>6
  <1>8. PICK p \in Phases : p.from = m /\ p.addrs = {r \in known : LastFetched(r) <= m}
    BY <1>4, <1>7
  <1>9. p.addrs = known
    <2>1. \A r \in known : LastFetched(r) <= m
      BY <1>7
    <2> QED  BY <1>8, <2>1
  <1>10. LastDay(stored) # 0 => m = LastBlockOf(LastDay(stored))
    <2> SUFFICES ASSUME LastDay(stored) # 0
                 PROVE  m = LastBlockOf(LastDay(stored))
      OBVIOUS
    <2>1. stored # {}
      <3>1. stored = {} => {0} \cup {s[2] : s \in stored} = {0}
        OBVIOUS
      <3>2. Max({0}) = 0
        <4>1. {0} \in SUBSET Nat /\ {0} # {} /\ (\A n \in {0} : n <= 0) /\ 0 \in Nat
          OBVIOUS
        <4> QED  BY <4>1, MaxOfNaturals
      <3> QED  BY <3>1, <3>2 DEF LastDay
    <2>2. PICK s \in stored : s[2] = LastDay(stored)
      BY <2>1, StoredDays
    <2>3. s[1] \in known /\ s = <<s[1], LastDay(stored)>>
      BY <2>2, StoredDays
    <2>4. s[1] \in Reserves
      BY <2>3 DEF RatesTypes, RoundTypes
    <2>5. LastFetched(s[1]) = LastBlockOf(LastDay(stored))
      BY <2>3, <2>4, LastFetchedIs
    <2> QED  BY <1>7, <2>3, <2>5
  <1>11. Phases = {p} /\ p \in Phase /\ p.from >= 2
    BY <1>1, <1>8, PhasesAre
  <1> QED  BY <1>8, <1>9, <1>10, <1>11

(* The resolvers and jobs are sequences of their records.                   *)
LEMMA DailySequences ==
    ASSUME RatesTypes
    PROVE  /\ Len(resolvers) \in Nat /\ DOMAIN resolvers = 1 .. Len(resolvers)
           /\ \A k \in 1 .. Len(resolvers) : resolvers[k] \in ResolverRun
           /\ Len(jobs) \in Nat /\ DOMAIN jobs = 1 .. Len(jobs)
           /\ \A k \in 1 .. Len(jobs) : jobs[k] \in DailyJob
  BY LenProperties, ElementOfSeq DEF RatesTypes, ResolverTypes, JobTypes

(* The fields of a resolver.                                                *)
LEMMA ResolverRunIs ==
    ASSUME NEW run \in ResolverRun
    PROVE  /\ run.day \in Nat /\ run.from \in Nat /\ run.to \in Nat
           /\ \A place : [run EXCEPT !.pc = place] = [pc |-> place, day |-> run.day, from |-> run.from, to |-> run.to]
           /\ \A day : [run EXCEPT !.day = day] = [pc |-> run.pc, day |-> day, from |-> run.from, to |-> run.to]
  <1>1. run.day \in Nat
    BY DEF ResolverRun
  <1>2. run.from \in Nat
    BY DEF ResolverRun
  <1>3. run.to \in Nat
    BY DEF ResolverRun
  <1>4. \A place : [run EXCEPT !.pc = place] = [pc |-> place, day |-> run.day, from |-> run.from, to |-> run.to]
    BY DEF ResolverRun
  <1>5. \A day : [run EXCEPT !.day = day] = [pc |-> run.pc, day |-> day, from |-> run.from, to |-> run.to]
    BY DEF ResolverRun
  <1> QED  BY <1>1, <1>2, <1>3, <1>4, <1>5

(* A goroutine of Run, or a job, gets to a place.                          *)
RunMoved(new, rs, k, place, day) ==
    /\ new \in Seq(ResolverRun) /\ Len(new) = Len(rs)
    /\ \A j \in 1 .. Len(rs) : j # k => new[j] = rs[j]
    /\ new[k].pc = place /\ new[k].day = day /\ new[k].from = rs[k].from

JobMoved(new, js, k, place, rates) ==
    /\ new \in Seq(DailyJob) /\ Len(new) = Len(js)
    /\ \A j \in 1 .. Len(js) : j # k => new[j] = js[j]
    /\ new[k].pc = place /\ new[k].rates = rates /\ new[k].day = js[k].day

RunAt(rs, k, place, day) == [rs EXCEPT ![k].pc = place, ![k].day = day]

(* A resolver with a new place and day.                                     *)
LEMMA GoroutineIs ==
    ASSUME NEW rs \in Seq(ResolverRun), NEW k \in 1 .. Len(rs), NEW day \in Nat,
           NEW place \in RunPlaces
    PROVE  RunMoved(RunAt(rs, k, place, day), rs, k, place, day)
  <1> DEFINE one == [rs EXCEPT ![k].pc = place]
             two == [rs EXCEPT ![k].pc = place, ![k].day = day]
  <1>1. rs[k] \in ResolverRun
    BY ElementOfSeq
  <1>2. PICK e \in ResolverRun : e = [rs[k] EXCEPT !.pc = place] /\ e.pc = place /\ e.from = rs[k].from
    <2>1. [rs[k] EXCEPT !.pc = place] = [pc |-> place, day |-> rs[k].day, from |-> rs[k].from, to |-> rs[k].to]
      BY <1>1, ResolverRunIs
    <2>2. rs[k].day \in Nat /\ rs[k].from \in Nat /\ rs[k].to \in Nat
      BY <1>1, ResolverRunIs
    <2>3. [pc |-> place, day |-> rs[k].day, from |-> rs[k].from, to |-> rs[k].to] \in ResolverRun
      BY <2>2 DEF ResolverRun
    <2> QED  BY <2>1, <2>3
  <1>3. PICK f \in ResolverRun : f = [e EXCEPT !.day = day] /\ f.pc = place /\ f.day = day /\ f.from = rs[k].from
    <2>1. [e EXCEPT !.day = day] = [pc |-> e.pc, day |-> day, from |-> e.from, to |-> e.to]
      BY ResolverRunIs
    <2>2. e.from \in Nat /\ e.to \in Nat
      BY ResolverRunIs
    <2>3. [pc |-> e.pc, day |-> day, from |-> e.from, to |-> e.to] \in ResolverRun
      BY <1>2, <2>2 DEF ResolverRun
    <2> QED  BY <1>2, <2>1, <2>3
  <1>4. one = [rs EXCEPT ![k] = e]
    BY <1>2
  <1>5. one \in Seq(ResolverRun) /\ Len(one) = Len(rs) /\ \A j \in 1 .. Len(rs) : one[j] = IF j = k THEN e ELSE rs[j]
    BY <1>4, ExceptSeq
  <1>6. two = [one EXCEPT ![k].day = day]
    OBVIOUS
  <1> HIDE DEF one
  <1>7. one[k] = e
    BY <1>5
  <1>8. two = [one EXCEPT ![k] = f]
    BY <1>3, <1>6, <1>7
  <1> HIDE DEF two
  <1>9. two \in Seq(ResolverRun) /\ Len(two) = Len(rs) /\ \A j \in 1 .. Len(rs) : two[j] = IF j = k THEN f ELSE one[j]
    BY <1>5, <1>8, ExceptSeq
  <1>10. two[k] = f /\ \A j \in 1 .. Len(rs) : j # k => two[j] = rs[j]
    BY <1>5, <1>9
  <1>11. RunAt(rs, k, place, day) = two
    BY DEF two, RunAt
  <1> QED  BY <1>3, <1>9, <1>10, <1>11 DEF RunMoved

RunIn(rs, k, place) == [rs EXCEPT ![k].pc = place]

(* A resolver with a new place.                                             *)
LEMMA PlaceIs ==
    ASSUME NEW rs \in Seq(ResolverRun), NEW k \in 1 .. Len(rs),
           NEW place \in RunPlaces
    PROVE  RunMoved(RunIn(rs, k, place), rs, k, place, rs[k].day)
  <1> DEFINE two == [rs EXCEPT ![k].pc = place]
  <1>1. rs[k] \in ResolverRun
    BY ElementOfSeq
  <1>2. PICK e \in ResolverRun : e = [rs[k] EXCEPT !.pc = place] /\ e.pc = place /\ e.day = rs[k].day /\ e.from = rs[k].from
    <2>1. [rs[k] EXCEPT !.pc = place] = [pc |-> place, day |-> rs[k].day, from |-> rs[k].from, to |-> rs[k].to]
      BY <1>1, ResolverRunIs
    <2>2. rs[k].day \in Nat /\ rs[k].from \in Nat /\ rs[k].to \in Nat
      BY <1>1, ResolverRunIs
    <2>3. [pc |-> place, day |-> rs[k].day, from |-> rs[k].from, to |-> rs[k].to] \in ResolverRun
      BY <2>2 DEF ResolverRun
    <2> QED  BY <2>1, <2>3
  <1>3. two = [rs EXCEPT ![k] = e]
    BY <1>2
  <1> HIDE DEF two
  <1>4. two \in Seq(ResolverRun) /\ Len(two) = Len(rs) /\ \A j \in 1 .. Len(rs) : two[j] = IF j = k THEN e ELSE rs[j]
    BY <1>3, ExceptSeq
  <1>5. two[k] = e /\ \A j \in 1 .. Len(rs) : j # k => two[j] = rs[j]
    BY <1>4
  <1>6. RunIn(rs, k, place) = two
    BY DEF two, RunIn
  <1> QED  BY <1>2, <1>4, <1>5, <1>6 DEF RunMoved

(* The fields of a job.                                                     *)
LEMMA DailyJobIs ==
    ASSUME NEW job \in DailyJob
    PROVE  /\ job.day \in Nat
           /\ \A place : [job EXCEPT !.pc = place] = [day |-> job.day, pc |-> place, rates |-> job.rates]
           /\ \A rates : [job EXCEPT !.rates = rates] = [day |-> job.day, pc |-> job.pc, rates |-> rates]
           /\ \A place \in JobPlaces : [day |-> job.day, pc |-> place, rates |-> job.rates] \in DailyJob
           /\ \A rates \in SUBSET Reserves : [day |-> job.day, pc |-> job.pc, rates |-> rates] \in DailyJob
  <1>1. job.day \in Nat
    BY DEF DailyJob
  <1>2. \A place : [job EXCEPT !.pc = place] = [day |-> job.day, pc |-> place, rates |-> job.rates]
    BY DEF DailyJob
  <1>3. \A rates : [job EXCEPT !.rates = rates] = [day |-> job.day, pc |-> job.pc, rates |-> rates]
    BY DEF DailyJob
  <1>4. \A place \in JobPlaces : [day |-> job.day, pc |-> place, rates |-> job.rates] \in DailyJob
    BY DEF DailyJob
  <1>5. \A rates \in SUBSET Reserves : [day |-> job.day, pc |-> job.pc, rates |-> rates] \in DailyJob
    BY DEF DailyJob
  <1> QED  BY <1>1, <1>2, <1>3, <1>4, <1>5

JobAt(js, k, place, rates) == [js EXCEPT ![k].pc = place, ![k].rates = rates]

(* A job with a new place and other rates.                                  *)
LEMMA JobIs ==
    ASSUME NEW js \in Seq(DailyJob), NEW k \in 1 .. Len(js), NEW rates \in SUBSET Reserves,
           NEW place \in JobPlaces
    PROVE  JobMoved(JobAt(js, k, place, rates), js, k, place, rates)
  <1> DEFINE one == [js EXCEPT ![k].pc = place]
             two == [js EXCEPT ![k].pc = place, ![k].rates = rates]
  <1>1. js[k] \in DailyJob
    BY ElementOfSeq
  <1>2. PICK e \in DailyJob : e = [js[k] EXCEPT !.pc = place] /\ e.pc = place /\ e.day = js[k].day
    <2>1. [js[k] EXCEPT !.pc = place] = [day |-> js[k].day, pc |-> place, rates |-> js[k].rates]
      BY <1>1, DailyJobIs
    <2>2. [day |-> js[k].day, pc |-> place, rates |-> js[k].rates] \in DailyJob
      BY <1>1, DailyJobIs
    <2> QED  BY <2>1, <2>2
  <1>3. PICK f \in DailyJob : f = [e EXCEPT !.rates = rates] /\ f.pc = place /\ f.rates = rates /\ f.day = js[k].day
    <2>1. [e EXCEPT !.rates = rates] = [day |-> e.day, pc |-> e.pc, rates |-> rates]
      BY DailyJobIs
    <2>2. [day |-> e.day, pc |-> e.pc, rates |-> rates] \in DailyJob
      BY DailyJobIs
    <2> QED  BY <1>2, <2>1, <2>2
  <1>4. one = [js EXCEPT ![k] = e]
    BY <1>2
  <1>5. one \in Seq(DailyJob) /\ Len(one) = Len(js) /\ \A j \in 1 .. Len(js) : one[j] = IF j = k THEN e ELSE js[j]
    BY <1>4, ExceptSeq
  <1>6. two = [one EXCEPT ![k].rates = rates]
    OBVIOUS
  <1> HIDE DEF one
  <1>7. one[k] = e
    BY <1>5
  <1>8. two = [one EXCEPT ![k] = f]
    BY <1>3, <1>6, <1>7
  <1> HIDE DEF two
  <1>9. two \in Seq(DailyJob) /\ Len(two) = Len(js) /\ \A j \in 1 .. Len(js) : two[j] = IF j = k THEN f ELSE one[j]
    BY <1>5, <1>8, ExceptSeq
  <1>10. two[k] = f /\ \A j \in 1 .. Len(js) : j # k => two[j] = js[j]
    BY <1>5, <1>9
  <1>11. JobAt(js, k, place, rates) = two
    BY DEF two, JobAt
  <1> QED  BY <1>3, <1>9, <1>10, <1>11 DEF JobMoved

(* The phase that is fetched is one of the round's.                         *)
LEMMA FirstPhase ==
    ASSUME RatesTypes, phases # {}
    PROVE  /\ First(phases) \in phases /\ First(phases) \in Phase
           /\ First(phases).addrs \subseteq known /\ First(phases).from \in Nat /\ First(phases).from >= 2
  <1>1. phases \subseteq Phase /\ \A p \in phases : p.addrs \subseteq known /\ p.from >= 2
    BY DEF RatesTypes, RoundTypes
  <1>2. \A p \in phases : p.from \in Nat
    BY <1>1 DEF Phase
  <1>3. First(phases) \in phases
    BY <1>2, FirstIs
  <1> QED  BY <1>1, <1>2, <1>3

(* Arithmetic that the lemma below needs on its own.                        *)
LEMMA Less ==
    ASSUME NEW t \in Nat, NEW u \in Nat, t <= u
    PROVE  t - 1 <= u - 1
  OBVIOUS

(* Days pass and reserves are added.                                       *)
LEMMA WorldTypes ==
    ASSUME RatesTypes, UNCHANGED <<stored, procVars, failures, leftOut>>,
           today' \in 1 .. MaxDay, today <= today', known \subseteq known', known' \subseteq Reserves
    PROVE  RatesTypes'
  <1>1. PICK t \in Nat : t = today
    BY StoredDays
  <1>2. PICK u \in Nat : u = today' /\ t <= u
    BY <1>1, RatesConstants
  <1>3. /\ \A d \in 1 .. today - 1 : d \in 1 .. today' - 1
        /\ resolved \in 0 .. today' - 1
    <2>1. resolved \in 0 .. t - 1
      BY <1>1 DEF RatesTypes, RoundTypes
    <2>2. t - 1 <= u - 1
      BY <1>2, Less
    <2>3. resolved \in 0 .. u - 1
      BY <2>1, <2>2
    <2>4. ASSUME NEW d \in 1 .. t - 1
          PROVE  d \in 1 .. u - 1
      BY <2>2
    <2> QED  BY <1>1, <1>2, <2>3, <2>4
  <1>4. stored \subseteq known' \X (1 .. today' - 1) /\ leftOut \subseteq known' \X (1 .. today' - 1)
    BY <1>3 DEF RatesTypes, RoundTypes
  <1>5. RoundTypes'
    BY <1>3, <1>4 DEF RatesTypes, RoundTypes, procVars
  <1>6. ResolverTypes'
    <2>1. \A k \in 1 .. Len(resolvers) : resolvers[k].day \in Nat
      BY DailySequences, ResolverRunIs
    <2>2. \A k \in 1 .. Len(resolvers) : resolvers[k].day < today => resolvers[k].day < today'
      BY <1>1, <1>2, <2>1
    <2> QED  BY <2>2 DEF RatesTypes, ResolverTypes, procVars
  <1>7. JobTypes'
    BY <1>3 DEF RatesTypes, JobTypes, procVars
  <1> QED  BY <1>5, <1>6, <1>7 DEF RatesTypes

(* A Fetch without jobs.                                                    *)
LEMMA NoJobs ==
    ASSUME jobs' = <<>>, completed' = 0
    PROVE  JobTypes'
  <1>1. <<>> \in Seq(DailyJob) /\ Len(<<>>) = 0
    BY EmptySeq
  <1> QED  BY <1>1 DEF JobTypes

(* The process ends, and another one starts.                               *)
LEMMA ProcessEndsTypes ==
    ASSUME RatesTypes, ProcessEnds
    PROVE  RatesTypes'
  <1>1. <<>> \in Seq(ResolverRun) /\ Len(<<>>) = 0
    BY EmptySeq
  <1>2. ResolverTypes' /\ JobTypes'
    BY <1>1, NoJobs DEF ProcessEnds, ResolverTypes
  <1>3. 0 \in 0 .. today - 1
    BY StoredDays
  <1>4. RoundTypes'
    BY <1>3 DEF ProcessEnds, RatesTypes, RoundTypes
  <1> QED  BY <1>2, <1>4 DEF RatesTypes

(* A process starts.                                                        *)
LEMMA StartProcessTypes ==
    ASSUME RatesTypes, StartProcess
    PROVE  RatesTypes'
  <1>1. RoundTypes'
    BY DEF StartProcess, RatesTypes, RoundTypes
  <1>2. ResolverTypes' /\ JobTypes'
    BY DEF StartProcess, RatesTypes, ResolverTypes, JobTypes
  <1> QED  BY <1>1, <1>2 DEF RatesTypes

(* The resolvers left of a Fetch.                                           *)
LEMMA RunningTypes ==
    ASSUME RatesTypes
    PROVE  /\ Running(resolvers) \in Seq(ResolverRun) /\ Len(Running(resolvers)) \in Nat
           /\ \A k \in 1 .. Len(Running(resolvers)) :
                 /\ Running(resolvers)[k].from >= 2
                 /\ Running(resolvers)[k].pc \in {"resolving", "result"} => Running(resolvers)[k].day >= 1
                 /\ Running(resolvers)[k].pc # "result"
  <1>1. resolvers \in Seq(ResolverRun)
    BY DEF RatesTypes, ResolverTypes
  <1>2. /\ Running(resolvers) \in Seq(ResolverRun)
        /\ \A n \in 1 .. Len(Running(resolvers)) :
              \E k \in 1 .. Len(resolvers) :
                 Running(resolvers)[n] = resolvers[k] /\ resolvers[k].pc \in {"next", "resolving"}
    BY <1>1, RunningIs
  <1>3. Len(Running(resolvers)) \in Nat
    BY <1>2, LenProperties
  <1> HIDE DEF Running
  <1>4. ASSUME NEW n \in 1 .. Len(Running(resolvers))
        PROVE  /\ Running(resolvers)[n].from >= 2
               /\ Running(resolvers)[n].pc \in {"resolving", "result"} => Running(resolvers)[n].day >= 1
               /\ Running(resolvers)[n].pc # "result"
    <2>1. PICK k \in 1 .. Len(resolvers) :
             Running(resolvers)[n] = resolvers[k] /\ resolvers[k].pc \in {"next", "resolving"}
      BY <1>2
    <2> QED  BY <2>1 DEF RatesTypes, ResolverTypes
  <1> QED  BY <1>2, <1>3, <1>4

(* The present moment.                                                      *)
LEMMA NowIs == RatesTypes => Now \in Nat
  BY StoredDays DEF Now

(* A phase begins with a resolver of its own.                              *)
LEMMA StartFetchTypes ==
    ASSUME RatesTypes, NEW rest, rest # {}, rest \subseteq Phase,
           \A p \in rest : p.addrs \subseteq known /\ p.from >= 2,
           StartFetch(rest), UNCHANGED <<today, known, stored, resolved, leftOut>>, excused' \in BOOLEAN, once' \in BOOLEAN
    PROVE  RatesTypes'
  <1>1. PICK run : run = Running(resolvers)
    OBVIOUS
  <1>2. /\ run \in Seq(ResolverRun) /\ Len(run) \in Nat
        /\ \A k \in 1 .. Len(run) : /\ run[k].from >= 2
                                    /\ run[k].pc \in {"resolving", "result"} => run[k].day >= 1
                                    /\ run[k].pc # "result"
    BY <1>1, RunningTypes
  <1>3. \A p \in rest : p.from \in Nat /\ p.to \in Nat
    BY DEF Phase
  <1>4. PICK p \in rest : p = First(rest) /\ p.from \in Nat /\ p.to \in Nat /\ p.from >= 2
    BY <1>3, FirstIs
  <1>5. PICK new \in ResolverRun : new = NewResolver(p) /\ new.from >= 2 /\ new.pc = "next"
    <2>1. PICK to \in Nat : to = IF p.to = 0 THEN Now ELSE p.to
      BY <1>4, NowIs
    <2>2. [pc |-> "next", day |-> 0, from |-> p.from, to |-> to] \in ResolverRun
      BY <1>4, <2>1 DEF ResolverRun, RunPlaces
    <2> QED  BY <1>4, <2>1, <2>2 DEF NewResolver
  <1>6. resolvers' = Append(run, new) /\ daily' = "fetching" /\ phases' = rest /\ jobs' = <<>> /\ completed' = 0
    BY <1>1, <1>4, <1>5 DEF StartFetch
  <1>7. /\ resolvers' \in Seq(ResolverRun) /\ Len(resolvers') = Len(run) + 1
        /\ \A k \in 1 .. Len(run) : resolvers'[k] = run[k]
        /\ resolvers'[Len(run) + 1] = new
    BY <1>2, <1>6, AppendProperties
  <1>8. ResolverTypes'
    <2>1. ASSUME NEW k \in 1 .. Len(resolvers')
          PROVE  /\ resolvers'[k].from >= 2
                 /\ resolvers'[k].pc \in {"resolving", "result"} => resolvers'[k].day >= 1
                 /\ resolvers'[k].pc # "result"
      <3>1. k \in 1 .. Len(run) \/ k = Len(run) + 1
        BY <1>2, <1>7
      <3>2. CASE k \in 1 .. Len(run)
        BY <1>2, <1>7, <3>2
      <3>3. CASE k = Len(run) + 1
        BY <1>5, <1>7, <3>3
      <3> QED  BY <3>1, <3>2, <3>3
    <2> QED  BY <1>7, <2>1 DEF ResolverTypes
  <1>9. Len(resolvers') # 0
    BY <1>2, <1>7
  <1>10. RoundTypes'
    BY <1>6, <1>9 DEF RatesTypes, RoundTypes
  <1> QED  BY <1>6, <1>8, <1>10, NoJobs DEF RatesTypes

(* A round begins.                                                          *)
LEMMA StartRoundTypes ==
    ASSUME RatesTypes, StartRound
    PROVE  RatesTypes'
  <1>1. known # {} /\ StartFetch(Phases) /\ UNCHANGED <<today, known, stored, resolved, leftOut>>
        /\ excused' = (excused \/ Cardinality(Phases) > 1) /\ once' = once
    BY DEF StartRound
  <1>2. Phases # {} /\ Phases \subseteq Phase /\ \A p \in Phases : p.addrs \subseteq known /\ p.from >= 2
    BY <1>1, PhasesAre
  <1>3. excused' \in BOOLEAN /\ once' \in BOOLEAN
    BY <1>1 DEF RatesTypes, RoundTypes
  <1> QED  BY <1>1, <1>2, <1>3, StartFetchTypes

(* A range is given by hand.                                                *)
LEMMA StartRangeTypes ==
    ASSUME RatesTypes, NEW from \in 1 .. today, NEW to \in 1 .. MaxDay, StartRange(2 * from, 2 * to)
    PROVE  RatesTypes'
  <1>1. PICK f \in Nat, t \in Nat : f = 2 * from /\ t = 2 * to /\ f >= 2
    <2>1. today \in Nat /\ MaxDay \in Nat
      BY StoredDays, RatesConstants
    <2> QED  BY <2>1
  <1>2. PICK p : p = [addrs |-> known, from |-> f, to |-> t]
    OBVIOUS
  <1>3. p \in Phase /\ p.addrs \subseteq known /\ p.from >= 2
    BY <1>1, <1>2 DEF Phase, RatesTypes, RoundTypes
  <1>4. StartFetch({p}) /\ UNCHANGED <<today, known, stored, resolved, leftOut>> /\ excused' = TRUE /\ once' = TRUE
    BY <1>1, <1>2 DEF StartRange
  <1> QED  BY <1>3, <1>4, StartFetchTypes

(* A phase ends.                                                            *)
LEMMA FetchReturnsTypes ==
    ASSUME RatesTypes, FetchReturns
    PROVE  RatesTypes'
  <1>1. daily = "waiting"
    BY DEF FetchReturns
  <1>2. CASE once
    BY <1>2, ProcessEndsTypes DEF FetchReturns
  <1>3. CASE ~once /\ phases # {First(phases)}
    <2>1. PICK rest : rest = phases \ {First(phases)}
      OBVIOUS
    <2>2. StartFetch(rest) /\ UNCHANGED <<today, known, stored, resolved, leftOut, excused, once>>
      BY <1>3, <2>1 DEF FetchReturns
    <2>3. /\ phases # {} /\ phases \subseteq Phase /\ excused \in BOOLEAN /\ once \in BOOLEAN
          /\ \A p \in phases : p.addrs \subseteq known /\ p.from >= 2
      BY <1>1 DEF RatesTypes, RoundTypes
    <2>4. rest # {} /\ rest \subseteq phases
      BY <1>3, <2>1, <2>3
    <2>5. rest \subseteq Phase /\ \A p \in rest : p.addrs \subseteq known /\ p.from >= 2
      BY <2>3, <2>4
    <2> QED  BY <1>1, <2>2, <2>3, <2>4, <2>5, StartFetchTypes
  <1>4. CASE ~once /\ phases = {First(phases)}
    <2>1. daily' = "planning" /\ phases' = {} /\ jobs' = <<>> /\ completed' = 0 /\ resolvers' = Running(resolvers)
          /\ UNCHANGED <<today, known, stored, resolved, leftOut, excused, once>>
      BY <1>4 DEF FetchReturns
    <2>2. ResolverTypes'
      <3>1. PICK run : run = Running(resolvers)
        OBVIOUS
      <3>2. /\ run \in Seq(ResolverRun)
            /\ \A k \in 1 .. Len(run) : /\ run[k].from >= 2
                                        /\ run[k].pc \in {"resolving", "result"} => run[k].day >= 1
                                        /\ run[k].pc # "result"
        BY <3>1, RunningTypes
      <3>3. resolvers' = run
        BY <2>1, <3>1
      <3> QED  BY <3>2, <3>3 DEF ResolverTypes
    <2>3. RoundTypes'
      BY <1>1, <2>1 DEF RatesTypes, RoundTypes
    <2> QED  BY <2>1, <2>2, <2>3, NoJobs DEF RatesTypes
  <1> QED  BY <1>2, <1>3, <1>4

(* Run gets on with its blocks.                                            *)
LEMMA GoroutineTypes ==
    ASSUME RatesTypes, NEW k \in DOMAIN resolvers, Call(k) \/ Return(k)
    PROVE  RatesTypes'
  <1>1. resolvers \in Seq(ResolverRun) /\ k \in 1 .. Len(resolvers)
    BY DailySequences DEF RatesTypes, ResolverTypes
  <1>2. PICK t \in Nat : t = today /\ resolved \in 0 .. t - 1
    BY StoredDays DEF RatesTypes, RoundTypes
  <1>3. resolvers[k].day \in Nat /\ resolvers[k].from \in Nat /\ resolvers[k].from >= 2
    BY <1>1, DailySequences, ResolverRunIs DEF RatesTypes, ResolverTypes
  <1>4. ASSUME NEW place \in RunPlaces, NEW day \in Nat,
               Goroutine(k, place, day), resolved' \in 0 .. t - 1, excused' \in BOOLEAN,
               place \in {"resolving", "result"} => day >= 1, place = "result" => day < t
        PROVE  RatesTypes'
    <2>1. UNCHANGED <<today, known, stored, daily, once, phases, jobs, completed, leftOut>>
      BY <1>4 DEF Goroutine
    <2>2. resolvers' = RunAt(resolvers, k, place, day)
      BY <1>4 DEF Goroutine, RunAt
    <2>3. RunMoved(resolvers', resolvers, k, place, day)
      <3>1. RunMoved(RunAt(resolvers, k, place, day), resolvers, k, place, day)
        BY <1>1, GoroutineIs
      <3> QED  BY <2>2, <3>1
    <2>4. ResolverTypes'
      <3>1. ASSUME NEW j \in 1 .. Len(resolvers)
            PROVE  /\ resolvers'[j].from >= 2
                   /\ resolvers'[j].pc \in {"resolving", "result"} => resolvers'[j].day >= 1
                   /\ resolvers'[j].pc = "result" => resolvers'[j].day < t
        <4>1. CASE j = k
          BY <1>3, <1>4, <2>3, <4>1 DEF RunMoved
        <4>2. CASE j # k
          BY <1>2, <2>3, <4>2 DEF RatesTypes, ResolverTypes, RunMoved
        <4> QED  BY <4>1, <4>2
      <3> QED  BY <1>2, <2>1, <2>3, <3>1 DEF ResolverTypes, RunMoved
    <2>5. RoundTypes'
      BY <1>2, <1>4, <2>1, <2>3 DEF RatesTypes, RoundTypes, RunMoved
    <2>6. JobTypes'
      BY <2>1 DEF RatesTypes, JobTypes
    <2> QED  BY <2>4, <2>5, <2>6 DEF RatesTypes
  <1>5. excused \in BOOLEAN
    BY DEF RatesTypes, RoundTypes
  <1>6. CASE Call(k)
    <2>1. PICK day : day = IF resolved = 0 THEN DayOf(resolvers[k].from) ELSE resolved + 1
      OBVIOUS
    <2>2. day \in Nat /\ day >= 1
      BY <1>2, <1>3, <2>1 DEF DayOf
    <2>3. Goroutine(k, "resolving", day) /\ resolved' = resolved /\ excused' = excused /\ "resolving" \in RunPlaces
      BY <1>6, <2>1 DEF Call, RunPlaces
    <2> QED  BY <1>2, <1>4, <1>5, <2>2, <2>3
  <1>7. CASE Return(k)
    <2>1. PICK day \in Nat : day = resolvers[k].day /\ day >= 1
      BY <1>1, <1>3, <1>7 DEF Return, RatesTypes, ResolverTypes
    <2>2. CASE day < t
      <3>1. Goroutine(k, "result", day) /\ resolved' = day /\ excused' = (excused \/ ~Heard(k)) /\ "result" \in RunPlaces
        BY <1>2, <1>7, <2>1, <2>2 DEF Return, RunPlaces
      <3>2. resolved' \in 0 .. t - 1
        BY <2>1, <2>2, <3>1
      <3>3. excused' \in BOOLEAN
        BY <3>1
      <3> QED  BY <1>4, <2>1, <2>2, <3>1, <3>2, <3>3
    <2>3. CASE ~(day < t)
      <3>1. Goroutine(k, "notFound", day) /\ resolved' = resolved /\ excused' = excused /\ "notFound" \in RunPlaces
        BY <1>2, <1>7, <2>1, <2>3 DEF Return, RunPlaces
      <3> QED  BY <1>2, <1>4, <1>5, <2>1, <3>1
    <2> QED  BY <2>2, <2>3
  <1> QED  BY <1>6, <1>7

(* A resolved day starts a job.                                             *)
LEMMA ReceiveBlockTypes ==
    ASSUME RatesTypes, ReceiveBlock
    PROVE  RatesTypes'
  <1>1. PICK n \in Nat \ {0} : n = Len(resolvers)
    BY DailySequences DEF ReceiveBlock, RatesTypes, RoundTypes
  <1>2. resolvers \in Seq(ResolverRun) /\ n \in 1 .. Len(resolvers) /\ Last(resolvers) = resolvers[n]
    BY <1>1 DEF RatesTypes, ResolverTypes, Last
  <1>3. UNCHANGED <<today, known, stored, daily, once, phases, resolved, completed, leftOut, excused>> /\ resolvers[n].pc = "result"
    BY <1>2 DEF ReceiveBlock
  <1>4. PICK place \in RunPlaces :
           place \in {"end", "next"} /\ resolvers' = RunIn(resolvers, n, place)
    <2>1. PICK place : place = IF Last(resolvers).to < LastBlockOf(Last(resolvers).day) THEN "end" ELSE "next"
      OBVIOUS
    <2>2. resolvers' = RunIn(resolvers, n, place)
      BY <1>1, <2>1 DEF ReceiveBlock, RunIn
    <2> QED  BY <2>1, <2>2 DEF RunPlaces
  <1>5. /\ resolvers' \in Seq(ResolverRun) /\ Len(resolvers') = Len(resolvers)
        /\ \A j \in 1 .. Len(resolvers) : j # n => resolvers'[j] = resolvers[j]
        /\ resolvers'[n].pc = place /\ resolvers'[n].from = resolvers[n].from
    <2>1. PICK rs \in Seq(ResolverRun) : rs = resolvers /\ n \in 1 .. Len(rs)
      BY <1>2
    <2>2. RunMoved(RunIn(rs, n, place), rs, n, place, rs[n].day)
      BY <2>1, PlaceIs
    <2> QED  BY <1>4, <2>1, <2>2 DEF RunMoved
  <1>6. ResolverTypes'
    <2>1. ASSUME NEW j \in 1 .. Len(resolvers)
          PROVE  /\ resolvers'[j].from >= 2
                 /\ resolvers'[j].pc \in {"resolving", "result"} => resolvers'[j].day >= 1
                 /\ resolvers'[j].pc = "result" => resolvers'[j].day < today
      <3>1. CASE j = n
        BY <1>4, <1>5, <3>1 DEF RatesTypes, ResolverTypes
      <3>2. CASE j # n
        BY <1>5, <3>2 DEF RatesTypes, ResolverTypes
      <3> QED  BY <3>1, <3>2
    <2> QED  BY <1>3, <1>5, <2>1 DEF ResolverTypes
  <1>7. PICK day \in Nat : day = resolvers[n].day /\ day \in 1 .. today - 1
    <2>1. resolvers[n].day \in Nat /\ resolvers[n].day >= 1 /\ resolvers[n].day < today /\ today \in Nat
      BY <1>2, <1>3, DailySequences, ResolverRunIs, StoredDays DEF RatesTypes, ResolverTypes
    <2> QED  BY <2>1
  <1>8. PICK new \in DailyJob : new = [day |-> day, pc |-> "fetching", rates |-> {}] /\ new.day = day /\ new.pc = "fetching" /\ new.rates = {}
    <2>1. [day |-> day, pc |-> "fetching", rates |-> {}] \in DailyJob
      BY DEF DailyJob, JobPlaces
    <2> QED  BY <2>1
  <1>9. jobs' = Append(jobs, new)
    BY <1>2, <1>7, <1>8 DEF ReceiveBlock
  <1>10. JobTypes'
    <2>1. jobs \in Seq(DailyJob) /\ Len(jobs) \in Nat /\ completed \in 0 .. Len(jobs)
      BY DailySequences DEF RatesTypes, JobTypes
    <2>2. /\ jobs' \in Seq(DailyJob) /\ Len(jobs') = Len(jobs) + 1
          /\ \A k \in 1 .. Len(jobs) : jobs'[k] = jobs[k]
          /\ jobs'[Len(jobs) + 1] = new
      BY <1>9, <2>1, AppendProperties
    <2>3. ASSUME NEW k \in 1 .. Len(jobs')
          PROVE  /\ jobs'[k].day \in 1 .. today - 1 /\ jobs'[k].rates \subseteq known
                 /\ jobs'[k].pc = "done" <=> k <= completed
                 /\ jobs'[k].pc = "storing" => k = completed + 1
      <3>1. k \in 1 .. Len(jobs) \/ k = Len(jobs) + 1
        BY <2>1, <2>2
      <3>2. CASE k \in 1 .. Len(jobs)
        BY <2>2, <3>2 DEF RatesTypes, JobTypes
      <3>3. CASE k = Len(jobs) + 1
        BY <1>7, <1>8, <2>1, <2>2, <3>3
      <3> QED  BY <3>1, <3>2, <3>3
    <2>4. completed \in 0 .. Len(jobs')
      BY <2>1, <2>2
    <2> QED  BY <1>3, <2>2, <2>3, <2>4 DEF JobTypes
  <1>11. RoundTypes'
    BY <1>3, <1>5 DEF RatesTypes, RoundTypes
  <1> QED  BY <1>6, <1>10, <1>11 DEF RatesTypes

(* The range ends.                                                          *)
LEMMA ReceiveEndTypes ==
    ASSUME RatesTypes, ReceiveEnd
    PROVE  RatesTypes'
  <1>1. PICK n \in Nat \ {0} : n = Len(resolvers)
    BY DailySequences DEF ReceiveEnd, RatesTypes, RoundTypes
  <1>2. resolvers \in Seq(ResolverRun) /\ n \in 1 .. Len(resolvers)
    BY <1>1 DEF RatesTypes, ResolverTypes
  <1>3. /\ UNCHANGED <<today, known, stored, once, phases, resolved, jobs, completed, leftOut, excused>>
        /\ daily = "fetching" /\ daily' = "waiting"
    BY <1>2 DEF ReceiveEnd
  <1>4. PICK place \in RunPlaces :
           place \in {"gone", "next"} /\ resolvers' = RunIn(resolvers, n, place)
    <2>1. PICK place : place = IF resolvers[n].pc = "end" THEN "next" ELSE "gone"
      OBVIOUS
    <2>2. resolvers' = RunIn(resolvers, n, place)
      BY <1>1, <1>2, <2>1 DEF ReceiveEnd, RunIn
    <2> QED  BY <2>1, <2>2 DEF RunPlaces
  <1>5. /\ resolvers' \in Seq(ResolverRun) /\ Len(resolvers') = Len(resolvers)
        /\ \A j \in 1 .. Len(resolvers) : j # n => resolvers'[j] = resolvers[j]
        /\ resolvers'[n].pc = place /\ resolvers'[n].from = resolvers[n].from
    <2>1. PICK rs \in Seq(ResolverRun) : rs = resolvers /\ n \in 1 .. Len(rs)
      BY <1>2
    <2>2. RunMoved(RunIn(rs, n, place), rs, n, place, rs[n].day)
      BY <2>1, PlaceIs
    <2> QED  BY <1>4, <2>1, <2>2 DEF RunMoved
  <1>6. ResolverTypes'
    <2>1. ASSUME NEW j \in 1 .. Len(resolvers)
          PROVE  /\ resolvers'[j].from >= 2
                 /\ resolvers'[j].pc \in {"resolving", "result"} => resolvers'[j].day >= 1
                 /\ resolvers'[j].pc = "result" => resolvers'[j].day < today
      <3>1. CASE j = n
        BY <1>4, <1>5, <3>1 DEF RatesTypes, ResolverTypes
      <3>2. CASE j # n
        BY <1>5, <3>2 DEF RatesTypes, ResolverTypes
      <3> QED  BY <3>1, <3>2
    <2> QED  BY <1>3, <1>5, <2>1 DEF ResolverTypes
  <1>7. RoundTypes' /\ JobTypes'
    BY <1>3, <1>5 DEF RatesTypes, RoundTypes, JobTypes
  <1> QED  BY <1>6, <1>7 DEF RatesTypes

(* A job gets on, and has not stored yet: it fetches, with or without some *)
(* of the reserves, fails, is refused or gets its turn.                    *)
JobStep(k) == FetchRates(k) \/ LeaveOut(k) \/ LoseRates(k) \/ JobFails(k) \/ Refuse(k) \/ Turn(k)

JobGetsTo(k, place, rates) ==
    /\ Job(k, place, rates) /\ rates \subseteq jobs[k].rates \cup First(phases).addrs
    /\ jobs[k].pc # "done" /\ (place = "storing" => k = completed + 1)
    /\ UNCHANGED <<stored, completed, leftOut>>

(* What the steps of a job have in common.                                 *)
LEMMA JobStepIs ==
    ASSUME NEW k \in DOMAIN jobs, JobStep(k)
    PROVE  \E place \in {"fetched", "reporting", "storing"} : \E rates : JobGetsTo(k, place, rates)
  <1>1. CASE FetchRates(k)
    <2>1. JobGetsTo(k, "fetched", DeployedBy(jobs[k].day))
      BY <1>1 DEF FetchRates, DeployedBy, JobGetsTo
    <2> QED  BY <2>1
  <1>2. ASSUME NEW missing, GoOnWithout(k, missing)
        PROVE  JobGetsTo(k, "fetched", DeployedBy(jobs[k].day) \ missing)
    BY <1>2 DEF GoOnWithout, DeployedBy, JobGetsTo
  <1>3. CASE LeaveOut(k)
    <2>1. PICK missing : GoOnWithout(k, missing)
      BY <1>3 DEF LeaveOut
    <2> QED  BY <1>2, <2>1
  <1>4. CASE LoseRates(k)
    <2>1. JobGetsTo(k, "fetched", DeployedBy(jobs[k].day) \ First(phases).addrs)
      BY <1>2, <1>4 DEF LoseRates
    <2> QED  BY <2>1
  <1>5. CASE JobFails(k)
    <2>1. JobGetsTo(k, "reporting", jobs[k].rates)
      BY <1>5 DEF JobFails, JobGetsTo
    <2> QED  BY <2>1
  <1>6. CASE Refuse(k)
    <2>1. JobGetsTo(k, "reporting", jobs[k].rates)
      BY <1>6 DEF Refuse, JobGetsTo
    <2> QED  BY <2>1
  <1>7. CASE Turn(k)
    <2>1. JobGetsTo(k, "storing", jobs[k].rates)
      BY <1>7 DEF Turn, JobGetsTo
    <2> QED  BY <2>1
  <1> QED  BY <1>1, <1>3, <1>4, <1>5, <1>6, <1>7 DEF JobStep

(* The rates of a job are of reserves that are known.                      *)
LEMMA JobRates ==
    ASSUME RatesTypes, NEW k \in DOMAIN jobs
    PROVE  jobs[k].rates \subseteq known /\ jobs[k].rates \in SUBSET Reserves
  <1>1. k \in 1 .. Len(jobs)
    BY DailySequences
  <1> QED  BY <1>1 DEF RatesTypes, JobTypes, RoundTypes

(* The types after a step of a job.                                        *)
LEMMA JobTypesKept ==
    ASSUME RatesTypes, NEW k \in DOMAIN jobs, NEW place \in {"fetched", "reporting", "storing"},
           NEW rates, JobGetsTo(k, place, rates)
    PROVE  RatesTypes' /\ JobMoved(jobs', jobs, k, place, rates)
  <1>1. jobs \in Seq(DailyJob) /\ k \in 1 .. Len(jobs)
    BY DailySequences DEF RatesTypes, JobTypes
  <1>2. UNCHANGED <<today, known, daily, once, phases, resolved, resolvers, excused, stored, leftOut, completed>>
        /\ jobs' = JobAt(jobs, k, place, rates) /\ daily \in {"fetching", "waiting"}
    BY DEF JobGetsTo, Job, JobAt
  <1>3. rates \subseteq known /\ rates \in SUBSET Reserves
    <2>1. phases # {} /\ known \subseteq Reserves
      BY <1>2 DEF RatesTypes, RoundTypes
    <2>2. First(phases).addrs \subseteq known
      BY <2>1, FirstPhase
    <2> QED  BY <2>1, <2>2, JobRates DEF JobGetsTo
  <1>4. JobMoved(jobs', jobs, k, place, rates)
    <2>1. place \in JobPlaces
      BY DEF JobPlaces
    <2>2. JobMoved(JobAt(jobs, k, place, rates), jobs, k, place, rates)
      BY <1>1, <1>3, <2>1, JobIs, Zenon
    <2> QED  BY <1>2, <2>2
  <1>5. JobTypes'
    <2>1. ASSUME NEW j \in 1 .. Len(jobs)
          PROVE  /\ jobs'[j].day \in 1 .. today - 1 /\ jobs'[j].rates \subseteq known
                 /\ jobs'[j].pc = "done" <=> j <= completed
                 /\ jobs'[j].pc = "storing" => j = completed + 1
      <3>1. CASE j = k
        BY <1>1, <1>3, <1>4, <3>1 DEF RatesTypes, JobTypes, JobMoved, JobGetsTo
      <3>2. CASE j # k
        BY <1>4, <3>2 DEF RatesTypes, JobTypes, JobMoved
      <3> QED  BY <3>1, <3>2
    <2> QED  BY <1>2, <1>4, <2>1 DEF RatesTypes, JobTypes, JobMoved
  <1>6. RoundTypes' /\ ResolverTypes'
    BY <1>2 DEF RatesTypes, RoundTypes, ResolverTypes
  <1> QED  BY <1>4, <1>5, <1>6 DEF RatesTypes

(* A job stores, and it is its turn.                                        *)
LEMMA UpdateTypes ==
    ASSUME RatesTypes, NEW k \in DOMAIN jobs, UpdateRatesRecords(k)
    PROVE  RatesTypes' /\ k = completed + 1
  <1>1. jobs \in Seq(DailyJob) /\ k \in 1 .. Len(jobs) /\ Len(jobs) \in Nat
    BY DailySequences DEF RatesTypes, JobTypes
  <1>2. /\ UNCHANGED <<today, known, daily, once, phases, resolved, resolvers, excused>>
        /\ jobs' = JobAt(jobs, k, "done", jobs[k].rates)
        /\ daily \in {"fetching", "waiting"} /\ jobs[k].pc = "storing" /\ completed' = k
        /\ stored' = stored \cup (jobs[k].rates \X {jobs[k].day})
        /\ leftOut' = leftOut \cup ((First(phases).addrs \ jobs[k].rates) \X {jobs[k].day})
    BY DEF Job, UpdateRatesRecords, StoreRates, JobAt
  <1>3. jobs[k].rates \in SUBSET Reserves /\ jobs[k].rates \subseteq known
    BY JobRates
  <1>4. /\ jobs' \in Seq(DailyJob) /\ Len(jobs') = Len(jobs)
        /\ \A j \in 1 .. Len(jobs) : j # k => jobs'[j] = jobs[j]
        /\ jobs'[k].pc = "done" /\ jobs'[k].day = jobs[k].day /\ jobs'[k].rates = jobs[k].rates
    <2>1. "done" \in JobPlaces
      BY DEF JobPlaces
    <2>2. PICK rates \in SUBSET Reserves : rates = jobs[k].rates
      BY <1>3
    <2>3. JobMoved(JobAt(jobs, k, "done", rates), jobs, k, "done", rates)
      BY <1>1, <2>1, JobIs, Zenon
    <2> QED  BY <1>2, <2>2, <2>3 DEF JobMoved
  <1>5. k = completed + 1 /\ completed \in 0 .. Len(jobs)
    BY <1>1, <1>2 DEF RatesTypes, JobTypes
  <1>6. JobTypes'
    <2>1. ASSUME NEW j \in 1 .. Len(jobs)
          PROVE  /\ jobs'[j].day \in 1 .. today - 1 /\ jobs'[j].rates \subseteq known
                 /\ jobs'[j].pc = "done" <=> j <= k
                 /\ jobs'[j].pc = "storing" => j = k + 1
      <3>1. CASE j = k
        BY <1>1, <1>4, <3>1 DEF RatesTypes, JobTypes
      <3>2. CASE j # k
        <4>1. /\ jobs[j].day \in 1 .. today - 1 /\ jobs[j].rates \subseteq known
              /\ jobs[j].pc = "done" <=> j <= completed
              /\ jobs[j].pc = "storing" => j = completed + 1
          BY DEF RatesTypes, JobTypes
        <4>2. j <= completed <=> j <= k
          BY <1>1, <1>5, <3>2
        <4> QED  BY <1>4, <1>5, <3>2, <4>1, <4>2
      <3> QED  BY <3>1, <3>2
    <2>2. completed' \in 0 .. Len(jobs)
      BY <1>1, <1>2
    <2> QED  BY <1>2, <1>4, <2>1, <2>2 DEF JobTypes
  <1>7. RoundTypes'
    <2>1. First(phases).addrs \subseteq known
      BY <1>2, FirstPhase DEF RatesTypes, RoundTypes
    <2>2. jobs[k].day \in 1 .. today - 1
      BY <1>1 DEF RatesTypes, JobTypes
    <2>3. stored' \subseteq known \X (1 .. today - 1)
      BY <1>2, <1>3, <2>2 DEF RatesTypes, RoundTypes
    <2>4. leftOut' \subseteq known \X (1 .. today - 1)
      BY <1>2, <2>1, <2>2 DEF RatesTypes, RoundTypes
    <2> QED  BY <1>2, <2>3, <2>4 DEF RatesTypes, RoundTypes
  <1>8. ResolverTypes'
    BY <1>2 DEF RatesTypes, ResolverTypes
  <1> QED  BY <1>5, <1>6, <1>7, <1>8 DEF RatesTypes

(* The steps of a job that has not stored yet.                             *)
LEMMA JobStepTypes ==
    ASSUME RatesTypes, NEW k \in DOMAIN jobs, JobStep(k)
    PROVE  RatesTypes'
  <1>1. PICK place, rates : place \in {"fetched", "reporting", "storing"} /\ JobGetsTo(k, place, rates)
    BY JobStepIs
  <1> QED  BY <1>1, JobTypesKept

(* Every step of the fetcher.                                              *)
LEMMA DailyTypes ==
    ASSUME RatesTypes, RatesNext \/ UNCHANGED ratesVars
    PROVE  RatesTypes'
  <1>1. CASE Tomorrow
    <2>1. /\ UNCHANGED <<stored, procVars, failures, leftOut>> /\ known' = known
          /\ today' = today + 1 /\ today < MaxDay
      BY <1>1 DEF Tomorrow
    <2>2. today \in Nat /\ today >= 1 /\ MaxDay \in Nat /\ known \subseteq Reserves
      BY StoredDays, RatesConstants DEF RatesTypes, RoundTypes
    <2>3. today' \in 1 .. MaxDay /\ today <= today' /\ known \subseteq known' /\ known' \subseteq Reserves
      BY <2>1, <2>2
    <2> QED  BY <2>1, <2>3, WorldTypes
  <1>2. CASE \E r \in Reserves : AddReserve(r)
    <2>1. /\ UNCHANGED <<stored, procVars, failures, leftOut>> /\ today' = today
          /\ known \subseteq known' /\ known' \subseteq Reserves
      BY <1>2 DEF AddReserve, RatesTypes, RoundTypes
    <2>2. today' \in 1 .. MaxDay /\ today <= today'
      <3>1. today \in Nat
        BY StoredDays
      <3> QED  BY <2>1, <3>1 DEF RatesTypes, RoundTypes
    <2> QED  BY <2>1, <2>2, WorldTypes
  <1>3. CASE Main
    <2>1. CASE ReceiveError
      BY <2>1, ProcessEndsTypes DEF ReceiveError
    <2> QED  BY <1>3, <2>1, StartProcessTypes, StartRoundTypes, ReceiveBlockTypes, ReceiveEndTypes,
                FetchReturnsTypes DEF Main
  <1>4. CASE Goroutines
    <2>1. CASE \E k \in DOMAIN resolvers : daily # "down" /\ (Call(k) \/ Return(k))
      BY <2>1, GoroutineTypes
    <2>2. CASE \E k \in DOMAIN jobs : FetchRates(k) \/ Refuse(k) \/ Turn(k) \/ UpdateRatesRecords(k)
      BY <2>2, JobStepTypes, UpdateTypes DEF JobStep
    <2> QED  BY <1>4, <2>1, <2>2 DEF Goroutines
  <1>5. CASE \E k \in DOMAIN jobs : LeaveOut(k) \/ LoseRates(k) \/ JobFails(k)
    BY <1>5, JobStepTypes DEF JobStep
  <1>6. CASE Kill
    BY <1>6, ProcessEndsTypes DEF Kill
  <1>7. CASE UNCHANGED ratesVars
    BY <1>7 DEF ratesVars, procVars, RatesTypes, RoundTypes, ResolverTypes, JobTypes
  <1>8. CASE \E from \in 1 .. today, to \in 1 .. MaxDay : StartRange(2 * from, 2 * to)
    BY <1>8, StartRangeTypes
  <1> QED  BY <1>1, <1>2, <1>3, <1>4, <1>5, <1>6, <1>7, <1>8 DEF RatesNext

(* The goroutine of the Fetch and the day it is to find.                    *)
LEMMA CurrentIs ==
    ASSUME RatesTypes, phases # {}, Len(resolvers) # 0
    PROVE  /\ Awaited \in Nat /\ First(phases).from \in Nat
           /\ resolvers \in Seq(ResolverRun) /\ DOMAIN resolvers = 1 .. Len(resolvers)
           /\ Len(resolvers) \in 1 .. Len(resolvers)
           /\ Current = resolvers[Len(resolvers)] /\ Current = Last(resolvers) /\ Current \in ResolverRun
  <1>1. /\ resolvers \in Seq(ResolverRun) /\ DOMAIN resolvers = 1 .. Len(resolvers)
        /\ Len(resolvers) \in 1 .. Len(resolvers) /\ resolvers[Len(resolvers)] \in ResolverRun
    BY DailySequences DEF RatesTypes, ResolverTypes
  <1>2. PICK f \in Nat : f = First(phases).from
    BY FirstPhase
  <1>3. PICK r \in Nat : r = resolved
    BY StoredDays DEF RatesTypes, RoundTypes
  <1>4. DayOf(f) \in Nat
    BY DEF DayOf
  <1> QED  BY <1>1, <1>2, <1>3, <1>4 DEF Awaited, Current, Last

(* The goroutine of the Fetch does nothing.                                *)
LEMMA OtherRound ==
    ASSUME SinglePhase, UNCHANGED <<stored, leftOut, daily, phases, resolved, jobs, completed>>, Current' = Current
    PROVE  SinglePhase'
  <1>1. Awaited' = Awaited
    BY DEF Awaited
  <1>2. WholePhase'
    BY DEF SinglePhase, WholePhase
  <1>3. RightDay'
    BY <1>1 DEF SinglePhase, RightDay
  <1>4. JobDays'
    BY <1>1 DEF SinglePhase, JobDays
  <1>5. StoreOrder'
    BY <1>1 DEF SinglePhase, StoreOrder, NextToStore, UpTo
  <1> QED  BY <1>2, <1>3, <1>4, <1>5 DEF SinglePhase

(* A goroutine of Run gets to a place: that of the Fetch, or another one.  *)
LEMMA CurrentMoves ==
    ASSUME RatesTypes, phases # {}, Len(resolvers) # 0, NEW k \in 1 .. Len(resolvers), NEW place \in RunPlaces,
           NEW day \in Nat, resolvers' = RunAt(resolvers, k, place, day)
    PROVE  /\ k # Len(resolvers) => Current' = Current
           /\ k = Len(resolvers) => Current'.pc = place /\ Current'.day = day /\ Current'.from = Current.from
  <1>1. RunMoved(resolvers', resolvers, k, place, day)
    <2>1. resolvers \in Seq(ResolverRun)
      BY CurrentIs
    <2>2. RunMoved(RunAt(resolvers, k, place, day), resolvers, k, place, day)
      BY <2>1, GoroutineIs
    <2> QED  BY <2>2
  <1> QED  BY <1>1, CurrentIs DEF RunMoved, Current

(* The goroutine of the Fetch gets to a place.                              *)
LEMMA CurrentStays ==
    ASSUME RatesTypes, phases # {}, Len(resolvers) # 0, NEW place \in RunPlaces,
           resolvers' = RunIn(resolvers, Len(resolvers), place)
    PROVE  Current'.pc = place /\ Current'.day = Current.day /\ Current'.from = Current.from
  <1>1. PICK n : n = Len(resolvers) /\ n \in 1 .. Len(resolvers) /\ resolvers \in Seq(ResolverRun)
    BY CurrentIs
  <1>2. RunMoved(RunIn(resolvers, n, place), resolvers, n, place, resolvers[n].day)
    BY <1>1, PlaceIs
  <1>3. RunMoved(resolvers', resolvers, n, place, resolvers[n].day)
    BY <1>1, <1>2
  <1> QED  BY <1>1, <1>3 DEF RunMoved, Current

(* The goroutine of the Fetch looks for the awaited day.                    *)
LEMMA CallRound ==
    ASSUME RatesTypes, SinglePhase, phases # {}, Len(resolvers) # 0, NEW k \in DOMAIN resolvers, Call(k)
    PROVE  SinglePhase'
  <1>1. k \in 1 .. Len(resolvers) /\ resolvers[k].pc = "next" /\ resolvers[k] \in ResolverRun
    BY DailySequences DEF Call
  <1>2. PICK a \in Nat : a = Awaited
    BY CurrentIs
  <1>3. PICK day \in Nat : day = IF resolved = 0 THEN DayOf(resolvers[k].from) ELSE resolved + 1
    <2>1. PICK f \in Nat : f = resolvers[k].from
      BY <1>1, ResolverRunIs
    <2>2. PICK r \in Nat : r = resolved
      BY StoredDays DEF RatesTypes, RoundTypes
    <2>3. DayOf(f) \in Nat
      BY DEF DayOf
    <2> QED  BY <2>1, <2>2, <2>3
  <1>4. UNCHANGED <<today, stored, leftOut, daily, phases, jobs, completed, resolved>>
        /\ resolvers' = RunAt(resolvers, k, "resolving", day)
    BY <1>3 DEF Call, Goroutine, RunAt
  <1>5. /\ k # Len(resolvers) => Current' = Current
        /\ k = Len(resolvers) => Current'.pc = "resolving" /\ Current'.day = day /\ Current'.from = Current.from
    <2>1. "resolving" \in RunPlaces
      BY DEF RunPlaces
    <2> QED  BY <1>1, <1>4, <2>1, CurrentMoves
  <1>6. CASE k # Len(resolvers)
    BY <1>4, <1>5, <1>6, OtherRound
  <1>7. CASE k = Len(resolvers)
    <2>1. Current.pc = "next" /\ resolvers[k] = Current
      BY <1>1, <1>7 DEF Current
    <2>2. a = day
      BY <1>2, <1>3, <2>1 DEF Awaited, SinglePhase, RightDay
    <2>3. Awaited' = a
      BY <1>2, <1>4, <1>5, <1>7, <2>1 DEF Awaited
    <2>4. WholePhase'
      BY <1>4 DEF SinglePhase, WholePhase
    <2>5. RightDay'
      BY <1>4, <1>5, <1>7, <2>2, <2>3 DEF SinglePhase, RightDay
    <2>6. JobDays'
      BY <1>2, <1>4, <2>3 DEF SinglePhase, JobDays
    <2>7. StoreOrder'
      BY <1>2, <1>4, <2>3 DEF SinglePhase, StoreOrder, NextToStore, UpTo
    <2> QED  BY <2>4, <2>5, <2>6, <2>7 DEF SinglePhase
  <1> QED  BY <1>6, <1>7

(* A day is resolved, and heard of, or it is not over yet.                 *)
LEMMA ReturnIs ==
    ASSUME NEW k \in DOMAIN resolvers, Return(k), ~excused'
    PROVE  \E place \in RunPlaces :
              /\ UNCHANGED <<today, stored, leftOut, daily, phases, jobs, completed>>
              /\ resolvers' = RunAt(resolvers, k, place, resolvers[k].day)
              /\ place \in {"result", "notFound"}
              /\ place = "result" => resolved' = resolvers[k].day /\ Heard(k)
              /\ place = "notFound" => resolved' = resolved
  <1>1. CASE resolvers[k].day < today
    <2>1. Goroutine(k, "result", resolvers[k].day) /\ resolved' = resolvers[k].day /\ Heard(k)
      BY <1>1 DEF Return
    <2>2. "result" \in RunPlaces
      BY DEF RunPlaces
    <2>3. UNCHANGED <<today, stored, leftOut, daily, phases, jobs, completed>>
          /\ resolvers' = RunAt(resolvers, k, "result", resolvers[k].day)
      BY <2>1 DEF Goroutine, RunAt
    <2> QED  BY <2>1, <2>2, <2>3
  <1>2. CASE ~(resolvers[k].day < today)
    <2>1. Goroutine(k, "notFound", resolvers[k].day) /\ resolved' = resolved
      BY <1>2 DEF Return
    <2>2. "notFound" \in RunPlaces
      BY DEF RunPlaces
    <2>3. UNCHANGED <<today, stored, leftOut, daily, phases, jobs, completed>>
          /\ resolvers' = RunAt(resolvers, k, "notFound", resolvers[k].day)
      BY <2>1 DEF Goroutine, RunAt
    <2> QED  BY <2>1, <2>2, <2>3
  <1> QED  BY <1>1, <1>2

(* The awaited day is resolved if it is over.                               *)
LEMMA ReturnRound ==
    ASSUME RatesTypes, SinglePhase, phases # {}, Len(resolvers) # 0, NEW k \in DOMAIN resolvers, Return(k), ~excused'
    PROVE  SinglePhase'
  <1>1. k \in 1 .. Len(resolvers) /\ resolvers[k].pc = "resolving" /\ resolvers[k] \in ResolverRun
    BY DailySequences DEF Return
  <1>2. PICK a \in Nat : a = Awaited
    BY CurrentIs
  <1>3. PICK day \in Nat : day = resolvers[k].day /\ day >= 1
    BY <1>1, ResolverRunIs DEF RatesTypes, ResolverTypes
  <1>4. PICK place \in RunPlaces :
           /\ UNCHANGED <<today, stored, leftOut, daily, phases, jobs, completed>>
           /\ resolvers' = RunAt(resolvers, k, place, day)
           /\ place \in {"result", "notFound"}
           /\ place = "result" => resolved' = day /\ Heard(k)
           /\ place = "notFound" => resolved' = resolved
    BY <1>3, ReturnIs
  <1>5. /\ k # Len(resolvers) => Current' = Current
        /\ k = Len(resolvers) => Current'.pc = place /\ Current'.day = day /\ Current'.from = Current.from
    BY <1>1, <1>4, CurrentMoves
  <1>6. CASE k # Len(resolvers)
    <2>1. resolved' = resolved
      BY <1>4, <1>6 DEF Heard
    <2> QED  BY <1>4, <1>5, <1>6, <2>1, OtherRound
  <1>7. CASE k = Len(resolvers)
    <2>1. Current.pc = "resolving" /\ Current.day = day
      BY <1>1, <1>3, <1>7 DEF Current
    <2>2. place = "result" => daily = "fetching" /\ day = a /\ resolved' = a /\ a >= 1
      BY <1>2, <1>3, <1>4, <2>1 DEF Heard, SinglePhase, RightDay
    <2>3. Awaited' = a
      BY <1>2, <1>4, <1>5, <1>7, <2>1, <2>2 DEF Awaited
    <2>4. WholePhase'
      BY <1>4 DEF SinglePhase, WholePhase
    <2>5. RightDay'
      BY <1>4, <1>5, <1>7, <2>2, <2>3 DEF SinglePhase, RightDay
    <2>6. JobDays'
      <3>1. resolved' = 0 => resolved = 0
        BY <1>4, <2>2
      <3> QED  BY <1>2, <1>4, <2>3, <3>1 DEF SinglePhase, JobDays
    <2>7. StoreOrder'
      BY <1>2, <1>4, <2>3 DEF SinglePhase, StoreOrder, NextToStore, UpTo
    <2> QED  BY <2>4, <2>5, <2>6, <2>7 DEF SinglePhase
  <1> QED  BY <1>6, <1>7

(* A block starts the job of its day.                                      *)
LEMMA ReceiveBlockRound ==
    ASSUME RatesTypes, SinglePhase, phases # {}, Len(resolvers) # 0, ReceiveBlock
    PROVE  SinglePhase'
  <1>1. Last(resolvers) = Current /\ Current \in ResolverRun
    BY CurrentIs
  <1>2. /\ Current.pc = "result" /\ daily = "fetching"
        /\ UNCHANGED <<today, stored, leftOut, daily, phases, resolved, completed>>
        /\ jobs' = Append(jobs, [day |-> Current.day, pc |-> "fetching", rates |-> {}])
        /\ resolvers' = [resolvers EXCEPT ![Len(resolvers)].pc =
              IF Current.to < LastBlockOf(Current.day) THEN "end" ELSE "next"]
    BY <1>1 DEF ReceiveBlock
  <1>3. PICK a \in Nat : a = Awaited
    BY CurrentIs
  <1>4. Current.day = resolved /\ resolved >= 1 /\ resolved < today
    <2>1. Len(resolvers) \in 1 .. Len(resolvers) /\ Current = resolvers[Len(resolvers)]
      BY CurrentIs
    <2> QED  BY <1>2, <2>1 DEF SinglePhase, RightDay, RatesTypes, ResolverTypes
  <1>5. resolved \in Nat /\ resolved = a
    BY <1>2, <1>3, <1>4, StoredDays DEF Awaited, RatesTypes, RoundTypes
  <1>6. PICK place \in RunPlaces : place \in {"end", "next"} /\ resolvers' = RunIn(resolvers, Len(resolvers), place)
    <2>1. PICK place : place = IF Current.to < LastBlockOf(Current.day) THEN "end" ELSE "next"
      OBVIOUS
    <2>2. resolvers' = RunIn(resolvers, Len(resolvers), place)
      BY <1>2, <2>1 DEF RunIn
    <2> QED  BY <2>1, <2>2 DEF RunPlaces
  <1>7. Current'.pc = place /\ Current'.day = Current.day /\ Current'.from = Current.from /\ place # "result"
        /\ place # "resolving"
    BY <1>6, CurrentStays
  <1>8. PICK new \in DailyJob : jobs' = Append(jobs, new) /\ new.day = a /\ new.rates = {}
    <2>1. [day |-> a, pc |-> "fetching", rates |-> {}] \in DailyJob
      BY DEF DailyJob, JobPlaces
    <2> QED  BY <1>2, <1>4, <1>5, <2>1
  <1>9. PICK n \in Nat : n = Len(jobs)
    BY DailySequences
  <1>10. /\ Len(jobs') = n + 1 /\ jobs'[n + 1] = new
         /\ \A k \in 1 .. n : jobs'[k] = jobs[k]
    <2>1. jobs \in Seq(DailyJob)
      BY DEF RatesTypes, JobTypes
    <2> QED  BY <1>8, <1>9, <2>1, AppendProperties
  <1>11. Awaited' = a + 1
    BY <1>2, <1>4, <1>5, <1>7 DEF Awaited
  <1>12. WholePhase'
    BY <1>2 DEF SinglePhase, WholePhase
  <1>13. RightDay'
    BY <1>2, <1>7 DEF SinglePhase, RightDay
  <1>14. JobDays'
    <2>1. resolved' # 0
      BY <1>2, <1>4
    <2>2. ASSUME NEW k \in 1 .. n + 1
          PROVE  /\ jobs'[k].day = (a + 1) - (n + 1) + k - 1
                 /\ jobs'[k].rates \subseteq First(phases).addrs
      <3>1. CASE k \in 1 .. n
        <4>1. jobs[k].day = a - n + k - 1 /\ jobs[k].rates \subseteq First(phases).addrs
          BY <1>3, <1>9, <3>1 DEF SinglePhase, JobDays
        <4>2. a - n + k - 1 = (a + 1) - (n + 1) + k - 1
          OBVIOUS
        <4> QED  BY <1>10, <3>1, <4>1, <4>2
      <3>2. CASE k = n + 1
        <4>1. a = (a + 1) - (n + 1) + (n + 1) - 1
          OBVIOUS
        <4> QED  BY <1>8, <1>10, <3>2, <4>1
      <3>3. k \in 1 .. n \/ k = n + 1
        OBVIOUS
      <3> QED  BY <3>1, <3>2, <3>3
    <2> QED  BY <1>2, <1>10, <1>11, <2>1, <2>2 DEF JobDays
  <1>15. StoreOrder'
    <2>1. completed \in Nat
      BY <1>9 DEF RatesTypes, JobTypes
    <2>2. NextToStore' = NextToStore
      <3>1. NextToStore = a - n + completed /\ NextToStore' = (a + 1) - (n + 1) + completed
        BY <1>2, <1>3, <1>9, <1>10, <1>11 DEF NextToStore
      <3> QED  BY <2>1, <3>1
    <2> QED  BY <1>2, <2>2 DEF SinglePhase, StoreOrder, UpTo
  <1> QED  BY <1>12, <1>13, <1>14, <1>15 DEF SinglePhase

(* The range ends.                                                         *)
LEMMA ReceiveEndRound ==
    ASSUME RatesTypes, SinglePhase, phases # {}, Len(resolvers) # 0, ReceiveEnd
    PROVE  SinglePhase'
  <1>1. Last(resolvers) = Current /\ Current = resolvers[Len(resolvers)]
    BY CurrentIs
  <1>2. /\ Current.pc \in {"notFound", "end"} /\ daily' = "waiting"
        /\ UNCHANGED <<today, stored, leftOut, phases, resolved, jobs, completed>>
    BY <1>1 DEF ReceiveEnd
  <1>3. PICK place \in RunPlaces : place \in {"gone", "next"} /\ resolvers' = RunIn(resolvers, Len(resolvers), place)
    <2>1. PICK place : place = IF Current.pc = "end" THEN "next" ELSE "gone"
      OBVIOUS
    <2>2. resolvers' = RunIn(resolvers, Len(resolvers), place)
      BY <1>1, <2>1 DEF ReceiveEnd, RunIn
    <2> QED  BY <2>1, <2>2 DEF RunPlaces
  <1>4. Current'.pc = place /\ Current'.from = Current.from
    BY <1>3, CurrentStays
  <1>5. Awaited' = Awaited
    BY <1>2, <1>3, <1>4 DEF Awaited
  <1>6. WholePhase'
    BY <1>2 DEF SinglePhase, WholePhase
  <1>7. RightDay'
    BY <1>2, <1>3, <1>4 DEF SinglePhase, RightDay
  <1>8. JobDays'
    BY <1>2, <1>5 DEF SinglePhase, JobDays
  <1>9. StoreOrder'
    BY <1>2, <1>5 DEF SinglePhase, StoreOrder, NextToStore, UpTo
  <1> QED  BY <1>6, <1>7, <1>8, <1>9 DEF SinglePhase

(* A job gets on.                                                          *)
LEMMA JobStepRound ==
    ASSUME RatesTypes, SinglePhase, phases # {}, NEW k \in DOMAIN jobs, JobStep(k)
    PROVE  SinglePhase'
  <1>1. PICK place, rates : place \in {"fetched", "reporting", "storing"} /\ JobGetsTo(k, place, rates)
    BY JobStepIs
  <1>2. JobMoved(jobs', jobs, k, place, rates)
    BY <1>1, JobTypesKept
  <1>3. UNCHANGED <<daily, phases, resolved, resolvers, stored, leftOut, completed>>
    BY <1>1 DEF JobGetsTo, Job
  <1>4. Awaited' = Awaited /\ Len(jobs') = Len(jobs)
    BY <1>2, <1>3 DEF Awaited, Current, JobMoved
  <1>5. WholePhase' /\ RightDay'
    BY <1>3, <1>4 DEF SinglePhase, WholePhase, RightDay, Current
  <1>6. JobDays'
    <2>1. k \in 1 .. Len(jobs)
      BY DailySequences
    <2>2. rates \subseteq First(phases).addrs
      BY <1>1, <2>1 DEF SinglePhase, JobDays, JobGetsTo
    <2>3. ASSUME NEW j \in 1 .. Len(jobs)
          PROVE  jobs'[j].day = jobs[j].day /\ jobs'[j].rates \subseteq First(phases).addrs
      <3>1. CASE j = k
        BY <1>2, <2>2, <3>1 DEF JobMoved
      <3>2. CASE j # k
        BY <1>2, <3>2 DEF JobMoved, SinglePhase, JobDays
      <3> QED  BY <3>1, <3>2
    <2> QED  BY <1>3, <1>4, <2>3 DEF SinglePhase, JobDays
  <1>7. StoreOrder'
    BY <1>3, <1>4 DEF SinglePhase, StoreOrder, NextToStore, UpTo
  <1> QED  BY <1>5, <1>6, <1>7 DEF SinglePhase

(* What holds up to a day holds up to an earlier one.                      *)
LEMMA CompleteBefore ==
    ASSUME NEW rows, \A s \in rows : s[2] \in Int, NEW without, NEW n \in Int, NEW m \in Int, m <= n,
           Complete(rows, without, n)
    PROVE  Complete(rows, without, m)
  <1>1. \A s \in rows : s[2] .. m \subseteq s[2] .. n
    OBVIOUS
  <1> QED  BY <1>1 DEF Complete

AreOf(rows, addrs) == \A s \in rows : s[1] \in addrs
WithDay(rows, addrs, day) == rows \cup (addrs \X {day})

DatedUpTo(rows, n) == \E rs : rows \subseteq rs \X (1 .. n)

(* A day no earlier than the last one is added to the table, for some      *)
(* reserves and without the others: up to that day nothing is missing.     *)
LEMMA DayIsAdded ==
    ASSUME NEW n \in Nat, NEW rows, DatedUpTo(rows, n), NEW addrs, AreOf(rows, addrs),
           NEW rates, rates \subseteq addrs, NEW without,
           NEW day \in 1 .. n, day >= LastDay(rows), Complete(rows, without, day - 1)
    PROVE  /\ LastDay(WithDay(rows, rates, day)) \in 0 .. day
           /\ AreOf(WithDay(rows, rates, day), addrs)
           /\ \A s \in WithDay(rows, rates, day) : s[2] \in Int
           /\ Complete(WithDay(rows, rates, day), WithDay(without, addrs \ rates, day), day)
  <1>1. PICK after : after = WithDay(rows, rates, day) /\ after = rows \cup (rates \X {day})
    BY DEF WithDay
  <1>2. PICK rs : rows \subseteq rs \X (1 .. n) /\ addrs \subseteq rs
    <2>1. PICK r : rows \subseteq r \X (1 .. n)
      BY DEF DatedUpTo
    <2> WITNESS r \cup addrs
    <2> QED  BY <2>1
  <1>3. PICK d0 \in Nat : d0 = day /\ d0 >= 1
    OBVIOUS
  <1>4. \A s \in rows : s[2] \in 1 .. d0 /\ s = <<s[1], s[2]>> /\ s[1] \in addrs
    <2>1. LastDay(rows) \in 0 .. n /\ \A s \in rows : s[2] \in 1 .. LastDay(rows)
      BY <1>2, LastDayIs, Zenon
    <2>2. PICK last \in Nat : last = LastDay(rows) /\ last <= d0
      BY <1>3, <2>1
    <2> QED  BY <1>2, <2>1, <2>2 DEF AreOf
  <1>5. after \subseteq rs \X (1 .. d0)
    <2>1. rows \subseteq rs \X (1 .. d0)
      BY <1>2, <1>4
    <2>2. rates \X {day} \subseteq rs \X (1 .. d0)
      BY <1>2, <1>3
    <2> QED  BY <1>1, <2>1, <2>2
  <1>6. LastDay(after) \in 0 .. d0
    BY <1>5, LastDayIs, Zenon
  <1>7. \A s \in after : s[1] \in addrs /\ s[2] \in 1 .. d0
    <2>1. \A s \in rates \X {day} : s[1] \in addrs /\ s[2] \in 1 .. d0
      BY <1>3
    <2> QED  BY <1>1, <1>4, <2>1
  <1>8. PICK gone : gone = WithDay(without, addrs \ rates, day) /\ gone = without \cup ((addrs \ rates) \X {day})
    BY DEF WithDay
  <1>9. ASSUME NEW s \in after, NEW d \in s[2] .. d0
        PROVE  <<s[1], d>> \in after \cup gone
    <2>1. CASE d = d0
      <3>1. s[1] \in rates \/ s[1] \in addrs \ rates
        BY <1>7
      <3> QED  BY <1>1, <1>3, <1>8, <2>1, <3>1
    <2>2. CASE d # d0
      <3>1. s[2] \in Nat /\ d \in Nat /\ s[2] <= d /\ d <= d0 - 1
        BY <1>7, <2>2
      <3>2. s \in rows
        <4>1. s \notin rates \X {day}
          BY <1>3, <3>1
        <4> QED  BY <1>1, <4>1
      <3>3. d \in s[2] .. d0 - 1
        BY <3>1
      <3>4. <<s[1], d>> \in rows \cup without
        BY <1>3, <3>2, <3>3 DEF Complete
      <3> QED  BY <1>1, <1>8, <3>4
    <2> QED  BY <2>1, <2>2
  <1>10. Complete(after, gone, d0)
    BY <1>9 DEF Complete
  <1>11. AreOf(after, addrs) /\ \A s \in after : s[2] \in Int
    BY <1>7 DEF AreOf
  <1> QED  BY <1>1, <1>3, <1>6, <1>8, <1>10, <1>11

(* The next day is stored.                                                  *)
LEMMA UpdateRound ==
    ASSUME RatesTypes, SinglePhase, phases # {}, Len(resolvers) # 0, NEW k \in DOMAIN jobs, UpdateRatesRecords(k)
    PROVE  SinglePhase' /\ UpToLastDay'
  <1>1. jobs \in Seq(DailyJob) /\ k \in 1 .. Len(jobs)
    BY DailySequences DEF RatesTypes, JobTypes
  <1>2. PICK n \in Nat, c \in Nat, a \in Nat : n = Len(jobs) /\ c = completed /\ a = Awaited
    <2>1. PICK n \in Nat : n = Len(jobs)
      BY DailySequences
    <2>2. PICK c \in Nat : c = completed
      BY <2>1 DEF RatesTypes, JobTypes
    <2>3. PICK a \in Nat : a = Awaited
      BY CurrentIs
    <2> QED  BY <2>1, <2>2, <2>3
  <1>3. k = c + 1 /\ k \in 1 .. n
    BY <1>1, <1>2, UpdateTypes
  <1>4. PICK rates : rates = jobs[k].rates /\ rates \in SUBSET Reserves
    BY JobRates
  <1>5. jobs[k].pc = "storing" /\ completed' = k /\ daily \in {"fetching", "waiting"}
        /\ UNCHANGED <<today, known, daily, phases, resolved, resolvers>>
        /\ jobs' = JobAt(jobs, k, "done", rates)
    BY <1>4 DEF UpdateRatesRecords, StoreRates, Job, JobAt
  <1>6. PICK day \in Nat : day = jobs[k].day /\ day \in 1 .. today - 1
    <2>1. jobs[k].day \in 1 .. today - 1
      BY <1>1 DEF RatesTypes, JobTypes
    <2>2. jobs[k].day \in Nat
      BY <2>1, StoredDays
    <2> QED  BY <2>1, <2>2
  <1>7. PICK addrs : addrs = First(phases).addrs /\ AreOf(stored, addrs) /\ rates \subseteq addrs
    BY <1>1, <1>4 DEF SinglePhase, WholePhase, JobDays, AreOf
  <1>8. day = a - n + k - 1
    BY <1>1, <1>2, <1>6 DEF SinglePhase, JobDays
  <1>9. day = NextToStore
    <2>1. NextToStore = a - n + c
      BY <1>2 DEF NextToStore
    <2> QED  BY <1>2, <1>3, <1>8, <2>1
  <1>10. day >= LastDay(stored) /\ Complete(stored, leftOut, day - 1)
    BY <1>9 DEF SinglePhase, StoreOrder, UpTo
  <1>11. stored' = WithDay(stored, rates, day) /\ leftOut' = WithDay(leftOut, addrs \ rates, day)
    BY <1>4, <1>6, <1>7 DEF UpdateRatesRecords, StoreRates, WithDay
  <1>12. /\ LastDay(stored') \in 0 .. day /\ AreOf(stored', addrs)
         /\ (\A s \in stored' : s[2] \in Int) /\ Complete(stored', leftOut', day)
    <2>1. PICK m \in Nat : m = today - 1
      BY StoredDays
    <2>2. DatedUpTo(stored, m) /\ day \in 1 .. m
      <3>1. stored \subseteq known \X (1 .. m)
        BY <2>1 DEF RatesTypes, RoundTypes
      <3> QED  BY <1>6, <2>1, <3>1 DEF DatedUpTo
    <2>3. /\ LastDay(WithDay(stored, rates, day)) \in 0 .. day
          /\ AreOf(WithDay(stored, rates, day), addrs)
          /\ \A s \in WithDay(stored, rates, day) : s[2] \in Int
          /\ Complete(WithDay(stored, rates, day), WithDay(leftOut, addrs \ rates, day), day)
      BY <1>7, <1>10, <2>2, DayIsAdded
    <2> QED  BY <1>11, <2>3
  <1>13. JobMoved(jobs', jobs, k, "done", rates)
    <2>1. "done" \in JobPlaces
      BY DEF JobPlaces
    <2>2. JobMoved(JobAt(jobs, k, "done", rates), jobs, k, "done", rates)
      BY <1>1, <1>4, <2>1, JobIs, Zenon
    <2> QED  BY <1>5, <2>2
  <1>14. Awaited' = a /\ Len(jobs') = n
    BY <1>2, <1>5, <1>13 DEF Awaited, Current, JobMoved
  <1>15. WholePhase'
    BY <1>5, <1>7, <1>12 DEF SinglePhase, WholePhase, AreOf
  <1>16. RightDay'
    BY <1>2, <1>5, <1>14 DEF SinglePhase, RightDay, Current
  <1>17. JobDays'
    <2>1. ASSUME NEW j \in 1 .. n
          PROVE  jobs'[j].day = a - n + j - 1 /\ jobs'[j].rates \subseteq addrs
      <3>1. CASE j = k
        BY <1>6, <1>7, <1>8, <1>13, <3>1 DEF JobMoved
      <3>2. CASE j # k
        BY <1>2, <1>7, <1>13, <3>2 DEF JobMoved, SinglePhase, JobDays
      <3> QED  BY <3>1, <3>2
    <2>2. n # 0 => resolved # 0
      BY <1>2 DEF SinglePhase, JobDays
    <2> QED  BY <1>5, <1>7, <1>14, <2>1, <2>2 DEF JobDays
  <1>18. StoreOrder'
    <2>1. NextToStore' = a - n + k
      BY <1>5, <1>14 DEF NextToStore
    <2>2. NextToStore' = day + 1 /\ (day + 1) - 1 = day
      BY <1>2, <1>3, <1>8, <2>1
    <2>3. day + 1 >= LastDay(stored')
      BY <1>12
    <2> QED  BY <1>12, <2>2, <2>3 DEF StoreOrder, UpTo
  <1>19. UpToLastDay'
    <2>1. PICK last \in Nat : last = LastDay(stored') /\ last <= day
      BY <1>12
    <2>2. Complete(stored', leftOut', last)
      BY <1>12, <2>1, CompleteBefore
    <2> QED  BY <2>1, <2>2 DEF UpToLastDay, UpTo
  <1> QED  BY <1>15, <1>16, <1>17, <1>18, <1>19 DEF SinglePhase

(* The round is over: what was resolved last is no earlier than the last   *)
(* day of the table but one, and nothing is missing up to it.              *)
LEMMA FetchReturnsRound ==
    ASSUME RatesTypes, SinglePhase, phases # {}, Len(resolvers) # 0, FetchReturns
    PROVE  daily' \in {"down", "planning"} /\ Resumes' /\ UNCHANGED <<stored, leftOut>>
  <1>1. CASE once
    BY <1>1 DEF FetchReturns, ProcessEnds, Resumes
  <1>2. CASE ~once
    <2>1. phases = {First(phases)}
      <3>1. PICK p \in phases : phases = {p}
        BY DEF SinglePhase, WholePhase
      <3>2. First(phases) \in phases
        BY FirstPhase
      <3> QED  BY <3>1, <3>2
    <2>2. daily = "waiting" /\ daily' = "planning" /\ UNCHANGED <<resolved, stored, leftOut>>
      BY <1>2, <2>1 DEF FetchReturns
    <2>3. PICK n \in Nat, c \in Nat, a \in Nat : n = Len(jobs) /\ c = completed /\ c <= n /\ a = Awaited
      <3>1. PICK n \in Nat : n = Len(jobs)
        BY DailySequences
      <3>2. PICK c \in Nat : c = completed /\ c <= n
        BY <3>1 DEF RatesTypes, JobTypes
      <3>3. PICK a \in Nat : a = Awaited
        BY CurrentIs
      <3> QED  BY <3>1, <3>2, <3>3
    <2>4. c = n
      <3> SUFFICES ASSUME c # n
                   PROVE  FALSE
        OBVIOUS
      <3>1. n \in 1 .. n /\ ~(n <= c)
        BY <2>3
      <3>2. n \in DOMAIN jobs /\ jobs[n].pc # "done"
        BY <2>3, <3>1, DailySequences DEF RatesTypes, JobTypes
      <3> QED  BY <3>2 DEF FetchReturns
    <2>5. Current.pc # "result"
      BY <2>2 DEF SinglePhase, RightDay
    <2>6. NextToStore = a
      BY <2>3, <2>4 DEF NextToStore
    <2>7. ASSUME resolved # 0
          PROVE  resolved + 1 >= LastDay(stored) /\ UpTo(resolved)
      <3>1. PICK r \in Nat : r = resolved /\ a = r + 1 /\ (r + 1) - 1 = r
        BY <2>3, <2>5, <2>7, StoredDays DEF Awaited, RatesTypes, RoundTypes
      <3> QED  BY <2>6, <3>1 DEF SinglePhase, StoreOrder
    <2> QED  BY <2>2, <2>7 DEF Resumes, UpTo
  <1> QED  BY <1>1, <1>2

(* A round of one phase begins.                                            *)
LEMMA StartRoundRound ==
    ASSUME RatesTypes, Resumes, UpToLastDay, StartRound, ~excused'
    PROVE  SinglePhase'
  <1>1. known # {} /\ StartFetch(Phases) /\ UNCHANGED <<today, known, stored, leftOut, resolved>>
        /\ ~(Cardinality(Phases) > 1)
    BY DEF StartRound
  <1>2. PICK last \in Nat : last = LastDay(stored)
    BY StoredDays
  <1>3. PICK p \in Phase : /\ Phases = {p} /\ p.addrs = known /\ p.from >= 2
                           /\ last # 0 => p.from = LastBlockOf(last)
    BY <1>1, <1>2, OnePhase
  <1>4. p.from \in Nat
    BY DEF Phase
  <1>5. First({p}) = p
    <2>1. {p} # {} /\ \A q \in {p} : q.from \in Nat
      BY <1>4
    <2>2. First({p}) \in {p}
      BY <2>1, FirstIs
    <2> QED  BY <2>2
  <1>6. daily' = "fetching" /\ phases' = {p} /\ jobs' = <<>> /\ completed' = 0
        /\ resolvers' = Append(Running(resolvers), NewResolver(p))
    BY <1>1, <1>3, <1>5 DEF StartFetch
  <1>7. PICK run \in Seq(ResolverRun) : run = Running(resolvers) /\ Len(run) \in Nat
    BY RunningTypes
  <1>8. PICK new \in ResolverRun : new = NewResolver(p) /\ new.from = p.from /\ new.pc = "next"
    <2>1. PICK to \in Nat : to = IF p.to = 0 THEN Now ELSE p.to
      BY NowIs DEF Phase
    <2>2. [pc |-> "next", day |-> 0, from |-> p.from, to |-> to] \in ResolverRun
      BY <1>4, <2>1 DEF ResolverRun, RunPlaces
    <2> QED  BY <2>1, <2>2 DEF NewResolver
  <1>9. Current' = new
    <2>1. resolvers' = Append(run, new)
      BY <1>6, <1>7, <1>8
    <2>2. Len(Append(run, new)) = Len(run) + 1 /\ Append(run, new)[Len(run) + 1] = new
      BY <1>7, AppendProperties
    <2> QED  BY <2>1, <2>2 DEF Current
  <1>10. First(phases') = p
    BY <1>5, <1>6
  <1>11. Len(jobs') = 0
    BY <1>6, EmptySeq
  <1>12. PICK a : a = Awaited'
    OBVIOUS
  <1>13. a = IF resolved = 0 THEN DayOf(p.from) ELSE resolved + 1
    BY <1>1, <1>8, <1>9, <1>10, <1>12 DEF Awaited
  <1>14. a \in Nat /\ a >= last /\ UpTo(a - 1)
    <2>1. DayOf(p.from) \in Nat /\ DayOf(LastBlockOf(last)) = last
      BY <1>2, <1>4 DEF DayOf, LastBlockOf
    <2>2. CASE resolved = 0
      <3>1. a \in Nat /\ a = DayOf(p.from) /\ (last # 0 => a = last)
        BY <1>3, <1>13, <2>1, <2>2
      <3>2. UpTo(a - 1)
        <4>1. CASE last = 0
          <5>1. stored = {}
            BY <1>2, <4>1, StoredDays
          <5> QED  BY <5>1 DEF UpTo, Complete
        <4>2. CASE last # 0
          <5>1. \A s \in stored : s[2] \in Int
            BY <1>2, StoredDays
          <5>2. Complete(stored, leftOut, last)
            BY <1>2 DEF UpToLastDay, UpTo
          <5>3. a = last /\ last - 1 \in Int /\ last - 1 <= last
            BY <3>1, <4>2
          <5>4. Complete(stored, leftOut, last - 1)
            BY <5>1, <5>2, <5>3, CompleteBefore
          <5> QED  BY <5>3, <5>4 DEF UpTo
        <4> QED  BY <4>1, <4>2
      <3> QED  BY <1>2, <3>1, <3>2
    <2>3. CASE resolved # 0
      <3>1. PICK r \in Nat : r = resolved /\ a = r + 1 /\ (r + 1) - 1 = r
        BY <1>13, <2>3, StoredDays DEF RatesTypes, RoundTypes
      <3> QED  BY <1>2, <2>3, <3>1 DEF Resumes
    <2> QED  BY <2>2, <2>3
  <1>15. WholePhase'
    <2>1. \A s \in stored : s[1] \in known
      BY StoredDays
    <2> QED  BY <1>1, <1>3, <1>6, <1>10, <2>1 DEF WholePhase
  <1>16. RightDay'
    BY <1>6, <1>8, <1>9, <1>10 DEF RightDay
  <1>17. JobDays'
    BY <1>11 DEF JobDays
  <1>18. StoreOrder'
    <2>1. NextToStore' = a
      <3>1. NextToStore' = a - 0 + 0
        BY <1>6, <1>11, <1>12 DEF NextToStore
      <3> QED  BY <1>14, <3>1
    <2>2. LastDay(stored') = last
      BY <1>1, <1>2
    <2>3. UpTo(a - 1)'
      BY <1>1, <1>12, <1>14 DEF UpTo
    <2> QED  BY <1>14, <2>1, <2>2, <2>3 DEF StoreOrder, UpTo
  <1> QED  BY <1>15, <1>16, <1>17, <1>18 DEF SinglePhase

(* What is excused once is excused for ever.                               *)
LEMMA HistoryKept ==
    ASSUME RatesNext \/ UNCHANGED ratesVars, ~excused'
    PROVE  ~excused
  <1>1. CASE StartRound
    BY <1>1 DEF StartRound
  <1>2. CASE \E k \in DOMAIN jobs : JobStep(k)
    <2>1. \E k \in DOMAIN jobs : \E place, rates : JobGetsTo(k, place, rates)
      BY <1>2, JobStepIs
    <2> QED  BY <2>1 DEF JobGetsTo, Job
  <1>3. CASE ~StartRound /\ ~(\E k \in DOMAIN jobs : JobStep(k))
    <2>1. excused => excused'
      BY <1>3 DEF RatesNext, Tomorrow, AddReserve, Main, StartProcess, StartRange, ReceiveBlock, ReceiveEnd,
             ReceiveError, FetchReturns, Goroutines, Call, Return, JobStep, UpdateRatesRecords, StoreRates, Job,
             Kill, ProcessEnds, procVars, ratesVars
    <2> QED  BY <2>1
  <1> QED  BY <1>1, <1>2, <1>3

(* A step that leaves the Fetch alone.                                     *)
LEMMA StaysRound ==
    ASSUME RoundInv, ~excused, UNCHANGED <<stored, leftOut, phases, resolved, resolvers, jobs, completed>>,
           daily' = daily \/ (daily = "down" /\ daily' = "planning")
    PROVE  RoundInv'
  <1>1. UpToLastDay' /\ (Resumes => Resumes')
    BY DEF RoundInv, UpToLastDay, UpTo, Resumes
  <1>2. CASE daily = "down" /\ daily' = "planning"
    BY <1>1, <1>2 DEF RoundInv
  <1>3. CASE daily' = daily
    <2>1. Current' = Current
      BY DEF Current
    <2>2. SinglePhase => SinglePhase'
      BY <1>3, <2>1, OtherRound
    <2> QED  BY <1>1, <1>3, <2>2 DEF RoundInv
  <1> QED  BY <1>2, <1>3

(* Every step of the fetcher keeps what a round knows.                      *)
LEMMA RoundKept ==
    ASSUME DailyInv, RatesNext \/ UNCHANGED ratesVars
    PROVE  RoundInv'
  <1> SUFFICES ASSUME ~excused'
               PROVE  RoundInv'
    BY DEF RoundInv
  <1>1. RatesTypes /\ RoundInv
    BY DEF DailyInv
  <1>2. ~excused
    BY HistoryKept
  <1>3. /\ UpToLastDay
        /\ daily \in {"down", "planning"} => Resumes
        /\ daily \in {"fetching", "waiting"} => SinglePhase /\ phases # {} /\ Len(resolvers) # 0
    BY <1>1, <1>2 DEF RoundInv, RatesTypes, RoundTypes
  <1>4. ASSUME SinglePhase', UpToLastDay', daily' \notin {"down", "planning"}
        PROVE  RoundInv'
    BY <1>4 DEF RoundInv
  <1>5. UNCHANGED <<stored, leftOut>> => UpToLastDay'
    BY <1>3 DEF UpToLastDay, UpTo
  <1>6. CASE Tomorrow \/ (\E r \in Reserves : AddReserve(r)) \/ StartProcess \/ UNCHANGED ratesVars
    <2>1. UNCHANGED <<stored, leftOut, phases, resolved, resolvers, jobs, completed>>
          /\ (daily' = daily \/ (daily = "down" /\ daily' = "planning"))
      BY <1>6 DEF Tomorrow, AddReserve, StartProcess, ratesVars, procVars
    <2> QED  BY <1>1, <1>2, <2>1, StaysRound
  <1>7. CASE ReceiveError \/ Kill
    <2>1. daily' = "down" /\ resolved' = 0 /\ UNCHANGED <<stored, leftOut>>
      BY <1>7 DEF ReceiveError, Kill, ProcessEnds
    <2>2. Resumes'
      BY <2>1 DEF Resumes
    <2> QED  BY <1>5, <2>1, <2>2 DEF RoundInv
  <1>8. CASE StartRound
    <2>1. daily = "planning" /\ daily' = "fetching" /\ UNCHANGED <<stored, leftOut>>
      BY <1>8 DEF StartRound, StartFetch
    <2>2. SinglePhase'
      BY <1>1, <1>3, <1>8, <2>1, StartRoundRound
    <2> QED  BY <1>4, <1>5, <2>1, <2>2
  <1>9. CASE ReceiveBlock
    <2>1. daily = "fetching" /\ daily' = daily /\ UNCHANGED <<stored, leftOut>>
      BY <1>9 DEF ReceiveBlock
    <2>2. SinglePhase'
      BY <1>1, <1>3, <1>9, <2>1, ReceiveBlockRound
    <2> QED  BY <1>4, <1>5, <2>1, <2>2
  <1>10. CASE ReceiveEnd
    <2>1. daily = "fetching" /\ daily' = "waiting" /\ UNCHANGED <<stored, leftOut>>
      BY <1>10 DEF ReceiveEnd
    <2>2. SinglePhase'
      BY <1>1, <1>3, <1>10, <2>1, ReceiveEndRound
    <2> QED  BY <1>4, <1>5, <2>1, <2>2
  <1>11. CASE FetchReturns
    <2>1. daily = "waiting"
      BY <1>11 DEF FetchReturns
    <2>2. daily' \in {"down", "planning"} /\ Resumes' /\ UNCHANGED <<stored, leftOut>>
      BY <1>1, <1>3, <1>11, <2>1, FetchReturnsRound
    <2> QED  BY <1>5, <2>2 DEF RoundInv
  <1>12. CASE \E k \in DOMAIN resolvers : daily # "down" /\ (Call(k) \/ Return(k))
    <2>1. PICK k \in DOMAIN resolvers : daily # "down" /\ (Call(k) \/ Return(k))
      BY <1>12
    <2>2. daily' = daily /\ UNCHANGED <<stored, leftOut>>
      BY <2>1 DEF Call, Return, Goroutine
    <2>3. CASE daily \in {"fetching", "waiting"}
      <3>1. SinglePhase'
        BY <1>1, <1>3, <2>1, <2>3, CallRound, ReturnRound
      <3> QED  BY <1>4, <1>5, <2>2, <2>3, <3>1
    <2>4. CASE daily = "planning"
      <3>1. resolved' = resolved
        BY <2>1, <2>4 DEF Call, Return, Heard
      <3>2. Resumes'
        BY <1>3, <2>2, <2>4, <3>1 DEF Resumes, UpTo
      <3> QED  BY <1>5, <2>2, <2>4, <3>2 DEF RoundInv
    <2> QED  BY <1>1, <2>1, <2>3, <2>4 DEF RatesTypes, RoundTypes
  <1>13. CASE \E k \in DOMAIN jobs : JobStep(k)
    <2>1. PICK k \in DOMAIN jobs : JobStep(k)
      BY <1>13
    <2>2. daily \in {"fetching", "waiting"} /\ daily' = daily /\ UNCHANGED <<stored, leftOut>>
      <3>1. PICK place, rates : JobGetsTo(k, place, rates)
        BY <2>1, JobStepIs
      <3> QED  BY <3>1 DEF JobGetsTo, Job
    <2>3. SinglePhase'
      BY <1>1, <1>3, <2>1, <2>2, JobStepRound
    <2> QED  BY <1>4, <1>5, <2>2, <2>3
  <1>14. CASE \E k \in DOMAIN jobs : UpdateRatesRecords(k)
    <2>1. PICK k \in DOMAIN jobs : UpdateRatesRecords(k)
      BY <1>14
    <2>2. daily \in {"fetching", "waiting"} /\ daily' = daily
      BY <2>1 DEF UpdateRatesRecords, StoreRates, Job
    <2>3. SinglePhase' /\ UpToLastDay'
      BY <1>1, <1>3, <2>1, <2>2, UpdateRound
    <2> QED  BY <1>4, <2>2, <2>3
  <1>15. ~(\E from \in 1 .. today, to \in 1 .. MaxDay : StartRange(2 * from, 2 * to))
    BY DEF StartRange
  <1> QED  BY <1>6, <1>7, <1>8, <1>9, <1>10, <1>11, <1>12, <1>13, <1>14, <1>15
           DEF RatesNext, Main, Goroutines, JobStep

(* The fetcher begins with an empty table.                                  *)
LEMMA DailyStarts == RatesInit => DailyInv
  <1> SUFFICES ASSUME RatesInit
               PROVE  DailyInv
    OBVIOUS
  <1>1. /\ today = 1 /\ known = {r \in Reserves : DayOf(Created[r]) = 1} /\ stored = {} /\ leftOut = {}
        /\ daily = "down" /\ once = FALSE /\ phases = {} /\ resolved = 0 /\ resolvers = <<>>
        /\ jobs = <<>> /\ completed = 0 /\ excused = FALSE
    BY DEF RatesInit
  <1>2. <<>> \in Seq(ResolverRun) /\ <<>> \in Seq(DailyJob) /\ Len(<<>>) = 0
    BY EmptySeq
  <1>3. RoundTypes
    <2>1. 1 \in 1 .. MaxDay
      BY RatesConstants
    <2>2. 0 \in 0 .. today - 1
      BY <1>1
    <2>3. known \subseteq Reserves
      BY <1>1
    <2>4. once \in BOOLEAN /\ excused \in BOOLEAN
      BY <1>1
    <2>5. ~(daily \in {"fetching", "waiting"})
      BY <1>1
    <2>6. /\ stored \subseteq known \X (1 .. today - 1) /\ leftOut \subseteq known \X (1 .. today - 1)
          /\ phases \subseteq Phase
      BY <1>1
    <2> QED  BY <1>1, <2>1, <2>2, <2>3, <2>4, <2>5, <2>6 DEF RoundTypes
  <1>4. ResolverTypes /\ JobTypes
    BY <1>1, <1>2 DEF ResolverTypes, JobTypes
  <1>5. RoundInv
    BY <1>1 DEF RoundInv, UpToLastDay, UpTo, Complete, Resumes
  <1> QED  BY <1>3, <1>4, <1>5 DEF DailyInv, RatesTypes

(* A step of the programs is one of the fetcher or leaves it alone.         *)
LEMMA RatesStep == [Next]_vars => RatesNext \/ UNCHANGED ratesVars
  <1>1. CASE Next
    <2>1. CASE Alone("fetcher", RatesNext)
      BY <2>1 DEF Alone
    <2>2. ASSUME NEW p \in {"resolver", "huobi withdrawals", "binance withdrawals"}, program = p,
                 Idle("fetcher", ratesVars)
          PROVE  UNCHANGED ratesVars
      BY <2>2 DEF Idle
    <2>3. CASE Alone("resolver", Resolver!Next)
      BY <2>2, <2>3 DEF Alone
    <2>4. CASE Alone("huobi withdrawals", HuobiNext)
      BY <2>2, <2>4 DEF Alone
    <2>5. CASE Alone("binance withdrawals", BinanceNext)
      BY <2>2, <2>5 DEF Alone
    <2> QED  BY <1>1, <2>1, <2>3, <2>4, <2>5 DEF Next
  <1>2. CASE UNCHANGED vars
    BY <1>2 DEF vars
  <1> QED  BY <1>1, <1>2

(* What holds of the fetcher in every reachable state.                      *)
LEMMA DailyInvariant == Spec => []DailyInv
  <1>1. Init => DailyInv
    BY DailyStarts DEF Init
  <1>2. DailyInv /\ [Next]_vars => DailyInv'
    BY RatesStep, DailyTypes, RoundKept DEF DailyInv
  <1> QED  BY <1>1, <1>2, PTL DEF Spec

(* Whichever job fails when, and whenever the process is killed, the days  *)
(* of a Fetch are stored in order and, between two stored days of a        *)
(* reserve, the only ones it lacks are those whose own jobs left it out,   *)
(* as long as all reserves are at the same moment, no range is given by    *)
(* hand and no goroutine goes on after the end of its range to the end of  *)
(* another day.                                                            *)
THEOREM DaysAreStoredAlways == Spec => []DaysAreStored
  <1>1. DailyInv => DaysAreStored
    <2> SUFFICES ASSUME DailyInv
                 PROVE  DaysAreStored
      OBVIOUS
    <2>1. RatesTypes /\ RoundInv
      BY DEF DailyInv
    <2>2. DaysStoredInOrder
      <3> SUFFICES ASSUME NEW k \in DOMAIN jobs, jobs[k].pc \in {"storing", "done"}, NEW j \in 1 .. k - 1
                   PROVE  jobs[j].pc = "done"
        BY DEF DaysStoredInOrder
      <3>1. PICK n \in Nat : n = Len(jobs) /\ DOMAIN jobs = 1 .. n
        BY <2>1, DailySequences
      <3>2. completed \in Nat
        BY <2>1, <3>1 DEF RatesTypes, JobTypes
      <3>3. k \in 1 .. Len(jobs) /\ j \in 1 .. Len(jobs) /\ k \in Nat /\ j \in Nat /\ j < k
        BY <3>1
      <3>4. k <= completed + 1
        BY <2>1, <3>2, <3>3 DEF RatesTypes, JobTypes
      <3>5. j <= completed
        BY <3>2, <3>3, <3>4
      <3> QED  BY <2>1, <3>3, <3>5 DEF RatesTypes, JobTypes
    <2>3. NoDayIsSkipped
      <3> SUFFICES ASSUME ~excused, NEW r \in Reserves, NEW d \in 1 .. MaxDay,
                          NEW a \in Days(r), NEW b \in Days(r), a < d, d < b
                   PROVE  d \in Days(r) \/ <<r, d>> \in leftOut
        BY DEF NoDayIsSkipped, EveryDay
      <3>1. PICK last \in Nat : last = LastDay(stored)
        BY <2>1, StoredDays
      <3>2. PICK s \in stored : s[1] = r /\ s[2] = a
        BY DEF Days
      <3>3. PICK t \in stored : t[1] = r /\ t[2] = b
        BY DEF Days
      <3>4. a \in Nat /\ b \in Nat /\ d \in Nat /\ b <= last
        <4>1. s[2] \in 1 .. last /\ t[2] \in 1 .. last
          BY <2>1, <3>1, StoredDays
        <4> QED  BY <3>2, <3>3, <4>1, RatesConstants
      <3>5. d \in s[2] .. last
        BY <3>2, <3>4
      <3>6. <<r, d>> \in stored \cup leftOut
        BY <2>1, <3>1, <3>2, <3>5 DEF RoundInv, UpToLastDay, UpTo, Complete
      <3> QED  BY <3>6 DEF Days
    <2> QED  BY <2>2, <2>3 DEF DaysAreStored
  <1> QED  BY <1>1, DailyInvariant, PTL

-----------------------------------------------------------------------------
(* The types of the programs, from the invariant of each.                  *)

(* A step of the programs is one of the fetcher of Binance withdrawals or  *)
(* leaves it alone.                                                        *)
LEMMA BinanceStep == [Next]_vars => [BinanceNext]_binanceVars
  <1>1. CASE Next
    <2>1. CASE Alone("binance withdrawals", BinanceNext)
      BY <2>1 DEF Alone
    <2>2. ASSUME NEW p \in {"resolver", "fetcher", "huobi withdrawals"}, program = p,
                 Idle("binance withdrawals", binanceVars)
          PROVE  UNCHANGED binanceVars
      BY <2>2 DEF Idle
    <2>3. CASE Alone("resolver", Resolver!Next)
      BY <2>2, <2>3 DEF Alone
    <2>4. CASE Alone("fetcher", RatesNext)
      BY <2>2, <2>4 DEF Alone
    <2>5. CASE Alone("huobi withdrawals", HuobiNext)
      BY <2>2, <2>5 DEF Alone
    <2> QED  BY <1>1, <2>1, <2>3, <2>4, <2>5 DEF Next
  <1>2. CASE UNCHANGED vars
    BY <1>2 DEF vars
  <1> QED  BY <1>1, <1>2

(* The rows of days are of days before the last of the model.              *)
LEMMA RatesAreTyped == ASSUME RatesTypes PROVE RatesTypeOK
  <1>1. /\ today \in 1 .. MaxDay /\ known \subseteq Reserves
        /\ stored \subseteq known \X (1 .. today - 1) /\ leftOut \subseteq known \X (1 .. today - 1)
        /\ daily \in {"down", "planning", "fetching", "waiting"} /\ resolved \in 0 .. today - 1
        /\ once \in BOOLEAN
    BY DEF RatesTypes, RoundTypes
  <1>2. stored \subseteq Reserves \X (1 .. MaxDay) /\ leftOut \subseteq Reserves \X (1 .. MaxDay)
    <2>1. 1 .. today - 1 \subseteq 1 .. MaxDay
      BY <1>1, RatesConstants
    <2> QED  BY <1>1, <2>1
  <1>3. /\ DOMAIN jobs = 1 .. Len(jobs) /\ completed \in 0 .. Len(jobs)
        /\ \A k \in DOMAIN jobs : jobs[k] \in DailyJob /\ jobs[k].day \in 1 .. today - 1
    <2>1. DOMAIN jobs = 1 .. Len(jobs) /\ \A k \in DOMAIN jobs : jobs[k] \in DailyJob
      BY ElementOfSeq DEF RatesTypes, JobTypes
    <2> QED  BY <2>1 DEF RatesTypes, JobTypes
  <1>4. \A k \in DOMAIN jobs : jobs[k].pc \in JobPlaces /\ jobs[k].rates \subseteq Reserves
    BY <1>3 DEF DailyJob
  <1>5. \A k \in DOMAIN resolvers : resolvers[k].pc \in RunPlaces
    <2>1. \A k \in DOMAIN resolvers : resolvers[k] \in ResolverRun
      BY ElementOfSeq DEF RatesTypes, ResolverTypes
    <2> QED  BY <2>1 DEF ResolverRun
  <1> QED  BY <1>1, <1>2, <1>3, <1>4, <1>5 DEF RatesTypeOK, JobPlaces, RunPlaces

(* Every variable of the programs keeps its type, whichever one runs: the  *)
(* resolver searches between mined blocks, the jobs of a Fetch are of days *)
(* that are over, rows of withdrawals have the account of the withdrawal.  *)
THEOREM AccountingTypes == Spec => []TypeOK
  <1>1. ResolverInv => Resolver!TypeOK
    <2> SUFFICES ASSUME ResolverInv
                 PROVE  Resolver!TypeOK
      OBVIOUS
    <2>1. LastResolved \in 0 .. MaxBlock
      <3>1. blockInfo \subseteq 1 .. MaxBlock /\ LastResolved \in blockInfo \cup {0}
        BY DEF ResolverInv
      <3>2. MaxBlock \in Nat
        BY ChainsAssumption
      <3> QED  BY <3>1, <3>2
    <2> QED  BY <2>1 DEF ResolverInv, Resolver!TypeOK, Resolver!Blocks
  <1>2. DailyInv => RatesTypeOK
    BY RatesAreTyped DEF DailyInv
  <1>3. HuobiInv => HuobiTypeOK
    <2> SUFFICES ASSUME HuobiTypes
                 PROVE  HuobiTypeOK
      BY DEF HuobiInv
    <2>1. \A w \in DOMAIN onHuobi : onHuobi[w] \in HuobiWithdrawal
      BY ElementOfSeq DEF HuobiTypes
    <2>2. fromID \in 0 .. LastHuobiId
      BY HuobiConstants, LenProperties DEF HuobiTypes
    <2> QED  BY <2>1, <2>2 DEF HuobiTypes, HuobiTypeOK, HuobiWithdrawal
  <1>4. Init /\ [][Next]_vars => []HuobiInv
    <2>1. Init => HuobiInv
      BY HuobiStarts DEF Init
    <2>2. HuobiInv /\ [Next]_vars => HuobiInv'
      BY HuobiStep, HuobiSteps
    <2> QED  BY <2>1, <2>2, PTL
  <1>5. Init /\ [][Next]_vars => []BinanceInv
    <2>1. Init => BinanceInv
      BY BinanceStarts DEF Init
    <2>2. BinanceInv /\ [Next]_vars => BinanceInv'
      BY BinanceStep, BinanceSteps
    <2> QED  BY <2>1, <2>2, PTL
  <1>6. BinanceInv => BinanceTypeOK
    BY BinanceInvImplies
  <1>7. Resolver!TypeOK /\ RatesTypeOK /\ HuobiTypeOK /\ BinanceTypeOK => TypeOK
    BY DEF TypeOK
  <1> QED  BY <1>1, <1>2, <1>3, <1>4, <1>5, <1>6, <1>7, ResolverInvariant, DailyInvariant, PTL DEF Spec
=============================================================================
