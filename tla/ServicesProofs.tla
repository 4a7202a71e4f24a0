--------------------------- MODULE ServicesProofs ---------------------------
(***************************************************************************)
(* Proofs about the services, each one by an inductive invariant of its    *)
(* own.  They run side by side and share nothing, so that the invariant of *)
(* the specification is the conjunction of theirs: a step of one service   *)
(* is a step of its own next-state relation and leaves the others alone.   *)
(***************************************************************************)
EXTENDS MCServices, DataLemmas

-----------------------------------------------------------------------------
(* The fetcher of reserve transactions.                                    *)

KindNames == {"normal", "internal", "erc20"}

(* A batch goes on where the address resumes, is as long as a batch or     *)
(* ends in the range, and the kinds that are done are stored.              *)
BatchInv ==
    fetching # <<>> =>
        /\ fromBlock = StartFrom(fetching[1]) /\ fromBlock < endBlock
        /\ endBlock <= toBlock \/ endBlock = fromBlock + Batch
        /\ endBlock <= toBlock =>
               \A t \in WantedFrom(fetching[1]) : t.block >= fromBlock /\ t.block < endBlock =>
                   t \in stored \/ \E k \in DOMAIN kinds : kinds[k] = t.kind

(* The addresses that the run has left have less than a batch left.        *)
PassedAddresses ==
    fetching # <<>> =>
        /\ ~completed
        /\ \A a \in AddressSet : (\E k \in DOMAIN fetching : fetching[k] = a) \/ toBlock - StartFrom(a) < Batch

TxTypes ==
    /\ TxTypeOK
    /\ toBlock \in 0 .. txHead /\ fromBlock \in Nat /\ endBlock \in Nat
    /\ fetching \in Seq(AddressSet) /\ kinds \in Seq(KindNames)
    /\ \A k, l \in DOMAIN fetching : fetching[k] = fetching[l] => k = l

TxInv == TxTypes /\ BatchInv /\ PassedAddresses /\ NothingSkipped /\ CompletedLeavesLessThanBatch

(* The kinds of transactions that are fetched for an address.              *)
LEMMA KindsAre == \A a : Kinds(a) \in Seq(KindNames)
  <1>1. \A a : \/ Kinds(a) = <<"normal", "internal", "erc20">> \/ Kinds(a) = <<"normal", "internal">>
                \/ Kinds(a) = <<"erc20">> \/ Kinds(a) = <<>>
    BY Zenon DEF Kinds
  <1>2. /\ <<"normal", "internal", "erc20">> \in Seq(KindNames) /\ <<"normal", "internal">> \in Seq(KindNames)
        /\ <<"erc20">> \in Seq(KindNames) /\ <<>> \in Seq(KindNames)
    BY DEF KindNames
  <1> QED  BY <1>1, <1>2

(* A fetch starts at a block.                                              *)
LEMMA StartFromIs ==
    ASSUME TxTypes, NEW a \in AddressSet
    PROVE  StartFrom(a) \in Nat
  BY TxAssumption DEF TxTypes, TxTypeOK, StartFrom

(* Nothing is fetched and no marker set at first.                          *)
LEMMA TxInitInv == TxInit => TxInv
  <1> SUFFICES ASSUME TxInit
               PROVE  TxInv
    OBVIOUS
  <1>1. fetching \in Seq(AddressSet) /\ kinds \in Seq(KindNames) /\ DOMAIN fetching = {}
    BY EmptySeq DEF TxInit
  <1>2. TxTypeOK
    BY TxAssumption DEF TxInit, TxTypeOK
  <1>3. TxTypes
    BY <1>1, <1>2 DEF TxInit, TxTypes
  <1> QED
    BY <1>3 DEF TxInit, TxInv, BatchInv, PassedAddresses, NothingSkipped, CompletedLeavesLessThanBatch, WantedFrom

(* The first batch of an address.                                          *)
LEMMA StartAddressIs ==
    ASSUME TxTypes, NEW a \in AddressSet, NEW to \in Nat, StartAddress(a, to)
    PROVE  /\ fromBlock' = StartFrom(a) /\ fromBlock' \in Nat /\ endBlock' = fromBlock' + Batch
           /\ kinds' \in Seq(KindNames)
           /\ kinds' # <<>> => endBlock' <= to
           /\ endBlock' <= to => kinds' = Kinds(a)
  <1>1. kinds' \in Seq(KindNames)
    BY KindsAre, EmptySeq DEF StartAddress
  <1> QED  BY <1>1, StartFromIs DEF StartAddress

(* The first address has less than a batch left: the run goes on to the    *)
(* next one, or it is completed.                                           *)
LEMMA NextAddressStep ==
    ASSUME TxInv, NEW first, fetching # <<>>, fetching[1] = first, NextAddress, UNCHANGED <<txHead, stored, txLinks, toBlock, txCrashes>>,
           lastInserted' \in [AddressSet -> {Unset} \cup 0 .. txHead],
           \A b \in AddressSet : b # first => lastInserted'[b] = lastInserted[b],
           toBlock' - StartFrom(first)' < Batch,
           NothingSkipped'
    PROVE  TxInv'
  <1> USE TxAssumption
  <1>1. /\ fetching[1] \in AddressSet /\ Tail(fetching) \in Seq(AddressSet)
        /\ Len(fetching) \in Nat \ {0} /\ DOMAIN fetching = 1 .. Len(fetching)
        /\ DOMAIN Tail(fetching) = 1 .. Len(fetching) - 1
        /\ \A k \in 1 .. Len(fetching) - 1 : Tail(fetching)[k] = fetching[k + 1]
        /\ Len(fetching) > 1 <=> Tail(fetching) # <<>>
    BY TailIs DEF TxInv, TxTypes
  <1>2. fetching' = Tail(fetching) /\ \A k, l \in DOMAIN fetching' : fetching'[k] = fetching'[l] => k = l
    <2>1. fetching' = Tail(fetching) /\ \A k, l \in DOMAIN fetching : fetching[k] = fetching[l] => k = l
      BY DEF NextAddress, TxInv, TxTypes
    <2>2. \A k \in 1 .. Len(fetching) - 1 : k + 1 \in DOMAIN fetching /\ fetching'[k] = fetching[k + 1]
      BY <1>1, <2>1
    <2>3. DOMAIN fetching' = 1 .. Len(fetching) - 1
      BY <1>1, <2>1
    <2> QED  BY <1>1, <2>1, <2>2, <2>3
  <1>3. \A b \in AddressSet : b # first => StartFrom(b)' = StartFrom(b)
    BY DEF StartFrom
  <1>4. \A b \in AddressSet : (\E k \in DOMAIN fetching' : fetching'[k] = b) \/ toBlock' - StartFrom(b)' < Batch
    <2> SUFFICES ASSUME NEW b \in AddressSet, b # first
                 PROVE  (\E k \in DOMAIN fetching' : fetching'[k] = b) \/ toBlock' - StartFrom(b)' < Batch
      OBVIOUS
    <2>1. CASE toBlock - StartFrom(b) < Batch
      BY <1>3, <2>1
    <2>2. ASSUME NEW k \in DOMAIN fetching, fetching[k] = b
          PROVE  \E l \in DOMAIN fetching' : fetching'[l] = b
      <3>1. k - 1 \in DOMAIN fetching' /\ fetching'[k - 1] = fetching[k]
        BY <1>1, <1>2, <2>2
      <3> QED  BY <2>2, <3>1
    <2> QED  BY <2>1, <2>2 DEF TxInv, PassedAddresses
  <1>5. CASE Len(fetching) > 1
    <2>0. PICK a : a = fetching[2]
      OBVIOUS
    <2>1. a \in AddressSet /\ a # first /\ fetching'[1] = a /\ fetching' # <<>>
      <3>1. 2 \in 1 .. Len(fetching) /\ a \in AddressSet /\ 1 \in 1 .. Len(fetching)
        BY <1>1, <1>5, <2>0, ElementOfSeq DEF TxInv, TxTypes
      <3>2. 1 \in 1 .. Len(fetching) - 1 /\ Tail(fetching)[1] = a
        BY <1>1, <1>5, <2>0
      <3>3. fetching[2] # fetching[1]
        <4>1. \A k, l \in DOMAIN fetching : fetching[k] = fetching[l] => k = l
          BY DEF TxInv, TxTypes
        <4> QED  BY <1>1, <3>1, <4>1
      <3>4. fetching' = Tail(fetching) /\ Tail(fetching) # <<>>
        BY <1>1, <1>2, <1>5
      <3> QED  BY <2>0, <3>1, <3>2, <3>3, <3>4
    <2>2. StartAddress(a, toBlock) /\ completed' = completed
      BY <1>5, <2>0 DEF NextAddress
    <2>3. toBlock \in Nat
      BY DEF TxInv, TxTypes, TxTypeOK
    <2>4. /\ fromBlock' = StartFrom(a) /\ fromBlock' \in Nat /\ endBlock' = fromBlock' + Batch
          /\ kinds' \in Seq(KindNames)
          /\ kinds' # <<>> => endBlock' <= toBlock
          /\ endBlock' <= toBlock => kinds' = Kinds(a)
      BY <2>1, <2>2, <2>3, StartAddressIs DEF TxInv
    <2>5. StartFrom(a)' = StartFrom(a)
      BY <1>3, <2>1
    <2>6. TxTypes'
      <3>1. TxTypeOK'
        BY <2>1, <2>4 DEF TxInv, TxTypes, TxTypeOK
      <3>2. toBlock' \in 0 .. txHead' /\ endBlock' \in Nat
        BY <2>3, <2>4 DEF TxInv, TxTypes, TxTypeOK
      <3> HIDE DEF TxTypeOK
      <3> QED  BY <1>1, <1>2, <2>4, <3>1, <3>2 DEF TxTypes
    <2>7. BatchInv'
      BY <2>1, <2>4, <2>5 DEF BatchInv, WantedFrom
    <2>8. PassedAddresses'
      BY <1>4, <2>2 DEF TxInv, PassedAddresses
    <2>9. CompletedLeavesLessThanBatch'
      BY <2>2 DEF TxInv, PassedAddresses, CompletedLeavesLessThanBatch
    <2> QED  BY <2>6, <2>7, <2>8, <2>9 DEF TxInv
  <1>6. CASE ~(Len(fetching) > 1)
    <2>1. kinds' = <<>> /\ completed' = TRUE /\ UNCHANGED <<fromBlock, endBlock>> /\ fetching' = <<>>
      BY <1>1, <1>2, <1>6 DEF NextAddress
    <2>2. DOMAIN fetching' = {} /\ kinds' \in Seq(KindNames) /\ fetching' \in Seq(AddressSet)
      BY <2>1, EmptySeq
    <2>3. TxTypes'
      <3>1. TxTypeOK'
        BY <2>1 DEF TxInv, TxTypes, TxTypeOK
      <3> QED  BY <2>1, <2>2, <3>1 DEF TxInv, TxTypes
    <2>4. BatchInv' /\ PassedAddresses'
      BY <2>1 DEF BatchInv, PassedAddresses
    <2>5. CompletedLeavesLessThanBatch'
      BY <1>4, <2>2 DEF CompletedLeavesLessThanBatch, StartFrom
    <2> QED  BY <2>3, <2>4, <2>5 DEF TxInv
  <1> QED  BY <1>5, <1>6

(* Every step of the fetcher keeps its invariant.                          *)
LEMMA TxStep ==
    ASSUME TxInv, TxNext \/ UNCHANGED txVars
    PROVE  TxInv'
  <1> USE TxAssumption
  <1>1. CASE MineTxs
    BY <1>1 DEF MineTxs, runVars, batchVars, TxInv, TxTypes, TxTypeOK, BatchInv, PassedAddresses, NothingSkipped,
                CompletedLeavesLessThanBatch, StartFrom, WantedFrom
  <1>2. ASSUME NEW to \in 0 .. txHead, StartRun(to)
        PROVE  TxInv'
    <2>1. /\ fetching' = Addresses /\ toBlock' = to /\ StartAddress(Addresses[1], to) /\ completed' = FALSE
          /\ UNCHANGED <<txHead, stored, txLinks, lastInserted, txCrashes>>
      BY <1>2 DEF StartRun
    <2>2. Addresses[1] \in AddressSet /\ to \in Nat /\ DOMAIN Addresses = 1 .. Len(Addresses)
      BY TailIs DEF TxInv, TxTypes, TxTypeOK
    <2>3. /\ fromBlock' = StartFrom(Addresses[1]) /\ fromBlock' \in Nat /\ endBlock' = fromBlock' + Batch
          /\ kinds' \in Seq(KindNames)
          /\ kinds' # <<>> => endBlock' <= to
          /\ endBlock' <= to => kinds' = Kinds(Addresses[1])
      BY <2>1, <2>2, StartAddressIs DEF TxInv
    <2>4. TxTypes'
      <3>1. TxTypeOK'
        BY <2>1, <2>3 DEF TxInv, TxTypes, TxTypeOK
      <3>2. toBlock' \in 0 .. txHead' /\ endBlock' \in Nat
        BY <2>1, <2>3
      <3> QED  BY <2>1, <2>3, <3>1, <3>2 DEF TxTypes
    <2>5. BatchInv'
      BY <2>1, <2>2, <2>3 DEF BatchInv, StartFrom, WantedFrom
    <2>6. PassedAddresses'
      BY <2>1, <2>2 DEF PassedAddresses, AddressSet
    <2> QED
      BY <2>1, <2>4, <2>5, <2>6 DEF TxInv, NothingSkipped, CompletedLeavesLessThanBatch, WantedFrom
  <1>3. CASE StoreTxs
    <2>1. /\ kinds # <<>> /\ kinds' = Tail(kinds) /\ stored' = stored \cup Fetched
          /\ txLinks' = txLinks \cup (Linked(Fetched) \X {fetching[1]})
          /\ UNCHANGED <<txHead, lastInserted, fetching, fromBlock, endBlock, toBlock, completed, txCrashes>>
      BY <1>3 DEF StoreTxs
    <2>2. fetching # <<>> /\ endBlock <= toBlock
      BY <2>1 DEF TxInv, TxTypes, TxTypeOK
    <2>3. fetching[1] \in AddressSet
      BY <2>2, TailIs DEF TxInv, TxTypes
    <2>4. /\ Tail(kinds) \in Seq(KindNames)
          /\ DOMAIN kinds = 1 .. Len(kinds) /\ Len(kinds) \in Nat \ {0} /\ DOMAIN Tail(kinds) = 1 .. Len(kinds) - 1
          /\ \A k \in 1 .. Len(kinds) - 1 : Tail(kinds)[k] = kinds[k + 1]
      BY <2>1, TailIs DEF TxInv, TxTypes
    <2>5. Linked(Fetched) \subseteq Fetched /\ Fetched \subseteq Txs
      BY DEF Linked, Fetched
    <2>6. TxTypes'
      BY <2>1, <2>2, <2>3, <2>4, <2>5 DEF TxInv, TxTypes, TxTypeOK
    <2>7. ASSUME NEW t \in WantedFrom(fetching[1]), t.block >= fromBlock, t.block < endBlock
          PROVE  t \in stored' \/ \E k \in DOMAIN kinds' : kinds'[k] = t.kind
      <3>1. CASE t \in stored
        BY <2>1, <3>1
      <3>2. ASSUME NEW k \in DOMAIN kinds, kinds[k] = t.kind, k = 1
            PROVE  t \in stored'
        BY <2>1, <2>7, <3>2 DEF Fetched, WantedFrom, TxInv, TxTypes
      <3>3. ASSUME NEW k \in DOMAIN kinds, kinds[k] = t.kind, k # 1
            PROVE  \E l \in DOMAIN kinds' : kinds'[l] = t.kind
        <4>1. k - 1 \in DOMAIN kinds' /\ kinds'[k - 1] = kinds[k]
          BY <2>1, <2>4, <3>3
        <4> QED  BY <3>3, <4>1
      <3> QED  BY <2>2, <2>7, <3>1, <3>2, <3>3 DEF TxInv, BatchInv
    <2>8. BatchInv'
      BY <2>1, <2>7 DEF TxInv, BatchInv, StartFrom, WantedFrom
    <2> QED
      BY <2>1, <2>6, <2>8 DEF TxInv, PassedAddresses, NothingSkipped, CompletedLeavesLessThanBatch, WantedFrom, StartFrom
  <1>4. CASE AddressDone
    <2>1. /\ fetching # <<>> /\ kinds = <<>> /\ endBlock > toBlock /\ NextAddress
          /\ UNCHANGED <<txHead, stored, txLinks, lastInserted, toBlock, txCrashes>>
      BY <1>4 DEF AddressDone
    <2>0. PICK a : a = fetching[1]
      OBVIOUS
    <2>2. a \in AddressSet /\ StartFrom(a) \in Nat
      BY <2>0, <2>1, TailIs, StartFromIs DEF TxInv, TxTypes
    <2>3. toBlock - StartFrom(a) < Batch
      BY <2>0, <2>1, <2>2 DEF TxInv, BatchInv, TxTypes
    <2>4. toBlock' - StartFrom(a)' < Batch
      BY <2>1, <2>3 DEF StartFrom
    <2>5. lastInserted' \in [AddressSet -> {Unset} \cup 0 .. txHead] /\ \A b \in AddressSet : b # a => lastInserted'[b] = lastInserted[b]
      BY <2>1 DEF TxInv, TxTypes, TxTypeOK
    <2>6. NothingSkipped'
      BY <2>1 DEF TxInv, NothingSkipped, WantedFrom
    <2> QED  BY <2>0, <2>1, <2>2, <2>4, <2>5, <2>6, NextAddressStep
  <1>5. CASE StoreLastInserted
    <2>0. PICK a : a = fetching[1]
      OBVIOUS
    <2>1. /\ fetching # <<>> /\ kinds = <<>> /\ endBlock <= toBlock
          /\ lastInserted' = [lastInserted EXCEPT ![a] = endBlock]
          /\ UNCHANGED <<txHead, stored, txLinks, toBlock, txCrashes>>
      BY <1>5, <2>0 DEF StoreLastInserted
    <2>2. a \in AddressSet /\ StartFrom(a) \in Nat
      BY <2>0, <2>1, TailIs, StartFromIs DEF TxInv, TxTypes
    <2>3. /\ lastInserted' \in [AddressSet -> {Unset} \cup 0 .. txHead]
          /\ lastInserted'[a] = endBlock /\ \A b \in AddressSet : b # a => lastInserted'[b] = lastInserted[b]
      BY <2>1, <2>2 DEF TxInv, TxTypes, TxTypeOK
    <2>4. \A t \in WantedFrom(a) : t.block < endBlock => t \in stored
      <3> SUFFICES ASSUME NEW t \in WantedFrom(a), t.block < endBlock
                   PROVE  t \in stored
        OBVIOUS
      <3>1. t.block \in Nat /\ (FromBlock # Unset => t.block >= FromBlock) /\ fromBlock = StartFrom(a)
        BY <2>0, <2>1 DEF WantedFrom, TxInv, BatchInv
      <3>2. CASE t.block >= fromBlock
        <4>1. DOMAIN kinds = {}
          BY <2>1
        <4> QED  BY <2>0, <2>1, <3>2, <4>1 DEF TxInv, BatchInv
      <3>3. CASE t.block < fromBlock
        <4>1. lastInserted[a] # Unset /\ t.block < lastInserted[a]
          BY <3>1, <3>3 DEF StartFrom
        <4> QED  BY <2>2, <4>1 DEF TxInv, NothingSkipped
      <3> QED  BY <2>2, <3>1, <3>2, <3>3
    <2>5. NothingSkipped'
      <3> SUFFICES ASSUME NEW b \in AddressSet, NEW t \in WantedFrom(b), lastInserted'[b] # Unset, t.block < lastInserted'[b]
                   PROVE  t \in stored'
        BY DEF NothingSkipped, WantedFrom
      <3>1. CASE b = a
        BY <2>1, <2>3, <2>4, <3>1
      <3>2. CASE b # a
        BY <2>1, <2>3, <3>2 DEF TxInv, NothingSkipped
      <3> QED  BY <3>1, <3>2
    <2>6. CASE endBlock = toBlock
      <3>1. NextAddress
        BY <1>5, <2>6 DEF StoreLastInserted
      <3>2. toBlock' - StartFrom(a)' < Batch
        BY <2>1, <2>3, <2>6 DEF StartFrom, TxInv, TxTypes
      <3> QED  BY <2>0, <2>1, <2>2, <2>3, <2>5, <3>1, <3>2, NextAddressStep
    <2>7. CASE endBlock # toBlock
      <3>1. /\ fromBlock' = endBlock
            /\ endBlock' = IF endBlock + Batch <= toBlock THEN endBlock + Batch ELSE toBlock
            /\ kinds' = Kinds(a)
            /\ UNCHANGED <<fetching, completed>>
        BY <1>5, <2>0, <2>7 DEF StoreLastInserted
      <3>2. /\ endBlock \in Nat /\ toBlock \in Nat /\ toBlock <= txHead
            /\ endBlock' \in Nat /\ fromBlock' < endBlock' /\ endBlock' <= toBlock /\ StartFrom(a) < endBlock
            /\ StartFrom(a)' = endBlock
        BY <2>0, <2>1, <2>3, <2>7, <3>1 DEF TxInv, TxTypes, BatchInv, StartFrom
      <3>3. kinds' \in Seq(KindNames)
        BY <3>1, KindsAre
      <3>4. TxTypes'
        <4>1. TxTypeOK'
          BY <2>1, <2>3, <3>1, <3>2 DEF TxInv, TxTypes, TxTypeOK
        <4> QED  BY <2>1, <3>1, <3>2, <3>3, <4>1 DEF TxInv, TxTypes
      <3>5. BatchInv'
        BY <2>0, <2>1, <3>1, <3>2 DEF BatchInv, WantedFrom
      <3>6. \A b \in AddressSet : b # a => StartFrom(b)' = StartFrom(b)
        BY <2>3 DEF StartFrom
      <3>7. PassedAddresses'
        <4>1. \A b \in AddressSet : toBlock - StartFrom(b) < Batch => toBlock' - StartFrom(b)' < Batch
          <5> SUFFICES ASSUME NEW b \in AddressSet, toBlock - StartFrom(b) < Batch
                       PROVE  toBlock' - StartFrom(b)' < Batch
            OBVIOUS
          <5>1. CASE b = a
            BY <2>1, <2>2, <3>2, <5>1
          <5>2. CASE b # a
            BY <2>1, <3>6, <5>2
          <5> QED  BY <5>1, <5>2
        <4> QED  BY <2>1, <3>1, <4>1 DEF TxInv, PassedAddresses
      <3>8. CompletedLeavesLessThanBatch'
        BY <2>1, <3>1 DEF TxInv, PassedAddresses, CompletedLeavesLessThanBatch
      <3> QED  BY <2>5, <3>4, <3>5, <3>7, <3>8 DEF TxInv
    <2> QED  BY <2>6, <2>7
  <1>6. CASE Stop
    <2>1. DOMAIN fetching' = {} /\ fetching' \in Seq(AddressSet) /\ kinds' \in Seq(KindNames)
      BY <1>6, EmptySeq DEF Stop
    <2> QED
      BY <1>6, <2>1 DEF Stop, TxInv, TxTypes, TxTypeOK, BatchInv, PassedAddresses, NothingSkipped,
                CompletedLeavesLessThanBatch, StartFrom, WantedFrom
  <1>7. CASE UNCHANGED txVars
    BY <1>7 DEF txVars, runVars, batchVars, TxInv, TxTypes, TxTypeOK, BatchInv, PassedAddresses, NothingSkipped,
                CompletedLeavesLessThanBatch, StartFrom, WantedFrom
  <1> QED  BY <1>1, <1>2, <1>3, <1>4, <1>5, <1>6, <1>7 DEF TxNext, Working

(* The properties are parts of the invariant.                              *)
LEMMA TxInvImplies == TxInv => TxTypeOK /\ NothingSkipped /\ CompletedLeavesLessThanBatch
  BY DEF TxInv, TxTypes

-----------------------------------------------------------------------------
(* The reserve addresses and their readers.                                *)

(* The history has the rows of every version, and what a reader has read   *)
(* was the content of one of them.                                         *)
AddressesInv ==
    /\ AddressesTypeOK
    /\ lastAddressId \in 0 .. MaxAddressId /\ addressVersion \in 0 .. MaxVersion + lastAddressId
    /\ AddressIds = {} => addressVersion = 0
    /\ DOMAIN rowsOfVersion = 0 .. addressVersion /\ rowsOfVersion[addressVersion] = addressRows
    /\ readRows = [r \in Readers |-> readRows[r]] /\ readVersion = [r \in Readers |-> readVersion[r]]
    /\ \A r \in Readers : readRows[r] # Null => \E v \in 0 .. addressVersion : rowsOfVersion[v] = readRows[r]
    /\ ReadIsNotNewer

(* There is one version at first, of no addresses.                         *)
LEMMA AddressesInitInv == AddressesInit => AddressesInv
  <1> SUFFICES ASSUME AddressesInit
               PROVE  AddressesInv
    OBVIOUS
  <1>1. AddressIds = {} /\ lastAddressId = 0 /\ addressVersion = 0
    BY DEF AddressesInit, AddressIds
  <1>2. AddressesTypeOK
    BY <1>1, AddressesAssumption DEF AddressesInit, AddressesTypeOK, IsInjective
  <1>3. DOMAIN rowsOfVersion = 0 .. addressVersion /\ rowsOfVersion[addressVersion] = addressRows
    BY <1>1 DEF AddressesInit
  <1> QED
    BY <1>1, <1>2, <1>3, AddressesAssumption DEF AddressesInit, AddressesInv, ReadIsNotNewer

(* A statement that writes rows keeps the history.                         *)
LEMMA WriteRowsStep ==
    ASSUME AddressesInv, NEW rows, WriteRows(rows), UNCHANGED readVars
    PROVE  /\ addressRows' = rows
           /\ addressVersion' = IF rows # addressRows THEN addressVersion + 1 ELSE addressVersion
           /\ addressVersion \in Nat
           /\ DOMAIN rowsOfVersion' = 0 .. addressVersion' /\ rowsOfVersion'[addressVersion'] = rows
           /\ readRows' = [r \in Readers |-> readRows'[r]] /\ readVersion' = [r \in Readers |-> readVersion'[r]]
           /\ \A r \in Readers : readRows'[r] # Null => \E v \in 0 .. addressVersion' : rowsOfVersion'[v] = readRows'[r]
           /\ \A r \in Readers : readVersion'[r] \in {Null} \cup 0 .. addressVersion'
           /\ ReadIsNotNewer'
  <1>1. addressVersion \in Nat /\ DOMAIN rowsOfVersion = 0 .. addressVersion
    BY AddressesAssumption DEF AddressesInv
  <1>2. /\ addressRows' = rows
        /\ addressVersion' = IF rows # addressRows THEN addressVersion + 1 ELSE addressVersion
        /\ rowsOfVersion' = [v \in DOMAIN rowsOfVersion \cup {addressVersion'} |->
                                IF v = addressVersion' THEN rows ELSE rowsOfVersion[v]]
    BY DEF WriteRows, With
  <1>3. DOMAIN rowsOfVersion' = 0 .. addressVersion' /\ rowsOfVersion'[addressVersion'] = rows
    BY <1>1, <1>2
  <1>4. \A v \in 0 .. addressVersion : rowsOfVersion'[v] = rowsOfVersion[v]
    BY <1>1, <1>2 DEF AddressesInv
  <1>5. 0 .. addressVersion \subseteq 0 .. addressVersion'
    BY <1>1, <1>2
  <1>6. /\ readRows' = readRows /\ readVersion' = readVersion
        /\ \A r \in Readers : readVersion[r] \in {Null} \cup 0 .. addressVersion
    BY DEF readVars, AddressesInv, AddressesTypeOK
  <1>7. ReadIsNotNewer'
    <2> SUFFICES ASSUME NEW r \in Readers, readRows[r] # Null, readVersion[r] # Null
                 PROVE  \E v \in 0 .. readVersion[r] : rowsOfVersion'[v] = readRows[r]
      BY <1>6 DEF ReadIsNotNewer
    <2>1. PICK v \in 0 .. readVersion[r] : rowsOfVersion[v] = readRows[r]
      BY DEF AddressesInv, ReadIsNotNewer
    <2>2. v \in 0 .. addressVersion
      BY <1>1, <1>6, <2>1
    <2> QED  BY <1>4, <2>1, <2>2
  <1>8. \A r \in Readers : readRows'[r] # Null => \E v \in 0 .. addressVersion' : rowsOfVersion'[v] = readRows'[r]
    BY <1>4, <1>5, <1>6 DEF AddressesInv
  <1> QED  BY <1>1, <1>2, <1>3, <1>5, <1>6, <1>7, <1>8 DEF AddressesInv

(* Every step of storage and reader keeps the invariant.                   *)
LEMMA AddressesStep ==
    ASSUME AddressesInv, AddressesNext \/ UNCHANGED addressVars
    PROVE  AddressesInv'
  <1> USE AddressesAssumption
  <1>1. CASE UNCHANGED addressVars
    BY <1>1 DEF addressVars, readVars, AddressesInv, AddressesTypeOK, AddressIds, ReadIsNotNewer
  <1>2. ASSUME NEW a \in KnownAddresses, NEW t \in AddressTypes, CreateAddress(a, t)
        PROVE  AddressesInv'
    <2>1. lastAddressId < MaxAddressId /\ lastAddressId' = lastAddressId + 1 /\ UNCHANGED readVars
      BY <1>2 DEF CreateAddress
    <2>2. CASE Taken(a, AddressIds)
      <3>1. UNCHANGED <<addressRows, addressVersion, rowsOfVersion>>
        BY <1>2, <2>2 DEF CreateAddress
      <3>2. lastAddressId' \in 0 .. MaxAddressId
            /\ addressVersion \in 0 .. MaxVersion + lastAddressId'
            /\ addressVersion \in 0 .. MaxVersion + MaxAddressId
            /\ AddressIds \subseteq 1 .. lastAddressId'
        BY <2>1 DEF AddressesInv, AddressesTypeOK
      <3> QED
        BY <2>1, <3>1, <3>2 DEF readVars, AddressesInv, AddressesTypeOK, AddressIds, ReadIsNotNewer
    <2>3. ASSUME ~Taken(a, AddressIds)
          PROVE  AddressesInv'
      <3>1. PICK ts \in Timestamps(a) :
                WriteRows(With(addressRows, lastAddressId', [address |-> a, type |-> t, timestamp |-> ts]))
        BY <1>2, <2>3 DEF CreateAddress
      <3> DEFINE row == [address |-> a, type |-> t, timestamp |-> ts]
                 rows == With(addressRows, lastAddressId', row)
      <3>2. PICK id : id = lastAddressId + 1
        OBVIOUS
      <3>3. rows = [i \in AddressIds \cup {id} |-> IF i = id THEN row ELSE addressRows[i]] /\ id \notin AddressIds
        BY <2>1, <3>2 DEF With, AddressIds, AddressesInv, AddressesTypeOK
      <3>4. WriteRows(rows)
        BY <3>1
      <3> HIDE DEF rows
      <3>5. /\ addressRows' = rows
            /\ addressVersion' = IF rows # addressRows THEN addressVersion + 1 ELSE addressVersion
            /\ addressVersion \in Nat
            /\ DOMAIN rowsOfVersion' = 0 .. addressVersion' /\ rowsOfVersion'[addressVersion'] = rows
            /\ readRows' = [r \in Readers |-> readRows'[r]] /\ readVersion' = [r \in Readers |-> readVersion'[r]]
            /\ \A r \in Readers : readRows'[r] # Null => \E v \in 0 .. addressVersion' : rowsOfVersion'[v] = readRows'[r]
            /\ \A r \in Readers : readVersion'[r] \in {Null} \cup 0 .. addressVersion'
            /\ ReadIsNotNewer'
        BY <2>1, <3>4, WriteRowsStep
      <3>6. /\ lastAddressId' \in 0 .. MaxAddressId
            /\ addressVersion' \in 0 .. MaxVersion + lastAddressId'
            /\ addressVersion' \in 0 .. MaxVersion + MaxAddressId
        BY <2>1, <3>5 DEF AddressesInv
      <3>7. /\ AddressIds' = AddressIds \cup {id} /\ addressRows'[id] = row
            /\ \A i \in AddressIds : addressRows'[i] = addressRows[i]
        BY <3>3, <3>5 DEF AddressIds
      <3>8. \A i \in AddressIds : addressRows[i].address # a
        BY <2>3 DEF Taken
      <3>9. IsInjective([i \in AddressIds |-> addressRows[i].address])'
        BY <3>3, <3>7, <3>8 DEF IsInjective, AddressesInv, AddressesTypeOK
      <3>10. AddressIds' \subseteq 1 .. lastAddressId'
        BY <2>1, <3>2, <3>7 DEF AddressesInv, AddressesTypeOK
      <3>11. \A i \in AddressIds' :
               /\ addressRows'[i].address \in KnownAddresses /\ addressRows'[i].type \in AddressTypes
               /\ addressRows'[i].timestamp \in KnownAddresses \cup {NotGiven, Null}
        BY <3>7 DEF AddressesInv, AddressesTypeOK, Timestamps
      <3>12. AddressesTypeOK'
        BY <3>5, <3>6, <3>9, <3>10, <3>11 DEF AddressesTypeOK
      <3> QED  BY <3>5, <3>6, <3>7, <3>12 DEF AddressesInv
    <2> QED  BY <2>2, <2>3
  <1>3. ASSUME NEW id \in AddressIds, NEW a \in KnownAddresses \cup {NotGiven}, NEW t \in AddressTypes \cup {NotGiven},
               addressVersion < MaxVersion, UpdateAddress(id, a, t)
        PROVE  AddressesInv'
    <2>1. UNCHANGED <<lastAddressId, readVars>> /\ (a # NotGiven => ~Taken(a, AddressIds \ {id}))
      BY <1>3 DEF UpdateAddress
    <2>2. PICK ts \in Timestamps(a) :
              WriteRows([addressRows EXCEPT ![id] =
                  [address |-> IF a # NotGiven THEN a ELSE @.address,
                   type |-> IF t # NotGiven THEN t ELSE @.type,
                   timestamp |-> ts]])
      BY <1>3 DEF UpdateAddress
    <2> DEFINE row == [address |-> IF a # NotGiven THEN a ELSE addressRows[id].address,
                       type |-> IF t # NotGiven THEN t ELSE addressRows[id].type,
                       timestamp |-> ts]
               rows == [addressRows EXCEPT ![id] = row]
    <2>3. WriteRows(rows) /\ UNCHANGED readVars
      BY <2>1, <2>2
    <2>4. DOMAIN rows = AddressIds /\ rows[id] = row /\ \A i \in AddressIds : i # id => rows[i] = addressRows[i]
      BY DEF AddressIds
    <2> HIDE DEF rows
    <2>5. /\ addressRows' = rows
          /\ addressVersion' = IF rows # addressRows THEN addressVersion + 1 ELSE addressVersion
          /\ addressVersion \in Nat
          /\ DOMAIN rowsOfVersion' = 0 .. addressVersion' /\ rowsOfVersion'[addressVersion'] = rows
          /\ readRows' = [r \in Readers |-> readRows'[r]] /\ readVersion' = [r \in Readers |-> readVersion'[r]]
          /\ \A r \in Readers : readRows'[r] # Null => \E v \in 0 .. addressVersion' : rowsOfVersion'[v] = readRows'[r]
          /\ \A r \in Readers : readVersion'[r] \in {Null} \cup 0 .. addressVersion'
          /\ ReadIsNotNewer'
      BY <2>3, WriteRowsStep
    <2>6. /\ lastAddressId' = lastAddressId
          /\ addressVersion' \in 0 .. MaxVersion + lastAddressId'
          /\ addressVersion' \in 0 .. MaxVersion + MaxAddressId
      BY <1>3, <2>1, <2>5 DEF AddressesInv
    <2>7. AddressIds' = AddressIds /\ addressRows'[id] = row
          /\ \A i \in AddressIds : i # id => addressRows'[i] = addressRows[i]
      BY <2>4, <2>5 DEF AddressIds
    <2>8. row.address \in KnownAddresses /\ row.type \in AddressTypes /\ row.timestamp \in KnownAddresses \cup {NotGiven, Null}
      BY DEF AddressesInv, AddressesTypeOK, Timestamps
    <2>9. \A i \in AddressIds : i # id => addressRows[i].address # row.address
      BY <2>1 DEF Taken, IsInjective, AddressesInv, AddressesTypeOK
    <2> HIDE DEF row
    <2>10. \A i, j \in AddressIds : addressRows'[i].address = addressRows'[j].address => i = j
      <3>1. \A i, j \in AddressIds : addressRows[i].address = addressRows[j].address => i = j
        BY DEF IsInjective, AddressesInv, AddressesTypeOK
      <3> QED  BY <2>7, <2>9, <3>1
    <2>11. IsInjective([i \in AddressIds |-> addressRows[i].address])'
      BY <2>7, <2>10 DEF IsInjective
    <2>12. AddressesTypeOK'
      <3>1. AddressIds \subseteq 1 .. lastAddressId
            /\ \A i \in AddressIds :
               /\ addressRows[i].address \in KnownAddresses /\ addressRows[i].type \in AddressTypes
               /\ addressRows[i].timestamp \in KnownAddresses \cup {NotGiven, Null}
        BY DEF AddressesInv, AddressesTypeOK
      <3> QED  BY <2>5, <2>6, <2>7, <2>8, <2>11, <3>1 DEF AddressesTypeOK
    <2> QED  BY <2>5, <2>6, <2>7, <2>12 DEF AddressesInv
  <1>4. ASSUME NEW r \in Readers, GetAll(r)
        PROVE  AddressesInv'
    <2>1. UNCHANGED <<addressRows, lastAddressId, addressVersion, rowsOfVersion>>
      BY <1>4 DEF GetAll
    <2>2. CASE /\ readRows[r] = Null \/ readVersion[r] # Null
               /\ readRows' = [readRows EXCEPT ![r] = addressRows]
               /\ readVersion' = [readVersion EXCEPT ![r] = IF AddressIds = {} THEN 0 ELSE Null]
      <3>1. \A q \in Readers : /\ readRows'[q] = IF q = r THEN addressRows ELSE readRows[q]
                               /\ readVersion'[q] = IF q # r THEN readVersion[q]
                                                    ELSE IF AddressIds = {} THEN 0 ELSE Null
        BY <2>2 DEF AddressesInv
      <3>2. addressVersion \in Nat
        BY DEF AddressesInv
      <3>3. readRows' = [q \in Readers |-> readRows'[q]] /\ readVersion' = [q \in Readers |-> readVersion'[q]]
        BY <2>2 DEF AddressesInv
      <3>4. AddressesTypeOK'
        BY <2>1, <3>1, <3>2 DEF AddressesInv, AddressesTypeOK, AddressIds
      <3>5. ReadIsNotNewer'
        BY <2>1, <3>1, <3>2 DEF AddressesInv, ReadIsNotNewer
      <3> QED  BY <2>1, <3>1, <3>2, <3>3, <3>4, <3>5 DEF AddressesInv, AddressIds
    <2>3. CASE /\ readRows[r] # Null /\ readVersion[r] = Null
               /\ readVersion' = [readVersion EXCEPT ![r] = addressVersion]
               /\ UNCHANGED readRows
      <3>1. \A q \in Readers : readVersion'[q] = IF q = r THEN addressVersion ELSE readVersion[q]
        BY <2>3 DEF AddressesInv
      <3>2. addressVersion \in Nat
        BY DEF AddressesInv
      <3>3. readVersion' = [q \in Readers |-> readVersion'[q]]
        BY <2>3 DEF AddressesInv
      <3>4. AddressesTypeOK'
        BY <2>1, <3>1, <3>2 DEF AddressesInv, AddressesTypeOK, AddressIds
      <3>5. ReadIsNotNewer'
        BY <2>1, <2>3, <3>1, <3>2 DEF AddressesInv, ReadIsNotNewer
      <3> QED  BY <2>1, <2>3, <3>1, <3>2, <3>3, <3>4, <3>5 DEF AddressesInv, AddressIds
    <2> QED  BY <1>4, <2>2, <2>3 DEF GetAll
  <1> QED  BY <1>1, <1>2, <1>3, <1>4 DEF AddressesNext

(* The rows are the same while the version is.                             *)
LEMMA RowsChangeWithTheVersion ==
    ASSUME AddressesInv, AddressesNext \/ UNCHANGED addressVars, addressVersion' = addressVersion
    PROVE  addressRows' = addressRows
  <1>1. addressVersion \in Nat
    BY AddressesAssumption DEF AddressesInv
  <1>2. \A rows : WriteRows(rows) => addressRows' = addressRows
    BY <1>1 DEF WriteRows
  <1> QED
    BY <1>2 DEF AddressesNext, CreateAddress, UpdateAddress, GetAll, addressVars

-----------------------------------------------------------------------------
(* The listed tokens.                                                      *)

CurrentOf(r, t) == Current(SameKey(t, atBlock[r]))

(* What a save of reserve r leaves: its tokens are linked to it, and the   *)
(* current one of a key is the parent of the others.                       *)
SavedAs(r) ==
    \A t \in atBlock[r] :
        /\ t \in Stored /\ <<t, r>> \in tokenLinks
        /\ parentOf[t] = IF t = CurrentOf(r, t) THEN NoParent ELSE CurrentOf(r, t)

(* As long as the reserves agree, the save of one does not undo that of    *)
(* another.                                                                *)
SavesStay ==
    Agree =>
        /\ settled => \A r \in Listers : SavedAs(r)
        /\ todo # {} => \A r \in Listers \ todo : SavedAs(r)

TokensInv ==
    /\ TokensTypeOK
    /\ parentOf = [t \in Stored |-> parentOf[t]]
    /\ listed \in [Listers -> SUBSET Tokens] /\ atBlock \in [Listers -> SUBSET Tokens]
    /\ SavesStay

(* The oldest token.                                                       *)
LEMMA CurrentIs ==
    ASSUME NEW T \in SUBSET Tokens, T # {}
    PROVE  Current(T) \in T
  <1> DEFINE times == {TimeOf[t] : t \in T}
  <1>1. times \in SUBSET Nat /\ times # {}
    BY TokensAssumption
  <1>2. PICK m \in times : \A n \in times : m <= n
    BY <1>1, LeastNatural
  <1>3. \E c \in T : \A u \in T : TimeOf[c] <= TimeOf[u]
    BY <1>2
  <1> QED  BY <1>3 DEF Current

(* The token that is current for another one is listed and has its key.    *)
LEMMA CurrentOfIs ==
    ASSUME TokensInv, NEW r \in Listers, NEW t \in atBlock[r]
    PROVE  CurrentOf(r, t) \in atBlock[r] /\ KeyOf[CurrentOf(r, t)] = KeyOf[t]
  <1>1. SameKey(t, atBlock[r]) \in SUBSET Tokens /\ t \in SameKey(t, atBlock[r])
    BY DEF SameKey, TokensInv
  <1>2. CurrentOf(r, t) \in SameKey(t, atBlock[r])
    BY <1>1, CurrentIs DEF CurrentOf
  <1> QED  BY <1>2 DEF SameKey

(* What a save leaves: the listed tokens, with the old ones below them.    *)
LEMMA SaveTokensIs ==
    ASSUME TokensInv, NEW r \in Listers
    PROVE  SaveTokens(atBlock[r]) =
               [t \in Stored \cup atBlock[r] |->
                   IF t \notin atBlock[r] THEN parentOf[t]
                   ELSE IF t = CurrentOf(r, t) THEN NoParent ELSE CurrentOf(r, t)]
  BY DEF SaveTokens, CurrentOf

(* No token is listed or stored at first.                                  *)
LEMMA TokensInitInv == TokensInit => TokensInv
  <1> SUFFICES ASSUME TokensInit
               PROVE  TokensInv
    OBVIOUS
  <1>1. Stored = {} /\ todo = {} /\ settled = FALSE
    BY DEF TokensInit, Stored
  <1> QED  BY <1>1 DEF TokensInit, TokensInv, TokensTypeOK, SavesStay

(* CreateOrUpdate of reserve q.                                            *)
LEMMA SaveStep ==
    ASSUME TokensInv, NEW q \in Listers, CreateOrUpdateTokens(q)
    PROVE  TokensInv'
  <1>1. /\ q \in todo /\ todo' = todo \ {q}
        /\ parentOf' = SaveTokens(atBlock[q]) /\ tokenLinks' = tokenLinks \cup (atBlock[q] \X {q})
        /\ tokensVersion' \in {tokensVersion, tokensVersion + 1}
        /\ settled' = (settled \/ todo = {q})
        /\ UNCHANGED <<listed, atBlock, listings, runStops>>
    BY DEF CreateOrUpdateTokens
  <1>2. /\ parentOf' = [t \in Stored \cup atBlock[q] |->
                  IF t \notin atBlock[q] THEN parentOf[t]
                  ELSE IF t = CurrentOf(q, t) THEN NoParent ELSE CurrentOf(q, t)]
    BY <1>1, SaveTokensIs
  <1>3. Stored' = Stored \cup atBlock[q]
    BY <1>2 DEF Stored
  <1>4. atBlock[q] \subseteq Tokens /\ Stored \subseteq Tokens /\ todo \subseteq Listers
    BY DEF TokensInv, TokensTypeOK
  <1>5. /\ \A t \in atBlock[q] : parentOf'[t] = IF t = CurrentOf(q, t) THEN NoParent ELSE CurrentOf(q, t)
        /\ \A t \in Stored : t \notin atBlock[q] => parentOf'[t] = parentOf[t]
    BY <1>2
  <1>6. \A t \in Stored' : parentOf'[t] # NoParent =>
            parentOf'[t] \in Stored' \ {t} /\ KeyOf[parentOf'[t]] = KeyOf[t]
    <2> SUFFICES ASSUME NEW t \in Stored', parentOf'[t] # NoParent
                 PROVE  parentOf'[t] \in Stored' \ {t} /\ KeyOf[parentOf'[t]] = KeyOf[t]
      OBVIOUS
    <2>1. CASE t \in atBlock[q]
      BY <1>3, <1>5, <2>1, CurrentOfIs
    <2>2. CASE t \notin atBlock[q]
      BY <1>3, <1>5, <2>2 DEF TokensInv, TokensTypeOK
    <2> QED  BY <2>1, <2>2
  <1>7. TokensTypeOK'
    <2>1. tokenLinks' \subseteq Stored' \X Listers
      BY <1>1, <1>3 DEF TokensInv, TokensTypeOK
    <2>2. tokensVersion' \in Nat
      BY <1>1 DEF TokensInv, TokensTypeOK
    <2> QED  BY <1>1, <1>3, <1>4, <1>6, <2>1, <2>2 DEF TokensTypeOK
  <1>8. parentOf' = [t \in Stored' |-> parentOf'[t]]
    BY <1>2, <1>3
  <1>9. \A r \in Listers : \A t : CurrentOf(r, t)' = CurrentOf(r, t)
    BY <1>1 DEF CurrentOf, SameKey
  <1>10. Agree' => Agree
    BY <1>1 DEF Agree, SameKey
  <1>11. SavedAs(q)'
    BY <1>1, <1>3, <1>5, <1>9 DEF SavedAs
  <1>12. ASSUME Agree, NEW r \in Listers, SavedAs(r)
         PROVE  SavedAs(r)'
    <2> SUFFICES ASSUME NEW t \in atBlock[r]
                 PROVE  /\ t \in Stored' /\ <<t, r>> \in tokenLinks'
                        /\ parentOf'[t] = IF t = CurrentOf(r, t) THEN NoParent ELSE CurrentOf(r, t)
      BY <1>1, <1>9 DEF SavedAs
    <2>1. /\ t \in Stored /\ <<t, r>> \in tokenLinks
          /\ parentOf[t] = IF t = CurrentOf(r, t) THEN NoParent ELSE CurrentOf(r, t)
      BY <1>12 DEF SavedAs
    <2>2. CASE t \in atBlock[q]
      <3>1. t \in SameKey(t, atBlock[q])
        BY <2>2 DEF SameKey
      <3>2. CurrentOf(q, t) = CurrentOf(r, t)
        BY <1>12, <3>1 DEF Agree, CurrentOf
      <3> QED  BY <1>1, <1>3, <1>5, <2>1, <2>2, <3>2
    <2>3. CASE t \notin atBlock[q]
      BY <1>1, <1>3, <1>5, <2>1, <2>3
    <2> QED  BY <2>2, <2>3
  <1>13. SavesStay'
    <2> SUFFICES ASSUME Agree
                 PROVE  /\ settled' => \A r \in Listers : SavedAs(r)'
                        /\ todo' # {} => \A r \in Listers \ todo' : SavedAs(r)'
      BY <1>10 DEF SavesStay
    <2>1. \A r \in Listers \ todo : SavedAs(r)'
      BY <1>1, <1>12 DEF TokensInv, SavesStay
    <2>2. settled => \A r \in Listers : SavedAs(r)'
      BY <1>12 DEF TokensInv, SavesStay
    <2> QED  BY <1>1, <1>11, <2>1, <2>2
  <1> QED  BY <1>1, <1>7, <1>8, <1>13 DEF TokensInv

(* Every step of the fetcher keeps its invariant.                          *)
LEMMA TokensStep ==
    ASSUME TokensInv, TokensNext \/ UNCHANGED tokensVars
    PROVE  TokensInv'
  <1>1. ASSUME UNCHANGED <<atBlock, parentOf, tokenLinks>>
        PROVE  /\ Stored' = Stored /\ (Agree' => Agree)
               /\ \A r \in Listers : SavedAs(r) => SavedAs(r)'
    BY <1>1 DEF Stored, Agree, SameKey, SavedAs, CurrentOf
  <1>2. CASE UNCHANGED tokensVars
    BY <1>1, <1>2 DEF tokensVars, TokensInv, TokensTypeOK, SavesStay
  <1>3. ASSUME NEW r \in Listers, NEW t \in Tokens, ChangeListing(r, t)
        PROVE  TokensInv'
    BY <1>1, <1>3 DEF ChangeListing, TokensInv, TokensTypeOK, SavesStay
  <1>4. CASE StartTokensRun
    <2>1. /\ todo = {} /\ todo' = Listers /\ atBlock' = listed /\ settled' = (settled /\ listed = atBlock)
          /\ UNCHANGED <<listed, parentOf, tokenLinks, tokensVersion, listings, runStops>> /\ Stored' = Stored
      BY <1>4 DEF StartTokensRun, Stored
    <2>2. settled' => settled /\ (Agree' => Agree) /\ \A r \in Listers : SavedAs(r) => SavedAs(r)'
      BY <1>1, <2>1
    <2>3. SavesStay'
      BY <2>1, <2>2 DEF TokensInv, SavesStay
    <2> QED  BY <2>1, <2>3 DEF TokensInv, TokensTypeOK
  <1>5. ASSUME NEW r \in Listers, CreateOrUpdateTokens(r)
        PROVE  TokensInv'
    BY <1>5, SaveStep
  <1>6. CASE StopTokensRun
    BY <1>1, <1>6 DEF StopTokensRun, TokensInv, TokensTypeOK, SavesStay
  <1> QED  BY <1>2, <1>3, <1>4, <1>5, <1>6 DEF TokensNext

(* A listed token is returned with the ones it replaced.                   *)
LEMMA TokensInvImplies == TokensInv => TokensTypeOK /\ ListedIsReturned
  <1> SUFFICES ASSUME TokensInv, settled, Agree, NEW r \in Listers, NEW t \in atBlock[r]
               PROVE  \E c \in SameKey(t, atBlock[r]) : \E token \in GetTokens(r) :
                          token.address = c /\ SameKey(t, atBlock[r]) \ {c} \subseteq token.old
    BY DEF TokensInv, ListedIsReturned
  <1>1. PICK c : c = CurrentOf(r, t)
    OBVIOUS
  <1>2. c \in atBlock[r] /\ KeyOf[c] = KeyOf[t]
    BY <1>1, CurrentOfIs
  <1>3. \A u \in atBlock[r] : KeyOf[u] = KeyOf[t] => CurrentOf(r, u) = c
    BY <1>1 DEF CurrentOf, SameKey
  <1>4. SavedAs(r)
    BY DEF TokensInv, SavesStay
  <1>5. c \in Stored /\ parentOf[c] = NoParent /\ <<c, r>> \in tokenLinks
    BY <1>2, <1>3, <1>4 DEF SavedAs
  <1>6. \A u \in SameKey(t, atBlock[r]) \ {c} : u \in Stored /\ parentOf[u] = c
    BY <1>3, <1>4 DEF SavedAs, SameKey
  <1>7. c \in SameKey(t, atBlock[r])
    BY <1>2 DEF SameKey
  <1> DEFINE token == [address |-> c, old |-> {u \in Stored : parentOf[u] = c}]
  <1>8. token \in GetTokens(r)
    BY <1>5 DEF GetTokens
  <1>9. token.address = c /\ SameKey(t, atBlock[r]) \ {c} \subseteq token.old
    BY <1>6
  <1> QED  BY <1>7, <1>8, <1>9

(* A save that finds everything saved changes nothing.                     *)
LEMMA QuietSave ==
    ASSUME TokensInv, TokensNext \/ UNCHANGED tokensVars, settled, Agree
    PROVE  tokensVersion' = tokensVersion
  <1>1. ASSUME NEW r \in Listers
        PROVE  ~Changed(atBlock[r], atBlock[r] \X {r})
    <2>1. SavedAs(r)
      BY DEF TokensInv, SavesStay
    <2>2. atBlock[r] \subseteq Stored /\ Stored \cup atBlock[r] = Stored
      BY <2>1 DEF SavedAs
    <2>3. SaveTokens(atBlock[r]) = [t \in Stored |-> parentOf[t]]
      BY <2>1, <2>2, SaveTokensIs DEF SavedAs
    <2>4. atBlock[r] \X {r} \subseteq tokenLinks
      BY <2>1 DEF SavedAs
    <2> QED  BY <2>3, <2>4 DEF Changed, TokensInv
  <1> QED
    BY <1>1 DEF TokensNext, ChangeListing, StartTokensRun, CreateOrUpdateTokens, StopTokensRun, tokensVars

(* A save that counts nothing changes no answer.                           *)
LEMMA AnswersChangeWithTheVersion ==
    ASSUME TokensInv, TokensNext \/ UNCHANGED tokensVars, NEW q \in Listers, GetTokens(q)' # GetTokens(q)
    PROVE  tokensVersion' = tokensVersion + 1
  <1>1. UNCHANGED <<parentOf, tokenLinks>> => GetTokens(q)' = GetTokens(q)
    BY DEF GetTokens, Stored
  <1>2. ASSUME NEW r \in Listers, CreateOrUpdateTokens(r)
        PROVE  tokensVersion' = tokensVersion + 1 \/ UNCHANGED <<parentOf, tokenLinks>>
    BY <1>2 DEF CreateOrUpdateTokens, Changed
  <1> QED
    BY <1>1, <1>2 DEF TokensNext, ChangeListing, StartTokensRun, StopTokensRun, tokensVars

-----------------------------------------------------------------------------
(* The crawler of burned fees.                                             *)

(* The chunk that is stored, and those before it, are stored in order.     *)
FeesInv ==
    /\ FeesTypeOK
    /\ \A e \in toStore : BlockOf[e] <= feeFrom
    /\ crawling => \A e \in StoredEvents : BlockOf[e] <= feeFrom
    /\ crawling => \A e \in Events :
           FirstFeeBlock <= BlockOf[e] /\ BlockOf[e] < feeFrom /\ BlockOf[e] <= feeTo
           => e \in StoredEvents \cup toStore
    /\ \A d \in StoredEvents : \A e \in toStore : BlockOf[d] <= BlockOf[e]
    /\ \A d \in StoredEvents : \A e \in Events :
           FirstFeeBlock <= BlockOf[e] /\ BlockOf[e] < BlockOf[d] => e \in StoredEvents
    /\ RepeatsAreChunkEnds
    /\ \A e \in toStore : e \in StoredEvents => BlockOf[e] \in chunkEnds

(* What FeesAssumption says of the events, one by one.                     *)
LEMMA EventsAre ==
    /\ Events \subseteq Nat /\ \A e \in Events : BlockOf[e] \in Nat
    /\ FirstFeeBlock \in Nat /\ LastFeeBlock \in Nat /\ MaxBlocks \in Nat \ {0} /\ MaxFeeCrashes \in Nat
    /\ \E n \in Nat : \A e \in Events : BlockOf[e] <= n
  <1>1. /\ Events = 1 .. Len(BlockOf) /\ Len(BlockOf) \in Nat
        /\ \A e \in 1 .. Len(BlockOf) : BlockOf[e] \in Nat
    BY FeesAssumption, LenProperties, ElementOfSeq DEF Events
  <1>2. \E n \in Nat : \A e \in Events : BlockOf[e] <= n
    <2>1. CASE Len(BlockOf) = 0
      BY <1>1, <2>1
    <2>2. CASE Len(BlockOf) # 0
      <3>1. Len(BlockOf) \in Events /\ \A e \in Events : e <= Len(BlockOf)
        BY <1>1, <2>2
      <3> QED  BY <1>1, <3>1, FeesAssumption DEF Events
    <2> QED  BY <2>1, <2>2
  <1>3. Events \subseteq Nat /\ \A e \in Events : BlockOf[e] \in Nat
    BY <1>1
  <1>4. /\ FirstFeeBlock \in Nat /\ LastFeeBlock \in Nat
        /\ MaxBlocks \in Nat \ {0} /\ MaxFeeCrashes \in Nat
    BY FeesAssumption
  <1> QED  BY <1>2, <1>3, <1>4

(* The newest block of the table, from which Crawl resumes.                *)
LEMMA LastFeeIs ==
    /\ LastFee \in Nat
    /\ StoredEvents # {} => \E e \in StoredEvents : LastFee = BlockOf[e]
    /\ \A e \in StoredEvents : BlockOf[e] <= LastFee
    /\ StoredEvents = {} => LastFee = 0
  <1>1. CASE StoredEvents = {}
    BY <1>1 DEF LastFee
  <1>2. CASE StoredEvents # {}
    <2> DEFINE T == {BlockOf[e] : e \in StoredEvents}
    <2>1. PICK n \in Nat : \A e \in Events : BlockOf[e] <= n
      BY EventsAre
    <2>2. T \in SUBSET Nat /\ T # {} /\ \A b \in T : b <= n
      BY <1>2, <2>1, EventsAre DEF StoredEvents
    <2>3. Max(T) \in T /\ \A b \in T : Max(T) >= b
      BY <2>1, <2>2, MaxOfNaturals
    <2>4. LastFee = Max(T)
      BY <1>2 DEF LastFee
    <2> HIDE DEF LastFee
    <2> QED  BY <1>2, <2>2, <2>3, <2>4
  <1> QED  BY <1>1, <1>2

(* No event is stored at first.                                            *)
LEMMA FeesInitInv == FeesInit => FeesInv
  BY EventsAre, FeesAssumption DEF FeesInit, FeesInv, FeesTypeOK, StoredEvents, RepeatsAreChunkEnds

(* Every step of the crawler keeps its invariant.                          *)
LEMMA FeesStep ==
    ASSUME FeesInv, FeesNext \/ UNCHANGED feeVars
    PROVE  FeesInv'
  <1> USE EventsAre
  <1>1. CASE MineFees
    BY <1>1 DEF MineFees, FeesInv, FeesTypeOK, crawlVars, StoredEvents, RepeatsAreChunkEnds
  <1>2. ASSUME NEW to \in 0 .. feeHead, StartCrawl(to)
        PROVE  FeesInv'
    <2>1. /\ feeFrom' \in Nat /\ feeTo' \in 0 .. feeHead
          /\ \A e \in StoredEvents : BlockOf[e] <= feeFrom'
          /\ \A e \in Events :
                FirstFeeBlock <= BlockOf[e] /\ BlockOf[e] < feeFrom' => e \in StoredEvents
      BY <1>2, LastFeeIs DEF StartCrawl, FeesInv, FeesTypeOK, StoredEvents
    <2> QED  BY <1>2, <2>1 DEF StartCrawl, FeesInv, FeesTypeOK, StoredEvents, RepeatsAreChunkEnds
  <1>3. CASE FetchChunk
    <2> DEFINE end == Min({feeFrom + MaxBlocks, feeTo})
    <2>1. /\ crawling /\ toStore = {} /\ feeFrom < feeTo
          /\ toStore' = {e \in Events : BlockOf[e] >= feeFrom /\ BlockOf[e] <= end}
          /\ chunkEnds' = chunkEnds \cup {feeFrom, end}
          /\ feeFrom' = feeFrom + MaxBlocks
          /\ UNCHANGED <<feeHead, feeRows, crawling, feeTo, feeCrashes>>
      BY <1>3 DEF FetchChunk
    <2>2. end \in Nat /\ end <= feeTo /\ end <= feeFrom + MaxBlocks /\ (end = feeTo \/ end = feeFrom + MaxBlocks)
      <3> DEFINE T == {feeFrom + MaxBlocks, feeTo}
      <3>1. T \in SUBSET Nat /\ T # {}
        BY DEF FeesInv, FeesTypeOK
      <3>2. Min(T) \in T /\ \A n \in T : Min(T) <= n
        BY <3>1, MinOfNaturals
      <3> QED  BY <3>1, <3>2
    <2> HIDE DEF end
    <2> QED  BY <2>1, <2>2 DEF FeesInv, FeesTypeOK, StoredEvents, RepeatsAreChunkEnds
  <1>4. CASE StoreFee
    <2> DEFINE m == NextToStore
    <2>1. /\ feeRows' = [feeRows EXCEPT ![m] = IF @ = 0 THEN 1 ELSE 2]
          /\ toStore' = toStore \ {m} /\ toStore # {}
          /\ UNCHANGED <<feeHead, crawling, feeFrom, feeTo, feeCrashes, chunkEnds>>
      BY <1>4 DEF StoreFee
    <2>2. m \in toStore /\ m \in Events /\ \A e \in toStore : m <= e /\ BlockOf[m] <= BlockOf[e]
      <3>1. toStore \in SUBSET Nat /\ toStore \subseteq Events /\ toStore # {}
        BY <2>1 DEF FeesInv, FeesTypeOK
      <3>2. m \in toStore /\ \A e \in toStore : m <= e
        BY <3>1, MinOfNaturals DEF NextToStore
      <3> HIDE DEF m
      <3> QED  BY <3>1, <3>2, FeesAssumption DEF Events
    <2> HIDE DEF m
    <2>3. FeesTypeOK'
      BY <2>1, <2>2 DEF FeesInv, FeesTypeOK
    <2>4. StoredEvents' = StoredEvents \cup {m}
      BY <2>1, <2>2 DEF FeesInv, FeesTypeOK, StoredEvents
    <2>5. RepeatsAreChunkEnds'
      BY <2>1, <2>2 DEF FeesInv, FeesTypeOK, StoredEvents, RepeatsAreChunkEnds
    <2>6. ASSUME NEW d \in StoredEvents', NEW e \in Events, FirstFeeBlock <= BlockOf[e], BlockOf[e] < BlockOf[d]
          PROVE  e \in StoredEvents'
      <3>1. CASE d \in StoredEvents
        BY <2>4, <2>6, <3>1 DEF FeesInv
      <3>2. CASE d = m
        <4>1. BlockOf[m] <= feeFrom /\ BlockOf[m] <= feeTo /\ crawling /\ feeFrom \in Nat /\ feeTo \in Nat
          BY <2>1, <2>2 DEF FeesInv, FeesTypeOK
        <4>2. e \in StoredEvents \cup toStore
          BY <2>2, <2>6, <3>2, <4>1 DEF FeesInv
        <4> QED  BY <2>2, <2>4, <2>6, <3>2, <4>2
      <3> QED  BY <2>4, <2>6, <3>1, <3>2
    <2> QED  BY <2>1, <2>2, <2>3, <2>4, <2>5, <2>6 DEF FeesInv
  <1>5. CASE CrawlEnds \/ FeesStop
    BY <1>5 DEF CrawlEnds, FeesStop, FeesInv, FeesTypeOK, StoredEvents, RepeatsAreChunkEnds
  <1>6. CASE UNCHANGED feeVars
    BY <1>6 DEF feeVars, crawlVars, FeesInv, FeesTypeOK, StoredEvents, RepeatsAreChunkEnds
  <1> QED  BY <1>1, <1>2, <1>3, <1>4, <1>5, <1>6 DEF FeesNext, CrawlFees

(* What lies below a stored event is stored, so nothing below the newest   *)
(* is missed.                                                              *)
LEMMA FeesInvImplies == FeesInv => FeesTypeOK /\ NoFeeIsMissed /\ RepeatsAreChunkEnds
  <1> SUFFICES ASSUME FeesInv, NEW e \in Events, FirstFeeBlock <= BlockOf[e], BlockOf[e] < LastFee
               PROVE  e \in StoredEvents
    BY DEF FeesInv, NoFeeIsMissed
  <1>1. StoredEvents # {}
    BY LastFeeIs, EventsAre
  <1> QED  BY <1>1, LastFeeIs DEF FeesInv

-----------------------------------------------------------------------------
(* The application names.                                                  *)

(* Also an id that is not used yet has the addresses it was given: none.   *)
AppsInv ==
    /\ AppsTypeOK
    /\ lastAppId \in 0 .. MaxAppId
    /\ \A i \in 1 .. MaxAppId : AddressesOf(i) = given[i]

(* There is no application at first.                                       *)
LEMMA AppsInitInv == AppsInit => AppsInv
  BY AppsAssumption DEF AppsInit, AppsInv, AppsTypeOK, AppIds, AddressesOf

(* An application, new or known, is written under a name that no other one *)
(* has.                                                                    *)
LEMMA WriteAppStep ==
    ASSUME AppsInv, NEW id \in 1 .. MaxAppId, NEW name, NEW addresses \in SUBSET AppAddresses,
           WriteApp(id, name, addresses), Named(name) \subseteq {id},
           lastAppId' \in 0 .. MaxAppId, id <= lastAppId', lastAppId <= lastAppId'
    PROVE  AppsInv'
  <1>1. /\ appRows' = [i \in AppIds \cup {id} |-> IF i = id THEN [name |-> name, active |-> TRUE] ELSE appRows[i]]
        /\ appOf' = IF addresses = {} THEN appOf
                    ELSE [a \in addresses \cup (DOMAIN appOf \ AddressesOf(id)) |-> IF a \in addresses THEN id ELSE appOf[a]]
        /\ given' = IF addresses = {} THEN given
                    ELSE [i \in 1 .. MaxAppId |-> IF i = id THEN addresses ELSE given[i] \ addresses]
    BY DEF WriteApp, SetAddresses, Put
  <1>2. /\ AppIds' = AppIds \cup {id} /\ appRows'[id].name = name
        /\ \A i \in AppIds : i # id => appRows'[i] = appRows[i]
    BY <1>1 DEF AppIds
  <1>3. /\ AppIds \subseteq 1 .. lastAppId /\ lastAppId \in 0 .. MaxAppId
        /\ \A i, j \in AppIds : appRows[i].name = appRows[j].name => i = j
        /\ \A a \in DOMAIN appOf : a \in AppAddresses /\ appOf[a] \in AppIds
        /\ \A i \in 1 .. MaxAppId : AddressesOf(i) = given[i]
    BY DEF AppsInv, AppsTypeOK
  <1>4. AppIds' \subseteq 1 .. lastAppId'
    <2> SUFFICES ASSUME NEW i \in AppIds'
                 PROVE  i \in 1 .. lastAppId'
      OBVIOUS
    <2>1. lastAppId \in Nat /\ lastAppId' \in Nat /\ id \in Nat /\ id >= 1
      BY <1>3, AppsAssumption
    <2>2. CASE i = id
      BY <2>1, <2>2
    <2>3. CASE i \in AppIds
      BY <1>3, <2>1, <2>3
    <2> QED  BY <1>2, <2>2, <2>3
  <1>5. \A i, j \in AppIds' : appRows'[i].name = appRows'[j].name => i = j
    <2>1. \A i \in AppIds : appRows[i].name = name => i = id
      BY DEF Named
    <2> QED  BY <1>2, <1>3, <2>1
  <1>6. CASE addresses = {}
    <2>1. appOf' = appOf /\ given' = given
      BY <1>1, <1>6
    <2>2. \A i : AddressesOf(i)' = AddressesOf(i)
      BY <2>1 DEF AddressesOf
    <2> QED  BY <1>2, <1>3, <1>4, <1>5, <2>1, <2>2 DEF AppsInv, AppsTypeOK
  <1>7. CASE addresses # {}
    <2>1. /\ DOMAIN appOf' = addresses \cup (DOMAIN appOf \ AddressesOf(id))
          /\ \A a \in addresses : appOf'[a] = id
          /\ \A a \in DOMAIN appOf \ AddressesOf(id) : a \notin addresses => appOf'[a] = appOf[a]
      BY <1>1, <1>7
    <2>2. \A a \in DOMAIN appOf' : a \in AppAddresses /\ appOf'[a] \in AppIds'
      BY <1>2, <1>3, <2>1
    <2>3. AddressesOf(id)' = addresses
      BY <2>1 DEF AddressesOf
    <2>4. ASSUME NEW i \in 1 .. MaxAppId, i # id
          PROVE  AddressesOf(i)' = AddressesOf(i) \ addresses
      BY <2>1, <2>4 DEF AddressesOf
    <2>5. \A i \in 1 .. MaxAppId : given'[i] = IF i = id THEN addresses ELSE given[i] \ addresses
      BY <1>1, <1>7
    <2>6. \A i \in 1 .. MaxAppId : AddressesOf(i)' = given'[i]
      BY <1>3, <2>3, <2>4, <2>5
    <2>7. AppsTypeOK'
      BY <1>4, <1>5, <2>2, AppsAssumption DEF AppsTypeOK
    <2> QED  BY <2>6, <2>7 DEF AppsInv
  <1> QED  BY <1>6, <1>7

(* Every step of the storage keeps its invariant.                          *)
LEMMA AppsStep ==
    ASSUME AppsInv, AppsNext \/ UNCHANGED appVars
    PROVE  AppsInv'
  <1> USE AppsAssumption
  <1>1. AppIds \subseteq 1 .. MaxAppId /\ AppIds \subseteq 1 .. lastAppId /\ lastAppId \in 0 .. MaxAppId
    BY DEF AppsInv, AppsTypeOK
  <1>2. CASE UNCHANGED appVars
    BY <1>2 DEF appVars, AppsInv, AppsTypeOK, AppIds, AddressesOf
  <1>3. ASSUME NEW addresses \in SUBSET AppAddresses, NEW n \in Names, CreateApp(n, addresses)
        PROVE  AppsInv'
    <2>1. lastAppId < MaxAppId /\ lastAppId' = lastAppId + 1
      BY <1>3 DEF CreateApp
    <2>2. lastAppId' \in 0 .. MaxAppId /\ lastAppId' \in 1 .. MaxAppId /\ lastAppId <= lastAppId' /\ lastAppId' <= lastAppId'
      BY <1>1, <2>1
    <2>3. ASSUME NEW i \in Named(n), WriteApp(i, n, addresses)
          PROVE  AppsInv'
      <3>1. i \in 1 .. MaxAppId /\ i <= lastAppId'
        BY <1>1, <2>1 DEF Named
      <3>2. Named(n) \subseteq {i}
        BY DEF Named, AppsInv, AppsTypeOK
      <3> QED  BY <2>2, <2>3, <3>1, <3>2, WriteAppStep
    <2>4. ASSUME Named(n) = {}, WriteApp(lastAppId', n, addresses)
          PROVE  AppsInv'
      <3>1. PICK i \in 1 .. MaxAppId : i = lastAppId + 1
        BY <2>1, <2>2
      <3>2. WriteApp(i, n, addresses) /\ i <= lastAppId'
        BY <2>1, <2>2, <2>4, <3>1
      <3> QED  BY <2>2, <2>4, <3>2, WriteAppStep
    <2> QED  BY <1>3, <2>3, <2>4 DEF CreateApp
  <1>4. ASSUME NEW addresses \in SUBSET AppAddresses, NEW i \in 1 .. MaxAppId, NEW n \in Names, ReplaceApp(i, n, addresses)
        PROVE  AppsInv'
    <2>1. WriteApp(i, n, addresses) /\ Named(n) \subseteq {i} /\ lastAppId' = lastAppId /\ i \in AppIds
      BY <1>4 DEF ReplaceApp
    <2>2. i <= lastAppId' /\ lastAppId' \in 0 .. MaxAppId /\ lastAppId <= lastAppId'
      BY <1>1, <2>1
    <2> QED  BY <2>1, <2>2, WriteAppStep
  <1>5. ASSUME NEW addresses \in SUBSET AppAddresses, NEW i \in 1 .. MaxAppId, NEW n, UpdateApp(i, n, addresses)
        PROVE  AppsInv'
    <2>1. PICK name : name = IF n = NoName THEN appRows[i].name ELSE n
      OBVIOUS
    <2>2. WriteApp(i, name, addresses) /\ Named(n) \subseteq {i} /\ lastAppId' = lastAppId /\ i \in AppIds
      BY <1>5, <2>1 DEF UpdateApp
    <2>3. i <= lastAppId' /\ lastAppId' \in 0 .. MaxAppId /\ lastAppId <= lastAppId'
      BY <1>1, <2>2
    <2>4. Named(name) \subseteq {i}
      BY <2>1, <2>2 DEF Named, AppsInv, AppsTypeOK
    <2> QED  BY <2>2, <2>3, <2>4, WriteAppStep
  <1>6. ASSUME NEW i \in 1 .. MaxAppId, DeleteApp(i)
        PROVE  AppsInv'
    <2>1. i \in AppIds /\ appRows' = [appRows EXCEPT ![i].active = FALSE] /\ UNCHANGED <<appOf, lastAppId, given>>
      BY <1>6 DEF DeleteApp
    <2>2. AppIds' = AppIds /\ \A j \in AppIds : appRows'[j].name = appRows[j].name
      BY <2>1 DEF AppIds
    <2> QED  BY <2>1, <2>2 DEF AppsInv, AppsTypeOK, AddressesOf
  <1> QED  BY <1>2, <1>3, <1>4, <1>5, <1>6 DEF AppsNext

(* The addresses of an application are the last ones of the history.       *)
LEMMA AppsInvImplies == AppsInv => AppsTypeOK /\ AddressesAreTheLastGiven
  <1> SUFFICES ASSUME AppsInv
               PROVE  AppsTypeOK /\ AddressesAreTheLastGiven
    OBVIOUS
  <1>1. AppsTypeOK /\ AppIds \subseteq 1 .. MaxAppId
    BY AppsAssumption DEF AppsInv, AppsTypeOK
  <1> QED  BY <1>1 DEF AppsInv, AddressesAreTheLastGiven

-----------------------------------------------------------------------------
(* The caches of block times and of profiles.                              *)

(* The slice has an entry for every block of the map, and one for every    *)
(* race.                                                                   *)
CacheInv ==
    /\ CachedIsIndexed
    /\ cachedIndices \in [HeaderBlocks -> Nat] /\ races \in Nat
    /\ Entries <= Cardinality(cachedHeaders) + races
    /\ Entries <= MaxCachedBlocks + races

(* The heap has a node for every profile of the map.                       *)
ProfilesInv ==
    /\ cached \subseteq Profiles /\ nodes \in [Profiles -> Nat]
    /\ asking \in [Clients -> Profiles \cup {NoAddress}]
    /\ HeapIsCounted
    /\ \A a \in cached : nodes[a] > 0

(* The length of the list is the sum of the entries of each block.         *)
LEMMA EntriesIs == Entries = Total(cachedIndices) /\ Entries' = Total(cachedIndices')
  <1>1. Entries = Total(cachedIndices)
    BY DEF Entries, Total, FoldFunction, FoldFunctionOnSet, MapThenFoldSet
  <1>2. Entries' = Total(cachedIndices')
    BY DEF Entries, Total, FoldFunction, FoldFunctionOnSet, MapThenFoldSet
  <1> QED  BY <1>1, <1>2

(* The size of the heap is the sum of the nodes of each profile.           *)
LEMMA HeapSizeIs == HeapSize = Total(nodes) /\ HeapSize' = Total(nodes')
  <1>1. HeapSize = Total(nodes)
    BY DEF HeapSize, Total, FoldFunction, FoldFunctionOnSet, MapThenFoldSet
  <1>2. HeapSize' = Total(nodes')
    BY DEF HeapSize, Total, FoldFunction, FoldFunctionOnSet, MapThenFoldSet
  <1> QED  BY <1>1, <1>2

(* Map and list are empty at first.                                        *)
LEMMA CacheInitInv == CacheInit => CacheInv
  <1> SUFFICES ASSUME CacheInit
               PROVE  CacheInv
    OBVIOUS
  <1>1. cachedIndices \in [HeaderBlocks -> Nat] /\ \A b \in HeaderBlocks : cachedIndices[b] = 0
    BY DEF CacheInit
  <1>2. Total(cachedIndices) = 0 /\ Cardinality(cachedHeaders) = 0
    BY <1>1, CacheAssumption, TotalOfZeros, FS_EmptySet DEF CacheInit
  <1>3. Entries = 0
    BY <1>2, EntriesIs
  <1> QED
    BY <1>1, <1>2, <1>3, CacheAssumption DEF CacheInit, CacheInv, CachedIsIndexed

(* A header is inserted.                                                   *)
LEMMA InsertStep ==
    ASSUME CacheInv, NEW r \in Resolvers, InsertHeader(r)
    PROVE  CacheInv'
  <1> DEFINE full == Cardinality(cachedHeaders) >= MaxCachedBlocks
  <1>1. PICK b, m : b = missed[r] /\ m = Min(Indexed)
    OBVIOUS
  <1>2. b # NoBlock
        /\ races' = (IF b \in cachedHeaders THEN races + 1 ELSE races)
        /\ cachedHeaders' = (IF full THEN cachedHeaders \ {m} ELSE cachedHeaders) \cup {b}
        /\ cachedIndices' = [(IF full THEN [cachedIndices EXCEPT ![m] = @ - 1] ELSE cachedIndices) EXCEPT ![b] = @ + 1]
        /\ missed' = [missed EXCEPT ![r] = NoBlock]
    BY <1>1 DEF InsertHeader
  <1>3. b \in HeaderBlocks /\ missed' \in [Resolvers -> HeaderBlocks \cup {NoBlock}]
    BY <1>1, <1>2 DEF CacheInv, CachedIsIndexed
  <1>4. /\ cachedHeaders \subseteq HeaderBlocks /\ IsFiniteSet(cachedHeaders) /\ IsFiniteSet(HeaderBlocks)
        /\ Cardinality(cachedHeaders) \in Nat /\ MaxCachedBlocks \in Nat \ {0} /\ races \in Nat
    BY CacheAssumption, FS_Subset, FS_CardinalityType DEF CacheInv, CachedIsIndexed
  <1>5. Entries = Total(cachedIndices) /\ Entries' = Total(cachedIndices') /\ Total(cachedIndices) \in Nat
    BY <1>4, EntriesIs, TotalIs DEF CacheInv
  <1>6. /\ Total(cachedIndices) <= Cardinality(cachedHeaders) + races
        /\ Total(cachedIndices) <= MaxCachedBlocks + races
        /\ \A c \in cachedHeaders : cachedIndices[c] > 0
        /\ cachedIndices \in [HeaderBlocks -> Nat]
    BY <1>5 DEF CacheInv, CachedIsIndexed, Indexed
  <1>7. CASE full
    <2>1. Indexed \in SUBSET Nat /\ Indexed # {}
      <3>1. cachedHeaders # {}
        BY <1>4, <1>7, FS_EmptySet
      <3> QED  BY <3>1, CacheAssumption DEF CacheInv, CachedIsIndexed, Indexed
    <2>2. m \in HeaderBlocks /\ cachedIndices[m] > 0
      BY <1>1, <2>1, MinOfNaturals DEF Indexed
    <2>3. PICK index : index = [cachedIndices EXCEPT ![m] = @ - 1]
      OBVIOUS
    <2>4. /\ index \in [HeaderBlocks -> Nat]
          /\ \A c \in HeaderBlocks : index[c] = IF c = m THEN cachedIndices[c] + (-1) ELSE cachedIndices[c]
      BY <1>6, <2>2, <2>3
    <2>5. /\ cachedIndices' \in [HeaderBlocks -> Nat]
          /\ \A c \in HeaderBlocks : cachedIndices'[c] = IF c = b THEN index[c] + 1 ELSE index[c]
      BY <1>2, <1>3, <1>7, <2>3, <2>4
    <2>6. Total(index) = Total(cachedIndices) - 1
      <3>1. PICK n \in Nat : n = cachedIndices[m] - 1
        BY <1>6, <2>2
      <3>2. index = [cachedIndices EXCEPT ![m] = n] /\ cachedIndices[m] \in Nat
        BY <1>6, <2>2, <2>3, <3>1
      <3>3. Total(index) = Total(cachedIndices) - cachedIndices[m] + n
        BY <1>4, <1>6, <2>2, <3>2, TotalExcept
      <3> QED  BY <1>5, <3>1, <3>2, <3>3
    <2>7. Total(cachedIndices') = Total(index) + 1
      <3>1. PICK n \in Nat : n = index[b] + 1
        BY <1>3, <2>4
      <3>2. cachedIndices' = [index EXCEPT ![b] = n] /\ index[b] \in Nat
        BY <1>2, <1>3, <1>7, <2>3, <2>4, <3>1
      <3>3. Total(cachedIndices') = Total(index) - index[b] + n /\ Total(index) \in Nat
        BY <1>3, <1>4, <2>4, <3>2, TotalExcept, TotalIs
      <3> QED  BY <3>1, <3>2, <3>3
    <2>8. Total(cachedIndices') = Total(cachedIndices)
      BY <1>5, <2>6, <2>7
    <2>9. cachedHeaders' = (cachedHeaders \ {m}) \cup {b}
      BY <1>2, <1>7
    <2>10. Cardinality(cachedHeaders') \in Nat /\ Cardinality(cachedHeaders) + races <= Cardinality(cachedHeaders') + races'
      <3>1. /\ IsFiniteSet(cachedHeaders \ {m}) /\ Cardinality(cachedHeaders \ {m}) \in Nat
            /\ Cardinality(cachedHeaders \ {m}) =
                   IF m \in cachedHeaders THEN Cardinality(cachedHeaders) - 1 ELSE Cardinality(cachedHeaders)
        BY <1>4, FS_RemoveElement, FS_CardinalityType
      <3>2. Cardinality(cachedHeaders') =
                IF b \in cachedHeaders \ {m} THEN Cardinality(cachedHeaders \ {m}) ELSE Cardinality(cachedHeaders \ {m}) + 1
        BY <2>9, <3>1, FS_AddElement
      <3> QED  BY <1>2, <1>4, <3>1, <3>2
    <2>11. \A c \in cachedHeaders' : c \in HeaderBlocks /\ cachedIndices'[c] > 0
      BY <1>3, <1>4, <1>6, <2>4, <2>5, <2>9
    <2>12. races' \in Nat /\ races' >= races
      BY <1>2, <1>4
    <2> QED  BY <1>3, <1>4, <1>5, <1>6, <2>5, <2>8, <2>10, <2>11, <2>12 DEF CacheInv, CachedIsIndexed, Indexed
  <1>8. CASE ~full
    <2>1. /\ cachedIndices' \in [HeaderBlocks -> Nat]
          /\ \A c \in HeaderBlocks : cachedIndices'[c] = IF c = b THEN cachedIndices[c] + 1 ELSE cachedIndices[c]
      BY <1>2, <1>3, <1>6, <1>8
    <2>2. Total(cachedIndices') = Total(cachedIndices) + 1
      <3>1. PICK n \in Nat : n = cachedIndices[b] + 1
        BY <1>3, <1>6
      <3>2. cachedIndices' = [cachedIndices EXCEPT ![b] = n] /\ cachedIndices[b] \in Nat
        BY <1>2, <1>3, <1>6, <1>8, <3>1
      <3>3. Total(cachedIndices') = Total(cachedIndices) - cachedIndices[b] + n
        BY <1>3, <1>4, <1>6, <3>2, TotalExcept
      <3> QED  BY <1>5, <3>1, <3>2, <3>3
    <2>3. cachedHeaders' = cachedHeaders \cup {b}
      BY <1>2, <1>8
    <2>4. Cardinality(cachedHeaders') =
              IF b \in cachedHeaders THEN Cardinality(cachedHeaders) ELSE Cardinality(cachedHeaders) + 1
      BY <1>4, <2>3, FS_AddElement
    <2>5. \A c \in cachedHeaders' : c \in HeaderBlocks /\ cachedIndices'[c] > 0
      BY <1>3, <1>4, <1>6, <2>1, <2>3
    <2>6. /\ races' \in Nat /\ Entries' <= Cardinality(cachedHeaders') + races'
          /\ Entries' <= MaxCachedBlocks + races'
      BY <1>2, <1>4, <1>5, <1>6, <1>8, <2>2, <2>4
    <2> QED  BY <1>3, <2>1, <2>5, <2>6 DEF CacheInv, CachedIsIndexed, Indexed
  <1> QED  BY <1>7, <1>8

(* Every step of the resolver keeps its invariant.                         *)
LEMMA CacheStep ==
    ASSUME CacheInv, CacheNext \/ UNCHANGED cacheVars
    PROVE  CacheInv'
  <1>1. CASE UNCHANGED cacheVars
    BY <1>1, EntriesIs DEF cacheVars, CacheInv, CachedIsIndexed, Indexed
  <1>2. ASSUME NEW r \in Resolvers, NEW b \in HeaderBlocks, LookUpHeader(r, b)
        PROVE  CacheInv'
    BY <1>2, EntriesIs DEF LookUpHeader, CacheInv, CachedIsIndexed, Indexed
  <1>3. ASSUME NEW r \in Resolvers, HeaderFails(r)
        PROVE  CacheInv'
    BY <1>3, EntriesIs DEF HeaderFails, CacheInv, CachedIsIndexed, Indexed
  <1> QED  BY <1>1, <1>2, <1>3, InsertStep DEF CacheNext

(* There are no more blocks in the map than entries in the list.           *)
LEMMA CacheInvImplies == CacheInv => CachedIsIndexed /\ GrowsByRacesOnly
  <1> SUFFICES ASSUME CacheInv
               PROVE  Cardinality(cachedHeaders) <= Entries
    BY DEF CacheInv, GrowsByRacesOnly
  <1>1. Entries = Total(cachedIndices) /\ IsFiniteSet(HeaderBlocks) /\ cachedIndices \in [HeaderBlocks -> Nat]
    BY CacheAssumption, EntriesIs DEF CacheInv
  <1>2. Total(cachedIndices) \in Nat /\ Cardinality(Indexed) \in Nat /\ Cardinality(Indexed) <= Total(cachedIndices)
    BY <1>1, TotalIs DEF Indexed
  <1>3. cachedHeaders \subseteq Indexed /\ IsFiniteSet(Indexed)
    BY <1>1, FS_Subset DEF CacheInv, CachedIsIndexed, Indexed
  <1>4. Cardinality(cachedHeaders) \in Nat /\ Cardinality(cachedHeaders) <= Cardinality(Indexed)
    BY <1>3, FS_Subset, FS_CardinalityType
  <1> QED  BY <1>1, <1>2, <1>4

-----------------------------------------------------------------------------
(* Map and heap are empty at first.                                        *)
LEMMA ProfilesInitInv == ProfilesInit => ProfilesInv
  <1> SUFFICES ASSUME ProfilesInit
               PROVE  ProfilesInv
    OBVIOUS
  <1>1. nodes \in [Profiles -> Nat] /\ \A a \in Profiles : nodes[a] = 0
    BY DEF ProfilesInit
  <1>2. Total(nodes) = 0
    BY <1>1, ProfilesAssumption, TotalOfZeros
  <1>3. HeapSize = 0
    BY <1>2, HeapSizeIs
  <1> QED
    BY <1>1, <1>3, ProfilesAssumption DEF ProfilesInit, ProfilesInv, HeapIsCounted

(* A profile is put in the map with a node, or its node is updated.        *)
LEMMA CacheProfileStep ==
    ASSUME ProfilesInv, NEW c \in Clients, CacheProfile(c)
    PROVE  ProfilesInv'
  <1>1. PICK a : a = asking[c]
    OBVIOUS
  <1>2. PICK oldest \in {o \in Profiles : nodes[o] > 0} \cup {NoAddress} :
            /\ (cacheSize >= MaxCacheSize) <=> oldest # NoAddress
            /\ cached' = (cached \ {oldest}) \cup {a}
            /\ nodes' = [p \in Profiles |-> nodes[p] - (IF p = oldest THEN 1 ELSE 0) + (IF p = a THEN 1 ELSE 0)]
    BY <1>1 DEF CacheProfile
  <1>3. /\ a # NoAddress /\ cacheSize' = (IF cacheSize >= MaxCacheSize THEN cacheSize ELSE cacheSize + 1)
        /\ asking' = [asking EXCEPT ![c] = NoAddress]
    BY <1>1 DEF CacheProfile
  <1>4. a \in Profiles /\ asking' \in [Clients -> Profiles \cup {NoAddress}]
    BY <1>1, <1>3 DEF ProfilesInv
  <1>5. HeapSize = Total(nodes) /\ HeapSize' = Total(nodes') /\ Total(nodes) \in Nat /\ IsFiniteSet(Profiles)
        /\ nodes \in [Profiles -> Nat] /\ cacheSize = Total(nodes) /\ cacheSize <= MaxCacheSize
    BY ProfilesAssumption, TotalIs, HeapSizeIs DEF ProfilesInv, HeapIsCounted
  <1>6. PICK rest : rest = [p \in Profiles |-> nodes[p] - (IF p = oldest THEN 1 ELSE 0)]
    OBVIOUS
  <1>7. /\ rest \in [Profiles -> Nat]
        /\ \A p \in Profiles : rest[p] = IF p = oldest THEN nodes[p] + (-1) ELSE nodes[p]
    <2>1. \A p \in Profiles : nodes[p] \in Nat /\ (p = oldest => nodes[p] > 0)
      BY <1>2, <1>5, ProfilesAssumption
    <2> QED  BY <1>6, <2>1
  <1>8. /\ nodes' \in [Profiles -> Nat]
        /\ \A p \in Profiles : nodes'[p] = IF p = a THEN rest[p] + 1 ELSE rest[p]
    BY <1>2, <1>6, <1>7
  <1>9. Total(nodes') = Total(rest) + 1
    <2>1. PICK n \in Nat : n = rest[a] + 1
      BY <1>4, <1>7
    <2>2. nodes' = [rest EXCEPT ![a] = n] /\ rest[a] \in Nat
      BY <1>2, <1>4, <1>6, <1>7, <2>1
    <2>3. Total(nodes') = Total(rest) - rest[a] + n /\ Total(rest) \in Nat
      BY <1>4, <1>5, <1>7, <2>2, TotalExcept, TotalIs
    <2> QED  BY <2>1, <2>2, <2>3
  <1>10. cacheSize' = Total(nodes') /\ cacheSize' <= MaxCacheSize
    <2>1. CASE oldest = NoAddress
      <3>1. rest = nodes
        BY <1>5, <1>7, <2>1, ProfilesAssumption
      <3> QED  BY <1>2, <1>3, <1>5, <1>9, <2>1, <3>1, ProfilesAssumption
    <2>2. CASE oldest # NoAddress
      <3>1. Total(rest) = Total(nodes) + (-1)
        <4>1. oldest \in Profiles /\ nodes[oldest] > 0
          BY <1>2, <2>2
        <4>2. PICK n \in Nat : n = nodes[oldest] - 1
          BY <1>5, <4>1
        <4>3. rest = [nodes EXCEPT ![oldest] = n] /\ nodes[oldest] \in Nat
          BY <1>5, <1>6, <1>7, <4>1, <4>2
        <4>4. Total(rest) = Total(nodes) - nodes[oldest] + n
          BY <1>5, <4>1, <4>3, TotalExcept
        <4> QED  BY <1>5, <4>2, <4>3, <4>4
      <3> QED  BY <1>2, <1>3, <1>5, <1>9, <2>2, <3>1, ProfilesAssumption
    <2> QED  BY <2>1, <2>2
  <1>11. \A p \in cached' : p \in Profiles /\ nodes'[p] > 0
    BY <1>2, <1>4, <1>7, <1>8 DEF ProfilesInv
  <1> QED  BY <1>4, <1>5, <1>8, <1>10, <1>11 DEF ProfilesInv, HeapIsCounted

(* Every step of the client keeps its invariant.                           *)
LEMMA ProfilesStep ==
    ASSUME ProfilesInv, ProfilesNext \/ UNCHANGED profileVars
    PROVE  ProfilesInv'
  <1>1. CASE UNCHANGED profileVars
    BY <1>1, HeapSizeIs DEF profileVars, ProfilesInv, HeapIsCounted
  <1>2. ASSUME NEW c \in Clients, NEW a \in Profiles, LookUpCache(c, a)
        PROVE  ProfilesInv'
    BY <1>2, HeapSizeIs DEF LookUpCache, ProfilesInv, HeapIsCounted
  <1>3. ASSUME NEW c \in Clients, AskFails(c)
        PROVE  ProfilesInv'
    BY <1>3, HeapSizeIs DEF AskFails, ProfilesInv, HeapIsCounted
  <1> QED  BY <1>1, <1>2, <1>3, CacheProfileStep DEF ProfilesNext

(* There are no more profiles in the map than nodes in the heap.           *)
LEMMA ProfilesInvImplies == ProfilesInv => HeapIsCounted /\ CachedHasNode
  <1> SUFFICES ASSUME ProfilesInv
               PROVE  Cardinality(cached) <= MaxCacheSize
    BY DEF ProfilesInv, CachedHasNode
  <1> DEFINE S == {a \in Profiles : nodes[a] > 0}
  <1>1. IsFiniteSet(Profiles) /\ nodes \in [Profiles -> Nat] /\ Total(nodes) <= MaxCacheSize /\ MaxCacheSize \in Nat
    BY ProfilesAssumption, HeapSizeIs DEF ProfilesInv, HeapIsCounted
  <1>2. Total(nodes) \in Nat /\ Cardinality(S) \in Nat /\ Cardinality(S) <= Total(nodes)
    BY <1>1, TotalIs
  <1>3. cached \subseteq S /\ IsFiniteSet(S)
    BY <1>1, FS_Subset DEF ProfilesInv
  <1> HIDE DEF S
  <1>4. Cardinality(cached) \in Nat /\ Cardinality(cached) <= Cardinality(S)
    BY <1>3, FS_Subset, FS_CardinalityType
  <1> QED  BY <1>1, <1>2, <1>4

-----------------------------------------------------------------------------
(* The rate limiter of the Binance client, for any requests, any length of *)
(* a minute and any answers.                                               *)

Answers == [status : {0, 200, 429, 418}, at : Nat, header : BOOLEAN, until : Nat]
Trips == [step : {"none", "timed", "passed", "answered"}, now : Nat, answer : Answers]

Types ==
    /\ tick \in Nat /\ blockUntil \in Nat /\ bannedUntil \in Nat /\ told \in Nat
    /\ trip \in [Requests -> Trips]
    /\ behind \subseteq Requests

UnderWay(r) == trip[r].step \in {"passed", "answered"}

(* A request and its answer are in order, and neither is in the future.    *)
TimesAreOrdered ==
    \A r \in Requests :
        /\ trip[r].now <= tick
        /\ trip[r].step = "answered" =>
               /\ trip[r].now <= trip[r].answer.at /\ trip[r].answer.at <= tick
               /\ trip[r].answer.status \in {200, 429, 418}

(* The guard is never before what was told, and a request under way has    *)
(* passed the guard as it is, or passed before it was moved.               *)
ToldIsBlocked == told <= blockUntil
PassedTheGuard == \A r \in Requests : UnderWay(r) => r \in behind \/ trip[r].now >= blockUntil

LimiterInv == Types /\ TimesAreOrdered /\ ToldIsBlocked /\ PassedTheGuard

(* The greatest and the least of a few numbers.                            *)
LEMMA MaxOfTwo ==
    ASSUME NEW a \in Nat, NEW b \in Nat
    PROVE  Max({a, b}) \in {a, b} /\ Max({a, b}) >= a /\ Max({a, b}) >= b
<1>1. \E x \in {a, b} : \A y \in {a, b} : x >= y
  OBVIOUS
<1>2. QED
  BY <1>1 DEF Max

(* The minimum of two numbers is one of them and no greater than either.   *)
LEMMA MinOfTwo ==
    ASSUME NEW a \in Nat, NEW b \in Nat
    PROVE  Min({a, b}) \in {a, b} /\ Min({a, b}) <= a /\ Min({a, b}) <= b
<1>1. \E x \in {a, b} : \A y \in {a, b} : x <= y
  OBVIOUS
<1>2. QED
  BY <1>1 DEF Min

(* The maximum of three numbers is no less than any of them.               *)
LEMMA MaxOfThree ==
    ASSUME NEW a \in Nat, NEW b \in Nat, NEW c \in Int
    PROVE  Max({a, b, c}) \in Nat /\ Max({a, b, c}) >= a /\ Max({a, b, c}) >= b
<1>1. \E x \in {a, b, c} : \A y \in {a, b, c} : x >= y
  OBVIOUS
<1>2. QED
  BY <1>1 DEF Max

(* The next minute is in the future, and is a multiple of a minute.        *)
LEMMA NextMinute ==
    ASSUME NEW t \in Nat
    PROVE  /\ nextMin(t) \in Nat /\ nextMin(t) > t
           /\ nextMin(t) = MinuteLength * (t \div MinuteLength + 1)
<1>1. MinuteLength \in Nat \ {0}
  BY LimiterAssumption
<1>2. (t + MinuteLength) \div MinuteLength = t \div MinuteLength + 1
  BY <1>1
<1>3. MinuteLength * ((t + MinuteLength) \div MinuteLength) \in Nat
  BY <1>1
<1>4. MinuteLength * ((t + MinuteLength) \div MinuteLength) > t
  BY <1>1
<1>5. QED
  BY <1>2, <1>3, <1>4 DEF nextMin

(* The end of a ban is neither in the past nor before what the answer says.*)
LEMMA RetryAt ==
    ASSUME Types, NEW answer \in Answers
    PROVE  findRetryAt(answer) \in Nat /\ findRetryAt(answer) >= tick /\ findRetryAt(answer) >= answer.until
<1> DEFINE a == answer.until
           c == tick + a - answer.at
<1>1. tick \in Nat /\ a \in Nat /\ c \in Int
  BY DEF Types, Answers
<1> SUFFICES findRetryAt(answer) \in Nat /\ findRetryAt(answer) >= tick /\ findRetryAt(answer) >= a
  OBVIOUS
<1>2. CASE answer.header
  <2>1. findRetryAt(answer) = Max({tick, a, c})
    <3>1. {tick, a} \cup {c} = {tick, a, c}
      OBVIOUS
    <3>2. QED
      BY <1>2, <3>1 DEF findRetryAt
  <2> HIDE DEF a, c
  <2>2. QED
    BY <1>1, <2>1, MaxOfThree
<1>3. CASE ~answer.header
  <2>1. findRetryAt(answer) = Max({tick, a})
    <3>1. {tick, a} \cup {} = {tick, a}
      OBVIOUS
    <3>2. QED
      BY <1>3, <3>1 DEF findRetryAt
  <2> HIDE DEF a, c
  <2>2. Max({tick, a}) \in {tick, a} /\ Max({tick, a}) >= tick /\ Max({tick, a}) >= a
    BY <1>1, MaxOfTwo
  <2>3. QED
    BY <1>1, <2>1, <2>2
<1>4. QED
  BY <1>2, <1>3

(* No request is under way at first and nothing is blocked.                *)
LEMMA InitLimiterInv == LimiterInit => LimiterInv
<1> SUFFICES ASSUME LimiterInit PROVE LimiterInv
  OBVIOUS
<1> USE DEF LimiterInit, NoTrip, NoAnswer
<1>1. Types
  BY DEF Types, Trips, Answers
<1>2. TimesAreOrdered /\ ToldIsBlocked /\ PassedTheGuard
  BY DEF TimesAreOrdered, ToldIsBlocked, PassedTheGuard, UnderWay
<1>3. QED
  BY <1>1, <1>2 DEF LimiterInv

(* A request that is given up or answered leaves the others as they are.   *)
LEMMA TripOver ==
    ASSUME Types, TimesAreOrdered, NEW r \in Requests,
           trip' = [trip EXCEPT ![r] = NoTrip], tick' = tick
    PROVE  /\ trip' \in [Requests -> Trips]
           /\ TimesAreOrdered'
           /\ ~UnderWay(r)'
           /\ \A q \in Requests \ {r} : trip'[q] = trip[q]
<1>1. NoTrip \in Trips
  BY DEF NoTrip, NoAnswer, Trips, Answers
<1>2. trip' \in [Requests -> Trips]
  BY <1>1 DEF Types
<1>3. trip'[r] = NoTrip /\ \A q \in Requests \ {r} : trip'[q] = trip[q]
  BY DEF Types
<1>4. ~UnderWay(r)'
  BY <1>3 DEF UnderWay, NoTrip
<1>5. TimesAreOrdered'
  BY <1>3 DEF TimesAreOrdered, NoTrip, Types
<1>6. QED
  BY <1>2, <1>3, <1>4, <1>5

(* When an answer moves the guard, every other request under way becomes   *)
(* one that has passed before; the new guard covers what is told now.      *)
LEMMA GuardMoved ==
    ASSUME LimiterInv, NEW r \in Requests, NEW until \in Nat,
           SetBlock(r, until),
           trip' = [trip EXCEPT ![r] = NoTrip], UNCHANGED <<tick, bannedUntil>>,
           told' \in Nat, told' <= until
    PROVE  LimiterInv'
<1> USE DEF LimiterInv
<1>1. /\ trip' \in [Requests -> Trips] /\ TimesAreOrdered' /\ ~UnderWay(r)'
      /\ \A q \in Requests \ {r} : trip'[q] = trip[q]
  BY TripOver
<1>2. Types'
  BY <1>1 DEF Types, SetBlock
<1>3. ToldIsBlocked'
  BY DEF ToldIsBlocked, SetBlock
<1>4. PassedTheGuard'
  BY <1>1 DEF PassedTheGuard, SetBlock, UnderWay
<1>5. QED
  BY <1>1, <1>2, <1>3, <1>4

(* What is told is never more than what the guard is set to, because the   *)
(* answer to a request that is not behind tells of a later time than any   *)
(* before.                                                                 *)
LEMMA HandleKeepsInv ==
    ASSUME LimiterInv, NEW r \in Requests, Handle(r)
    PROVE  LimiterInv'
<1> USE DEF LimiterInv
<1> DEFINE answer == trip[r].answer
           now == trip[r].now
<1>1. /\ answer \in Answers /\ now \in Nat /\ told \in Nat /\ tick \in Nat
      /\ answer.at \in Nat /\ answer.until \in Nat
  BY DEF Types, Trips, Answers
<1>2. now <= answer.at /\ answer.at <= tick /\ answer.status \in {200, 429, 418}
  BY DEF TimesAreOrdered, Handle
<1>3. r \in behind \/ told <= now
  <2>1. r \in behind \/ now >= blockUntil
    BY DEF PassedTheGuard, UnderWay, Handle
  <2>2. QED
    BY <1>1, <2>1 DEF ToldIsBlocked, Types
<1>4. trip' = [trip EXCEPT ![r] = NoTrip] /\ UNCHANGED <<tick, bannedUntil>>
  BY DEF Handle
<1>5. CASE answer.status = 200
  <2>1. behind' = behind \ {r} /\ UNCHANGED <<blockUntil, told>>
    BY <1>5 DEF Handle
  <2>2. /\ trip' \in [Requests -> Trips] /\ TimesAreOrdered' /\ ~UnderWay(r)'
        /\ \A q \in Requests \ {r} : trip'[q] = trip[q]
    BY <1>4, TripOver
  <2>3. Types' /\ ToldIsBlocked'
    BY <1>4, <2>1, <2>2 DEF Types, ToldIsBlocked
  <2>4. PassedTheGuard'
    BY <2>1, <2>2 DEF PassedTheGuard, UnderWay
  <2>5. QED
    BY <2>2, <2>3, <2>4
<1>6. CASE answer.status = 429 /\ answer.header
  <2> DEFINE until == nextMin(answer.at)
  <2>1. until \in Nat /\ until > answer.at /\ until = MinuteLength * (answer.at \div MinuteLength + 1)
    BY <1>1, NextMinute
  <2>2. SetBlock(r, until) /\ Hear(r, until)
    BY <1>6, <2>1 DEF Handle
  <2>3. told' \in Nat /\ told' <= until
    <3> HIDE DEF answer, now, until
    <3>1. Max({told, until}) \in {told, until}
      BY <1>1, <2>1, MaxOfTwo
    <3>2. QED
      BY <1>1, <1>2, <1>3, <2>1, <2>2, <3>1 DEF Hear
  <2>4. QED
    BY <1>4, <2>1, <2>2, <2>3, GuardMoved
<1>7. CASE answer.status = 429 /\ ~answer.header
  <2> DEFINE until == nextMin(now)
             less == Min({told, until})
  <2>1. until \in Nat /\ until > now
    BY <1>1, NextMinute
  <2>2. SetBlock(r, until) /\ Hear(r, less)
    BY <1>7 DEF Handle
  <2>3. told' \in Nat /\ told' <= until
    <3> HIDE DEF answer, now, until
    <3>1. less \in {told, until} /\ less <= told /\ less <= until
      BY <1>1, <2>1, MinOfTwo
    <3> HIDE DEF less
    <3>2. less \in Nat
      BY <1>1, <2>1, <3>1
    <3>3. Max({told, less}) \in {told, less}
      BY <1>1, <3>2, MaxOfTwo
    <3>4. QED
      BY <1>1, <1>3, <2>1, <2>2, <3>1, <3>2, <3>3 DEF Hear
  <2>4. QED
    BY <1>4, <2>1, <2>2, <2>3, GuardMoved
<1>8. CASE answer.status = 418
  <2> DEFINE until == findRetryAt(answer)
  <2>1. until \in Nat /\ until >= tick /\ until >= answer.until
    BY <1>1, RetryAt
  <2>2. SetBlock(r, until) /\ Hear(r, answer.until)
    BY <1>8 DEF Handle
  <2>3. told' \in Nat /\ told' <= until
    <3> HIDE DEF answer, now, until
    <3>1. Max({told, answer.until}) \in {told, answer.until}
      BY <1>1, MaxOfTwo
    <3>2. QED
      BY <1>1, <1>2, <1>3, <2>1, <2>2, <3>1 DEF Hear
  <2>4. QED
    BY <1>4, <2>1, <2>2, <2>3, GuardMoved
<1>9. QED
  BY <1>2, <1>5, <1>6, <1>7, <1>8

(* Every step of the limiter keeps what is said of requests and times.     *)
LEMMA NextLimiterInv == LimiterInv /\ [LimiterNext]_limiterVars => LimiterInv'
<1> SUFFICES ASSUME LimiterInv, [LimiterNext]_limiterVars PROVE LimiterInv'
  OBVIOUS
<1> USE DEF LimiterInv
<1>1. CASE TickOn
  <2>1. Types' /\ ToldIsBlocked' /\ PassedTheGuard'
    BY <1>1 DEF TickOn, limiterHistory, Types, ToldIsBlocked, PassedTheGuard, UnderWay
  <2>2. TimesAreOrdered'
    BY <1>1 DEF TickOn, Types, Trips, Answers, TimesAreOrdered
  <2>3. QED
    BY <2>1, <2>2
<1>2. ASSUME NEW r \in Requests, TakeTime(r)
      PROVE  LimiterInv'
  <2>1. Types' /\ ToldIsBlocked'
    BY <1>2 DEF TakeTime, limiterHistory, NoAnswer, Types, Trips, Answers, ToldIsBlocked
  <2>2. TimesAreOrdered' /\ PassedTheGuard'
    BY <1>2 DEF TakeTime, limiterHistory, Types, TimesAreOrdered, PassedTheGuard, UnderWay
  <2>3. QED
    BY <2>1, <2>2
<1>3. ASSUME NEW r \in Requests, PassGuard(r)
      PROVE  LimiterInv'
  <2>1. CASE trip[r].now < blockUntil
    <3>1. trip' = [trip EXCEPT ![r] = NoTrip] /\ UNCHANGED <<tick, blockUntil, bannedUntil, told, behind>>
      BY <1>3, <2>1 DEF PassGuard, Pass, limiterHistory
    <3>2. /\ trip' \in [Requests -> Trips] /\ TimesAreOrdered' /\ ~UnderWay(r)'
          /\ \A q \in Requests \ {r} : trip'[q] = trip[q]
      BY <1>3, <3>1, TripOver
    <3>3. QED
      BY <3>1, <3>2 DEF Types, ToldIsBlocked, PassedTheGuard, UnderWay
  <2>2. CASE ~(trip[r].now < blockUntil)
    <3>1. trip' = [trip EXCEPT ![r].step = "passed"] /\ UNCHANGED <<tick, blockUntil, bannedUntil, told, behind>>
      BY <1>3, <2>2 DEF PassGuard, Pass, limiterHistory
    <3>2. Types' /\ ToldIsBlocked'
      BY <3>1 DEF Types, Trips, ToldIsBlocked
    <3>3. TimesAreOrdered'
      BY <1>3, <3>1 DEF Types, Trips, TimesAreOrdered
    <3>4. PassedTheGuard'
      BY <1>3, <2>2, <3>1 DEF Types, Trips, PassedTheGuard, UnderWay
    <3>5. QED
      BY <3>2, <3>3, <3>4
  <2>3. QED
    BY <2>1, <2>2
<1>4. ASSUME NEW r \in Requests, Answer(r)
      PROVE  LimiterInv'
  <2>1. PICK status \in {200, 429, 418}, header \in BOOLEAN :
            /\ IF status # 418 THEN bannedUntil <= tick /\ UNCHANGED bannedUntil
               ELSE IF bannedUntil > tick THEN UNCHANGED bannedUntil
               ELSE bannedUntil' \in tick + 1 .. LastTick
            /\ trip' = [trip EXCEPT ![r] = [step |-> "answered", now |-> @.now,
                   answer |-> [status |-> status, at |-> tick, header |-> header,
                               until |-> IF status = 418 THEN bannedUntil' ELSE 0]]]
    BY <1>4 DEF Answer
  <2>2. UNCHANGED <<tick, blockUntil, told, behind>> /\ trip[r].step = "passed"
    BY <1>4 DEF Answer, limiterHistory
  <2>3. bannedUntil' \in Nat
    BY <2>1, LimiterAssumption DEF Types
  <2>4. [status |-> status, at |-> tick, header |-> header,
         until |-> IF status = 418 THEN bannedUntil' ELSE 0] \in Answers
    BY <2>3 DEF Types, Answers
  <2>5. Types' /\ ToldIsBlocked'
    <3> DEFINE answer == [status |-> status, at |-> tick, header |-> header,
                          until |-> IF status = 418 THEN bannedUntil' ELSE 0]
    <3>1. answer \in Answers
      BY <2>4
    <3>2. trip' = [trip EXCEPT ![r] = [step |-> "answered", now |-> @.now, answer |-> answer]]
      BY <2>1
    <3> HIDE DEF answer
    <3>3. trip' \in [Requests -> Trips]
      BY <3>1, <3>2 DEF Types, Trips
    <3>4. QED
      BY <2>2, <2>3, <3>3 DEF Types, ToldIsBlocked
  <2>6. TimesAreOrdered'
    BY <1>4, <2>1, <2>2 DEF Types, Trips, TimesAreOrdered
  <2>7. PassedTheGuard'
    BY <1>4, <2>1, <2>2 DEF Types, Trips, PassedTheGuard, UnderWay
  <2>8. QED
    BY <2>5, <2>6, <2>7
<1>5. ASSUME NEW r \in Requests, RequestFails(r)
      PROVE  LimiterInv'
  <2>1. /\ trip' = [trip EXCEPT ![r] = NoTrip] /\ UNCHANGED <<tick, blockUntil, bannedUntil, told>>
        /\ behind' = behind \ {r}
    BY <1>5 DEF RequestFails
  <2>2. /\ trip' \in [Requests -> Trips] /\ TimesAreOrdered' /\ ~UnderWay(r)'
        /\ \A q \in Requests \ {r} : trip'[q] = trip[q]
    BY <1>5, <2>1, TripOver
  <2>3. QED
    BY <2>1, <2>2 DEF Types, ToldIsBlocked, PassedTheGuard, UnderWay
<1>6. ASSUME NEW r \in Requests, Handle(r)
      PROVE  LimiterInv'
  BY <1>6, HandleKeepsInv
<1>7. CASE UNCHANGED limiterVars
  BY <1>7 DEF limiterVars, limiterHistory, Types, TimesAreOrdered, ToldIsBlocked, PassedTheGuard, UnderWay
<1>8. QED
  BY <1>1, <1>2, <1>3, <1>4, <1>5, <1>6, <1>7 DEF LimiterNext

(* transport_limiter.go: the guard of roundTripBinance, which every answer *)
(* of the exchange may move while other requests are under way, lets no    *)
(* request pass before the time up to which the client was told to wait,   *)
(* unless an older request took that back.                                 *)
THEOREM GuardHolds == LimiterSpec => []LimitsHoldRequests
<1>1. LimiterInv => LimitsHoldRequests
  <2> SUFFICES ASSUME LimiterInv, NEW r \in Requests,
                      trip[r].step \in {"passed", "answered"}, trip[r].now < told
               PROVE  r \in behind
    BY DEF LimitsHoldRequests
  <2>1. trip[r].now \in Nat /\ told \in Nat /\ blockUntil \in Nat
    BY DEF LimiterInv, Types, Trips
  <2>2. QED
    BY <2>1 DEF LimiterInv, ToldIsBlocked, PassedTheGuard, UnderWay
<1>2. QED
  BY <1>1, InitLimiterInv, NextLimiterInv, PTL DEF LimiterSpec

-----------------------------------------------------------------------------
(* The time, and that of a ban, stay within the bound.                     *)
LimiterBounds == LimiterInv /\ tick \in 1 .. LastTick /\ bannedUntil \in 0 .. LastTick

(* The bounds of the time hold at first.                                   *)
LEMMA LimiterInitInv == LimiterInit => LimiterBounds
  BY InitLimiterInv, LimiterAssumption DEF LimiterBounds, LimiterInit

(* Every step keeps them too.                                              *)
LEMMA LimiterStep ==
    ASSUME LimiterBounds, LimiterNext \/ UNCHANGED limiterVars
    PROVE  LimiterBounds'
  <1>1. LimiterInv'
    BY NextLimiterInv DEF LimiterBounds
  <1>2. tick' \in 1 .. LastTick
    <2>1. CASE TickOn
      BY <2>1, LimiterAssumption DEF TickOn, LimiterBounds
    <2>2. ASSUME NEW r \in Requests, TakeTime(r) \/ PassGuard(r) \/ Answer(r) \/ RequestFails(r) \/ Handle(r)
          PROVE  tick' = tick
      BY <2>2 DEF TakeTime, PassGuard, Pass, Answer, RequestFails, Handle
    <2> QED  BY <2>1, <2>2 DEF LimiterBounds, LimiterNext, limiterVars
  <1>3. ASSUME NEW r \in Requests, Answer(r)
        PROVE  bannedUntil' \in 0 .. LastTick
    <2>1. PICK status \in {200, 429, 418} :
              IF status # 418 THEN bannedUntil <= tick /\ UNCHANGED bannedUntil
              ELSE IF bannedUntil > tick THEN UNCHANGED bannedUntil
              ELSE bannedUntil' \in tick + 1 .. LastTick
      BY <1>3 DEF Answer
    <2> QED  BY <2>1, LimiterAssumption DEF LimiterBounds
  <1>4. bannedUntil' \in 0 .. LastTick
    BY <1>3 DEF LimiterBounds, LimiterNext, TickOn, TakeTime, PassGuard, Pass, RequestFails, Handle, limiterVars
  <1> QED  BY <1>1, <1>2, <1>4 DEF LimiterBounds

(* The property is a part of the invariant.                                *)
LEMMA LimiterInvImplies == LimiterBounds => LimiterTypeOK /\ LimitsHoldRequests
  <1> SUFFICES ASSUME LimiterBounds
               PROVE  LimiterTypeOK /\ LimitsHoldRequests
    OBVIOUS
  <1>1. \A r \in Requests : trip[r].now \in Nat /\ trip[r].step \in {"none", "timed", "passed", "answered"}
    BY DEF LimiterBounds, LimiterInv, Types, Trips
  <1>2. LimiterTypeOK
    BY <1>1 DEF LimiterBounds, LimiterInv, Types, TimesAreOrdered, LimiterTypeOK
  <1>3. told \in Nat /\ blockUntil \in Nat
    BY DEF LimiterBounds, LimiterInv, Types
  <1>4. LimitsHoldRequests
    BY <1>1, <1>3 DEF LimitsHoldRequests, LimiterBounds, LimiterInv, ToldIsBlocked, PassedTheGuard, UnderWay
  <1> QED  BY <1>2, <1>4

-----------------------------------------------------------------------------
ServicesInv ==
    /\ TxInv /\ AddressesInv /\ TokensInv /\ FeesInv /\ AppsInv
    /\ CacheInv /\ ProfilesInv /\ LimiterBounds

(* The invariants of all services hold at first.                           *)
LEMMA ServicesInitInv == Init => ServicesInv
  BY TxInitInv, AddressesInitInv, TokensInitInv, FeesInitInv, AppsInitInv, CacheInitInv, ProfilesInitInv,
     LimiterInitInv
     DEF Init, ServicesInv

(* A step is one of every service, or leaves it alone.                     *)
LEMMA EveryServiceSteps ==
    ASSUME [Next]_vars
    PROVE  /\ TxNext \/ UNCHANGED txVars
           /\ AddressesNext \/ UNCHANGED addressVars
           /\ TokensNext \/ UNCHANGED tokensVars
           /\ FeesNext \/ UNCHANGED feeVars
           /\ AppsNext \/ UNCHANGED appVars
           /\ CacheNext \/ UNCHANGED cacheVars
           /\ ProfilesNext \/ UNCHANGED profileVars
           /\ LimiterNext \/ UNCHANGED limiterVars
  <1>1. CASE UNCHANGED vars
    BY <1>1 DEF vars
  <1>2. CASE Next
    <2>1. CASE Running("transactions", TxNext)
      BY <2>1 DEF Running, Idle
    <2>2. CASE Running("addresses", AddressesNext)
      BY <2>2 DEF Running, Idle
    <2>3. CASE Running("tokens", TokensNext)
      BY <2>3 DEF Running, Idle
    <2>4. CASE Running("fees", FeesNext)
      BY <2>4 DEF Running, Idle
    <2>5. CASE Running("apps", AppsNext)
      BY <2>5 DEF Running, Idle
    <2>6. CASE Running("block times", CacheNext)
      BY <2>6 DEF Running, Idle
    <2>7. CASE Running("profiles", ProfilesNext)
      BY <2>7 DEF Running, Idle
    <2>8. CASE Running("limiter", LimiterNext)
      BY <2>8 DEF Running, Idle
    <2> QED  BY <1>2, <2>1, <2>2, <2>3, <2>4, <2>5, <2>6, <2>7, <2>8 DEF Next
  <1> QED  BY <1>1, <1>2

(* Every step keeps those of all services.                                 *)
LEMMA ServicesStep ==
    ASSUME ServicesInv, [Next]_vars
    PROVE  ServicesInv'
  BY EveryServiceSteps, TxStep, AddressesStep, TokensStep, FeesStep, AppsStep, CacheStep, ProfilesStep, LimiterStep
     DEF ServicesInv

(* The invariant from which the theorems below follow.                     *)
THEOREM ServicesInvariant == Spec => []ServicesInv
  BY ServicesInitInv, ServicesStep, PTL DEF Spec

(* Every service keeps its types.                                          *)
THEOREM ServicesTypes == Spec => []TypeOK
  <1>1. ServicesInv => TypeOK
    BY TxInvImplies, TokensInvImplies, FeesInvImplies, AppsInvImplies, LimiterInvImplies
       DEF ServicesInv, AddressesInv, TypeOK
  <1> QED  BY <1>1, ServicesInvariant, PTL

(* accounting-reserve-transaction-fetcher and burned-fees-crawler: killed  *)
(* or not, a run leaves out no transaction below the resume point of its   *)
(* address, a completed one less than a batch above, and no burn fee below *)
(* the newest one stored; what is stored again is where chunks meet.       *)
THEOREM FetchersLeaveNothingOut == Spec => []NothingIsLeftOut
  <1>1. ServicesInv => NothingIsLeftOut
    BY TxInvImplies, FeesInvImplies DEF ServicesInv, NothingIsLeftOut
  <1> QED  BY <1>1, ServicesInvariant, PTL

(* BlockTimeResolver and CachedClient: however lookups race, a full cache  *)
(* finds an entry to evict, a cached block or profile can be evicted, and  *)
(* the cache stays within its size, plus one for every race.               *)
THEOREM CachesStayInStep == Spec => []CachesAgree
  <1>1. ServicesInv => CachesAgree
    BY CacheInvImplies, ProfilesInvImplies DEF ServicesInv, CachesAgree
  <1> QED  BY <1>1, ServicesInvariant, PTL

(* accounting-listed-token-fetcher and app-names: what a reserve lists,    *)
(* and the addresses an application was given last, are what is returned.  *)
THEOREM GivenIsReturned == Spec => []WhatWasGivenIsReturned
  <1>1. ServicesInv => WhatWasGivenIsReturned
    BY TokensInvImplies, AppsInvImplies DEF ServicesInv, WhatWasGivenIsReturned
  <1> QED  BY <1>1, ServicesInvariant, PTL

(* The triggers of addresses and save_token: a version counts the changes  *)
(* of the data, all of them and nothing else, and a reader is given no     *)
(* data that are newer than the version it is given.                       *)
THEOREM VersionsCount == Spec => VersionsCountChanges
  <1>1. ServicesInv => ReadIsNotNewer
    BY DEF ServicesInv, AddressesInv
  <1>2. ServicesInv /\ [Next]_vars => [addressVersion' = addressVersion => addressRows' = addressRows]_addressVars
    BY EveryServiceSteps, RowsChangeWithTheVersion DEF ServicesInv
  <1>3. ServicesInv /\ [Next]_vars => [settled /\ settled' /\ Agree => tokensVersion' = tokensVersion]_tokensVars
    BY EveryServiceSteps, QuietSave DEF ServicesInv
  <1>4. ServicesInv /\ [Next]_vars =>
            [(\E r \in Listers : GetTokens(r)' # GetTokens(r)) => tokensVersion' = tokensVersion + 1]_tokensVars
    BY EveryServiceSteps, AnswersChangeWithTheVersion DEF ServicesInv
  <1> QED
    BY <1>1, <1>2, <1>3, <1>4, ServicesInvariant, PTL
       DEF Spec, VersionsCountChanges, VersionNamesOneContent, QuietRunKeepsVersion, ChangeIsCounted
=============================================================================
