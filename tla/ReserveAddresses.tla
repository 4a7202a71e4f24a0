-------------------------- MODULE ReserveAddresses --------------------------
(***************************************************************************)
(* accounting-reserve-addresses: a table of addresses with a version that  *)
(* a trigger counts up, and readers that get both, in two queries.         *)
(***************************************************************************)
EXTENDS Naturals, Functions

CONSTANTS
    KnownAddresses, AddressTypes,
    MaxAddressId,   \* bound: the calls of Create that reach the sequence of ids
    MaxVersion,     \* bound on the version
    Readers,
    NotGiven,       \* a zero address, a type that is not given
    Null

ASSUME AddressesAssumption == MaxAddressId \in Nat /\ MaxVersion \in Nat

VARIABLES
    addressRows,    \* table addresses: id |-> [address, type, timestamp]
    lastAddressId,  \* the sequence of ids
    addressVersion, \* addresses_version, 0 without a row
    readRows,       \* what the first query of a reader's GetAll returned, or Null
    readVersion,    \* the answer of GetAll: its version, or Null before there is one
    rowsOfVersion   \* history: the rows of every version so far

readVars == <<readRows, readVersion>>
addressVars == <<addressRows, lastAddressId, addressVersion, readVars, rowsOfVersion>>

AddressIds == DOMAIN addressRows

AddressesInit ==
    /\ addressRows = [i \in {} |-> Null]
    /\ lastAddressId = 0 /\ addressVersion = 0
    /\ readRows = [r \in Readers |-> Null] /\ readVersion = [r \in Readers |-> Null]
    /\ rowsOfVersion = [v \in {0} |-> addressRows]

(* The resolver's answers: the time of the contract's creation, written as *)
(* the address it is of, or ErrNotAvailable, which is stored as NULL.      *)
Timestamps(address) == {address, Null}

With(rows, id, row) == [i \in DOMAIN rows \cup {id} |-> IF i = id THEN row ELSE rows[i]]

(* Variant: only an INSERT is counted.                                     *)
CountInsert(rows) ==
    /\ addressRows' = rows
    /\ addressVersion' = IF DOMAIN rows # AddressIds THEN addressVersion + 1 ELSE addressVersion
    /\ rowsOfVersion' = With(rowsOfVersion, addressVersion', rows)

(* The statement and its trigger: a row that is inserted or that changes   *)
(* counts the version up.                                                  *)
WriteRows(rows) ==
    /\ addressRows' = rows
    /\ addressVersion' = IF rows # addressRows THEN addressVersion + 1 ELSE addressVersion
    /\ rowsOfVersion' = With(rowsOfVersion, addressVersion', rows)

Taken(address, ids) == \E i \in ids : addressRows[i].address = address

(* Create: an address that exists is refused, but uses up an id.           *)
CreateAddress(address, type) ==
    /\ lastAddressId < MaxAddressId
    /\ lastAddressId' = lastAddressId + 1
    /\ IF Taken(address, AddressIds) THEN UNCHANGED <<addressRows, addressVersion, rowsOfVersion>>
       ELSE \E ts \in Timestamps(address) :
                WriteRows(With(addressRows, lastAddressId',
                               [address |-> address, type |-> type, timestamp |-> ts]))
    /\ UNCHANGED readVars

(* Update: what is not given is kept, except the timestamp, which is that  *)
(* of the address given.                                                   *)
UpdateAddress(id, address, type) ==
    /\ id \in AddressIds
    /\ address # NotGiven => ~Taken(address, AddressIds \ {id})
    /\ \E ts \in Timestamps(address) :
           WriteRows([addressRows EXCEPT ![id] =
               [address |-> IF address # NotGiven THEN address ELSE @.address,
                type |-> IF type # NotGiven THEN type ELSE @.type,
                timestamp |-> ts]])
    /\ UNCHANGED <<lastAddressId, readVars>>

(* Variant: the version is read before the rows.                           *)
VersionFirst(r) ==
    \/ /\ readVersion[r] = Null \/ readRows[r] # Null
       /\ readVersion' = [readVersion EXCEPT ![r] = addressVersion]
       /\ readRows' = [readRows EXCEPT ![r] = Null]
       /\ UNCHANGED <<addressRows, lastAddressId, addressVersion, rowsOfVersion>>
    \/ /\ readVersion[r] # Null /\ readRows[r] = Null
       /\ readRows' = [readRows EXCEPT ![r] = addressRows]
       /\ UNCHANGED <<addressRows, lastAddressId, addressVersion, readVersion, rowsOfVersion>>

(* The two queries of GetAll, the second of which is left out, and the     *)
(* version 0, if there are no rows.                                        *)
GetAll(r) ==
    \/ /\ readRows[r] = Null \/ readVersion[r] # Null
       /\ readRows' = [readRows EXCEPT ![r] = addressRows]
       /\ readVersion' = [readVersion EXCEPT ![r] = IF AddressIds = {} THEN 0 ELSE Null]
       /\ UNCHANGED <<addressRows, lastAddressId, addressVersion, rowsOfVersion>>
    \/ /\ readRows[r] # Null /\ readVersion[r] = Null
       /\ readVersion' = [readVersion EXCEPT ![r] = addressVersion]
       /\ UNCHANGED <<addressRows, lastAddressId, addressVersion, readRows, rowsOfVersion>>

AddressesNext ==
    \/ \E a \in KnownAddresses, t \in AddressTypes : CreateAddress(a, t)
    \/ /\ addressVersion < MaxVersion
       /\ \E i \in AddressIds, a \in KnownAddresses \cup {NotGiven}, t \in AddressTypes \cup {NotGiven} :
              UpdateAddress(i, a, t)
    \/ \E r \in Readers : GetAll(r)

-----------------------------------------------------------------------------
(* Every variable has its type; an address has one row.                    *)
AddressesTypeOK ==
    /\ AddressIds \subseteq 1 .. lastAddressId
    /\ \A i \in AddressIds :
           /\ addressRows[i].address \in KnownAddresses /\ addressRows[i].type \in AddressTypes
           /\ addressRows[i].timestamp \in KnownAddresses \cup {NotGiven, Null}
    /\ IsInjective([i \in AddressIds |-> addressRows[i].address])
    /\ addressVersion \in 0 .. MaxVersion + MaxAddressId
    /\ \A r \in Readers : readVersion[r] \in {Null} \cup 0 .. addressVersion

(* Rows never change under a version: every change of a row by Create or   *)
(* Update gives it a new one, so that readers can notice it.               *)
VersionNamesOneContent ==
    [][addressVersion' = addressVersion => addressRows' = addressRows]_addressVars

(* The rows a reader is given are those of the version it is given or of   *)
(* an earlier one, never newer, however writers run between its queries.   *)
ReadIsNotNewer ==
    \A r \in Readers : readRows[r] # Null /\ readVersion[r] # Null =>
        \E v \in 0 .. readVersion[r] : rowsOfVersion[v] = readRows[r]
=============================================================================
