------------------------------ MODULE AppNames ------------------------------
(***************************************************************************)
(* app-names: applications with a name and addresses, an address being of  *)
(* one application.  Every call that writes is one statement or one        *)
(* transaction, and the row of the application is locked by it first.      *)
(***************************************************************************)
EXTENDS Naturals

CONSTANTS
    Names, AppAddresses,
    MaxAppId,       \* bound on the ids taken from the sequence
    NoName          \* an empty name

ASSUME AppsAssumption == MaxAppId \in Nat

VARIABLES
    appRows,        \* table app_names: id |-> [name, active]
    appOf,          \* table addresses: address |-> id
    lastAppId,      \* the sequence of ids
    given           \* history: the addresses last given to an application, without
                    \* those given to another one since

appVars == <<appRows, appOf, lastAppId, given>>

AppIds == DOMAIN appRows
AddressesOf(id) == {a \in DOMAIN appOf : appOf[a] = id}
Named(name) == {i \in AppIds : appRows[i].name = name}

AppsInit ==
    /\ appRows = [i \in {} |-> NoName] /\ appOf = [a \in {} |-> 0] /\ lastAppId = 0
    /\ given = [i \in 1 .. MaxAppId |-> {}]

Put(addresses, id, kept) == [a \in addresses \cup kept |-> IF a \in addresses THEN id ELSE appOf[a]]

(* Variant: the addresses that are not given any more stay.                *)
AddAddresses(id, addresses) == Put(addresses, id, DOMAIN appOf)

(* The addresses go to the application, also from another one, and those   *)
(* that are not given are removed from it.  An empty list is NULL in the   *)
(* statement and changes nothing.                                          *)
SetAddresses(id, addresses) ==
    IF addresses = {} THEN appOf ELSE Put(addresses, id, DOMAIN appOf \ AddressesOf(id))

(* What both functions do for application `id`, new or known: it is active *)
(* again, whether it was deleted or not.                                   *)
WriteApp(id, name, addresses) ==
    /\ appRows' = [i \in AppIds \cup {id} |->
                     IF i = id THEN [name |-> name, active |-> TRUE] ELSE appRows[i]]
    /\ appOf' = SetAddresses(id, addresses)
    /\ given' = IF addresses = {} THEN given
                ELSE [i \in 1 .. MaxAppId |-> IF i = id THEN addresses ELSE given[i] \ addresses]

(* Variant: a known name gets a new application.                           *)
CreateAlways(name, addresses) ==
    /\ lastAppId < MaxAppId
    /\ lastAppId' = lastAppId + 1
    /\ WriteApp(lastAppId', name, addresses)

(* create_or_update_app without an id: an application with the name is     *)
(* updated, though the sequence has moved on.                              *)
CreateApp(name, addresses) ==
    /\ lastAppId < MaxAppId
    /\ lastAppId' = lastAppId + 1
    /\ IF Named(name) # {} THEN \E i \in Named(name) : WriteApp(i, name, addresses)
       ELSE WriteApp(lastAppId', name, addresses)

(* create_or_update_app with an id.  An empty name, the name of another    *)
(* application and, with addresses, an unknown id are refused; an unknown  *)
(* id without addresses is reported as updated and changes nothing.        *)
ReplaceApp(id, name, addresses) ==
    /\ id \in AppIds /\ name # NoName
    /\ Named(name) \subseteq {id}
    /\ WriteApp(id, name, addresses)
    /\ UNCHANGED lastAppId

(* update_app: an empty name is kept; an unknown id is refused.            *)
UpdateApp(id, name, addresses) ==
    /\ id \in AppIds
    /\ Named(name) \subseteq {id}
    /\ WriteApp(id, IF name = NoName THEN appRows[id].name ELSE name, addresses)
    /\ UNCHANGED lastAppId

(* Delete: the application keeps its name and its addresses.               *)
DeleteApp(id) ==
    /\ id \in AppIds
    /\ appRows' = [appRows EXCEPT ![id].active = FALSE]
    /\ UNCHANGED <<appOf, lastAppId, given>>

AppsNext ==
    \E addresses \in SUBSET AppAddresses :
        \/ \E n \in Names : CreateApp(n, addresses)
        \/ \E i \in 1 .. MaxAppId :
               \/ \E n \in Names : ReplaceApp(i, n, addresses)
               \/ \E n \in Names \cup {NoName} : UpdateApp(i, n, addresses)
               \/ DeleteApp(i)

-----------------------------------------------------------------------------
(* Every variable has its type; a name has one application, deleted or not.*)
AppsTypeOK ==
    /\ AppIds \subseteq 1 .. lastAppId /\ lastAppId <= MaxAppId
    /\ \A i, j \in AppIds : appRows[i].name = appRows[j].name => i = j
    /\ \A a \in DOMAIN appOf : a \in AppAddresses /\ appOf[a] \in AppIds

(* Whatever was called in between, also Delete and a call that made it     *)
(* active again, an application has the addresses it was given last, less  *)
(* those given to another application since.                               *)
AddressesAreTheLastGiven == \A i \in AppIds : AddressesOf(i) = given[i]
=============================================================================
