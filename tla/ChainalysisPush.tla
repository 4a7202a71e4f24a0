--------------------------- MODULE ChainalysisPush ---------------------------
(***************************************************************************)
(* trade-logs-chainalysis: reads the trade logs of a range of time, window *)
(* by window, and registers the users' trades to ETH with Chainalysis.     *)
(***************************************************************************)
EXTENDS Naturals, FiniteSetsExt

CONSTANTS
    Users,
    LastMoment,      \* bound: the range is from 1 to this moment
    TimeFrame,       \* maxTimeFrameGetTradeLog
    RetryTimes       \* flag

ASSUME PushAssumption ==
    LastMoment \in Nat \ {0} /\ TimeFrame \in Nat \ {0} /\ RetryTimes \in Nat \ {0}

VARIABLES
    dest,            \* of the trade of a user at a moment: none, to "ETH" or to a "token"
    pushStep,        \* "get", "push", "done" or "failed"
    fromMoment,
    window,          \* the moments of tempToTime's window, with both ends
    attempt,         \* i
    unpushed,        \* the users of mapRegisterData that are left in this attempt
    addressDone,     \* the user whose withdrawal addresses are registered, not yet the transfers
    addresses,       \* of Chainalysis: the trades whose receiver is registered
    transfers        \*                 the trades whose transfer is registered

pushWork == <<pushStep, fromMoment, window, attempt, unpushed, addressDone>>
pushVars == <<dest, pushWork, addresses, transfers>>

Moments == 1 .. LastMoment
EthTrades == {t \in Users \X Moments : dest[t] = "ETH"}

PushInit ==
    /\ dest \in [Users \X Moments -> {"none", "ETH", "token"}]
    /\ pushStep = "get" /\ fromMoment = 1 /\ window = {} /\ attempt = 0
    /\ unpushed = {} /\ addressDone = {}
    /\ addresses = {} /\ transfers = {}

-----------------------------------------------------------------------------
ToRegister == {t \in EthTrades : t[2] \in window}
Of(user) == {t \in ToRegister : t[1] = user}

(* The i-th call of PushETHSentTransferEvent begins.                       *)
BeginAttempt(i, trades) ==
    /\ pushStep' = "push" /\ attempt' = i
    /\ unpushed' = {t[1] : t \in trades} /\ addressDone' = {}

End(how) == pushStep' = how /\ UNCHANGED <<fromMoment, window, attempt, unpushed, addressDone>>

(* GetTradeLogs of a window; an error ends the run.                        *)
GetTradeLogs ==
    LET to == Min({fromMoment + TimeFrame, LastMoment})
    IN  /\ pushStep = "get"
        /\ window' = fromMoment .. to
        /\ BeginAttempt(1, {t \in EthTrades : t[2] \in window'})
        /\ UNCHANGED <<dest, fromMoment, addresses, transfers>>

GetFails ==
    /\ pushStep = "get"
    /\ End("failed")
    /\ UNCHANGED <<dest, addresses, transfers>>

(* registerWithdrawalAddress of a user, in the random order of the map.    *)
RegisterAddress(user) ==
    /\ pushStep = "push" /\ user \in unpushed /\ addressDone = {}
    /\ addresses' = addresses \cup Of(user)
    /\ addressDone' = {user}
    /\ UNCHANGED <<dest, pushStep, fromMoment, window, attempt, unpushed, transfers>>

(* registerSentTransfer of the same user.                                  *)
RegisterTransfer(user) ==
    /\ pushStep = "push" /\ addressDone = {user}
    /\ transfers' = transfers \cup Of(user)
    /\ unpushed' = unpushed \ {user} /\ addressDone' = {}
    /\ UNCHANGED <<dest, pushStep, fromMoment, window, attempt, addresses>>

NextWindow ==
    /\ pushStep' = "get" /\ fromMoment' = Max(window)
    /\ window' = {} /\ attempt' = 0
    /\ UNCHANGED <<unpushed, addressDone>>

(* Variant: a window whose attempts are used up is left alone.             *)
LeaveWindow == IF Max(window) = LastMoment THEN End("done") ELSE NextWindow

(* The last attempt has failed.                                            *)
GiveUp == End("failed")

(* The call of Chainalysis fails, though it may have been served: the      *)
(* attempt ends, and the next one begins, or the run ends after the last.  *)
PushFails ==
    /\ pushStep = "push" /\ unpushed # {}
    /\ \E served \in BOOLEAN :
           IF addressDone = {}
           THEN /\ \E u \in unpushed : addresses' = addresses \cup IF served THEN Of(u) ELSE {}
                /\ UNCHANGED transfers
           ELSE /\ \E u \in addressDone : transfers' = transfers \cup IF served THEN Of(u) ELSE {}
                /\ UNCHANGED addresses
    /\ IF attempt = RetryTimes THEN GiveUp
       ELSE BeginAttempt(attempt + 1, ToRegister) /\ UNCHANGED <<fromMoment, window>>
    /\ UNCHANGED dest

(* A push without an error ends the run after the last window only; that   *)
(* of another window is repeated until the attempts are used up.           *)
PushSucceeds ==
    /\ pushStep = "push" /\ unpushed = {}
    /\ IF Max(window) = LastMoment THEN End("done")
       ELSE IF attempt < RetryTimes
       THEN BeginAttempt(attempt + 1, ToRegister) /\ UNCHANGED <<fromMoment, window>>
       ELSE NextWindow
    /\ UNCHANGED <<dest, addresses, transfers>>

PushWorks ==
    \/ GetTradeLogs
    \/ \E u \in Users : RegisterAddress(u) \/ RegisterTransfer(u)
    \/ PushSucceeds

PushNext == PushWorks \/ GetFails \/ PushFails

-----------------------------------------------------------------------------
(* Every variable has its type; Chainalysis gets trades to ETH only.       *)
PushTypeOK ==
    /\ pushStep \in {"get", "push", "done", "failed"} /\ fromMoment \in Moments
    /\ window \subseteq Moments /\ attempt \in 0 .. RetryTimes
    /\ unpushed \subseteq Users /\ addressDone \subseteq unpushed
    /\ addresses \subseteq EthTrades /\ transfers \subseteq EthTrades

(* A transfer is registered after the address it goes to, also when calls  *)
(* fail that were served, and a run that ends without an error has         *)
(* registered every trade to ETH of its range.                             *)
RunRegistersAll ==
    /\ transfers \subseteq addresses
    /\ pushStep = "done" => transfers = EthTrades
=============================================================================
