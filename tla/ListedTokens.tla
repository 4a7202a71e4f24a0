---------------------------- MODULE ListedTokens ----------------------------
(***************************************************************************)
(* accounting-listed-token-fetcher: a run reads the tokens every reserve   *)
(* lists at one block and saves them, reserve by reserve.  Of the tokens   *)
(* with one symbol and name a reserve lists, the one whose contract is the *)
(* oldest is stored as current and is the parent of the others.            *)
(***************************************************************************)
EXTENDS Naturals, FiniteSets

CONSTANTS
    Tokens,         \* contract addresses
    KeyOf,          \* KeyOf[t]: symbol and name of t
    TimeOf,         \* TimeOf[t]: when the contract was created
    Listers,        \* the reserves
    MaxListings,    \* bound on the changes of what the reserves list
    MaxRunStops,    \* bound on the runs that fail
    MaxTokensVersion, \* bound on the version at which a run may start
    NoParent

ASSUME TokensAssumption ==
    /\ \A t \in Tokens : TimeOf[t] \in Nat
    /\ \A t, u \in Tokens : TimeOf[t] = TimeOf[u] => t = u
    /\ NoParent \notin Tokens

VARIABLES
    listed,         \* listed[r]: the tokens reserve r lists now
    atBlock,        \* what they listed at the block of the run
    todo,           \* the reserves the run has not saved yet
    parentOf,       \* table listed_tokens: token |-> its parent or NoParent
    tokenLinks,     \* table listed_tokens_reserves_tokens: <<token, reserve>>
    tokensVersion,
    listings, runStops,
    settled         \* history: atBlock was saved as a whole and nothing since

tokensVars == <<listed, atBlock, todo, parentOf, tokenLinks, tokensVersion, listings, runStops, settled>>

Stored == DOMAIN parentOf

TokensInit ==
    /\ listed = [r \in Listers |-> {}] /\ atBlock = [r \in Listers |-> {}]
    /\ todo = {}
    /\ parentOf = [t \in {} |-> NoParent] /\ tokenLinks = {} /\ tokensVersion = 0
    /\ listings = 0 /\ runStops = 0 /\ settled = FALSE

(* A reserve lists a token, or one no longer.                              *)
ChangeListing(r, t) ==
    /\ listings < MaxListings
    /\ listings' = listings + 1
    /\ listed' = [listed EXCEPT ![r] = IF t \in @ THEN @ \ {t} ELSE @ \cup {t}]
    /\ UNCHANGED <<atBlock, todo, parentOf, tokenLinks, tokensVersion, runStops, settled>>

StartTokensRun ==
    /\ todo = {} /\ tokensVersion < MaxTokensVersion
    /\ todo' = Listers
    /\ atBlock' = listed
    /\ settled' = (settled /\ listed = atBlock)
    /\ UNCHANGED <<listed, parentOf, tokenLinks, tokensVersion, listings, runStops>>

-----------------------------------------------------------------------------
SameKey(t, tokens) == {u \in tokens : KeyOf[u] = KeyOf[t]}

(* updateListedToken: the current token of those of a key.                 *)
Current(tokens) == CHOOSE c \in tokens : \A u \in tokens : TimeOf[c] <= TimeOf[u]

(* Variant: the parent of a stored token is not updated.                   *)
SaveTokensOnce(tokens) ==
    [t \in Stored \cup tokens |->
        IF t \in Stored THEN parentOf[t]
        ELSE LET c == Current(SameKey(t, tokens)) IN IF t = c THEN NoParent ELSE c]

(* save_token, for the current token of each key and then for its old ones *)
SaveTokens(tokens) ==
    [t \in Stored \cup tokens |->
        IF t \notin tokens THEN parentOf[t]
        ELSE LET c == Current(SameKey(t, tokens)) IN IF t = c THEN NoParent ELSE c]

(* Variant: every old token counts as a change.                            *)
ChangedByOld(tokens, links) ==
    SaveTokens(tokens) # parentOf \/ ~(links \subseteq tokenLinks) \/ \E t \in tokens : SaveTokens(tokens)[t] # NoParent

(* A token is new or has another parent, or it is new to the reserve.      *)
Changed(tokens, links) == SaveTokens(tokens) # parentOf \/ ~(links \subseteq tokenLinks)

(* CreateOrUpdate, a transaction of the database.                          *)
CreateOrUpdateTokens(r) ==
    LET tokens == atBlock[r]
        links  == tokens \X {r}
    IN  /\ r \in todo
        /\ todo' = todo \ {r}
        /\ parentOf' = SaveTokens(tokens)
        /\ tokenLinks' = tokenLinks \cup links
        /\ tokensVersion' = IF Changed(tokens, links) THEN tokensVersion + 1 ELSE tokensVersion
        /\ settled' = (settled \/ todo = {r})
        /\ UNCHANGED <<listed, atBlock, listings, runStops>>

(* A call of the node, of Etherscan or of the database fails, or a kill.   *)
StopTokensRun ==
    /\ todo # {} /\ runStops < MaxRunStops
    /\ runStops' = runStops + 1
    /\ todo' = {}
    /\ UNCHANGED <<listed, atBlock, parentOf, tokenLinks, tokensVersion, listings, settled>>

TokensNext ==
    \/ \E r \in Listers, t \in Tokens : ChangeListing(r, t)
    \/ StartTokensRun
    \/ \E r \in Listers : CreateOrUpdateTokens(r)
    \/ StopTokensRun

-----------------------------------------------------------------------------
(* GetTokens of a reserve: its tokens without a parent, each with the old  *)
(* ones, whichever reserve those are of.                                   *)
GetTokens(r) ==
    { [address |-> t, old |-> {u \in Stored : parentOf[u] = t}] :
        t \in {t \in Stored : parentOf[t] = NoParent /\ <<t, r>> \in tokenLinks} }

(* The reserves that list a token have the same current one.               *)
Agree ==
    \A r, q \in Listers : \A t \in atBlock[r] :
        SameKey(t, atBlock[q]) # {} => Current(SameKey(t, atBlock[q])) = Current(SameKey(t, atBlock[r]))

(* Every variable has its type; a parent is stored and has the same key.   *)
TokensTypeOK ==
    /\ Stored \subseteq Tokens /\ todo \subseteq Listers
    /\ \A t \in Stored : parentOf[t] # NoParent => parentOf[t] \in Stored \ {t} /\ KeyOf[parentOf[t]] = KeyOf[t]
    /\ tokenLinks \subseteq Stored \X Listers
    /\ tokensVersion \in Nat

(* After a run, the tokens of a key that a reserve listed are returned as  *)
(* one token, the others being among its old addresses, whatever it listed *)
(* before, if the reserves agree on which one is current.                  *)
ListedIsReturned ==
    settled /\ Agree =>
        \A r \in Listers : \A t \in atBlock[r] :
            \E c \in SameKey(t, atBlock[r]) : \E token \in GetTokens(r) :
                token.address = c /\ SameKey(t, atBlock[r]) \ {c} \subseteq token.old

(* Runs that find nothing new keep the version: it counts changes only.    *)
QuietRunKeepsVersion == [][settled /\ settled' /\ Agree => tokensVersion' = tokensVersion]_tokensVars

(* What GetTokens returns never changes under a version.                   *)
ChangeIsCounted ==
    [][(\E r \in Listers : GetTokens(r)' # GetTokens(r)) => tokensVersion' = tokensVersion + 1]_tokensVars

(* Apidocs: "Returns list of tokens [...], includes any current and        *)
(* historical listed tokens.  If a token has address changed, the old      *)
(* addresses should be included."                                          *)
HistoryIsReturned ==
    \A link \in tokenLinks : todo = {} =>
        \E q \in Listers : \E token \in GetTokens(q) : link[1] \in {token.address} \cup token.old
=============================================================================
