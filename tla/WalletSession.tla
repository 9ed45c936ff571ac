----------------------------- MODULE WalletSession -----------------------------
(***************************************************************************)
(* The connected wallet as the browser keeps it: an address in the session *)
(* storage, which transactions are built with (services/wallet.ts), and one*)
(* in the store, which the pages show (hooks/useWallet.ts).  Both are       *)
(* written around two waits: for the extension, and for the balance, which *)
(* is shown with the address and whose failure counts as a balance of zero. *)
(***************************************************************************)
EXTENDS Naturals

CONSTANTS
    Addresses,
    MaxCalls        \* bound: calls of the hook under way

Nobody == "none"
Free == [awaits |-> "nothing", address |-> Nobody]

VARIABLES
    stored,          \* WALLET_STORAGE_KEY
    walletAddress,   \* of the store
    calls,           \* the hook's calls under way
    revived          \* history: the store has an address of an earlier session

sessionVars == <<stored, walletAddress, calls, revived>>

SessionInit ==
    /\ stored = Nobody /\ walletAddress = Nobody
    /\ calls = [c \in 1..MaxCalls |-> Free]
    /\ revived = FALSE

-----------------------------------------------------------------------------
Begin(call) ==
    \E c \in 1..MaxCalls :
       /\ calls[c] = Free /\ \A d \in 1..c - 1 : calls[d] # Free
       /\ calls' = [calls EXCEPT ![c] = call]

End(c) == calls' = [calls EXCEPT ![c] = Free]

(* connect(), from the header's button or from a prompt in place of a form. *)
(* The flag isConnecting disables only the first.                           *)
Connect ==
    /\ walletAddress = Nobody
    /\ Begin([awaits |-> "extension", address |-> Nobody])
    /\ UNCHANGED <<stored, walletAddress, revived>>

(* connectWallet: the extension gives the address of its account; or there  *)
(* is none, or it refuses.                                                  *)
ConnectWallet(c, who) ==
    /\ calls[c].awaits = "extension"
    /\ stored' = who
    /\ calls' = [calls EXCEPT ![c] = [awaits |-> "balance", address |-> who]]
    /\ UNCHANGED <<walletAddress, revived>>

Refused(c) ==
    /\ calls[c].awaits = "extension"
    /\ End(c)
    /\ UNCHANGED <<stored, walletAddress, revived>>

(* Its end writes the address once more.  (A mutant leaves that to          *)
(* connectWallet.)                                                          *)
AsStored(who) == stored
StoredAgain(who) == who

Connected(c) ==
    /\ calls[c].awaits = "balance"
    /\ walletAddress' = calls[c].address
    /\ stored' = StoredAgain(calls[c].address)
    /\ revived' = FALSE
    /\ End(c)

(* A component that uses the hook appears: an address in the storage goes  *)
(* to the store when its balance is known, whatever has happened meanwhile.*)
Mount ==
    /\ stored # Nobody
    /\ Begin([awaits |-> "restore", address |-> stored])
    /\ UNCHANGED <<stored, walletAddress, revived>>

Restored(c) ==
    /\ calls[c].awaits = "restore"
    /\ walletAddress' = calls[c].address
    /\ revived' = (calls[c].address # stored)
    /\ End(c)
    /\ UNCHANGED stored

Disconnect ==
    /\ walletAddress # Nobody
    /\ stored' = Nobody /\ walletAddress' = Nobody
    /\ revived' = FALSE
    /\ UNCHANGED calls

(* The page is loaded anew: the storage stays, and the header restores it.  *)
Reload ==
    /\ walletAddress' = Nobody /\ revived' = FALSE
    /\ calls' = [c \in 1..MaxCalls |->
                   IF c = 1 /\ stored # Nobody
                   THEN [awaits |-> "restore", address |-> stored] ELSE Free]
    /\ UNCHANGED stored

SessionNext ==
    \/ Connect \/ Mount \/ Disconnect \/ Reload
    \/ \E c \in 1..MaxCalls :
          \/ Refused(c) \/ Connected(c) \/ Restored(c)
          \/ \E who \in Addresses : ConnectWallet(c, who)

SessionSpec == SessionInit /\ [][SessionNext]_sessionVars

-----------------------------------------------------------------------------
(* Properties *)

(* Connecting twice with two accounts, mounting and disconnecting in any    *)
(* order: when nothing is under way, the address the pages show is the one *)
(* transactions are built with, unless a restored address came late.        *)
ShownIsUsed ==
    (\A c \in 1..MaxCalls : calls[c] = Free) /\ ~revived => walletAddress = stored
==============================================================================
