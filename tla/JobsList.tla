------------------------------ MODULE JobsList ------------------------------
(***************************************************************************)
(* The list of a buyer's jobs (JobsList.tsx), loaded from the worker       *)
(* (routes/jobs.ts) whenever a wallet connects or the buyer asks again.    *)
(* Loads are not cancelled, and each is answered when it is answered.      *)
(*                                                                         *)
(* What the worker has of one payer's jobs is told apart by its version,   *)
(* which grows as the jobs move on; JobPage has what a job looks like.     *)
(* The jobs remembered by the browser itself are left out.                 *)
(***************************************************************************)
EXTENDS Naturals

CONSTANTS
  Wallets, NoWallet,
  MaxVersion,   \* bound: moves of a payer's jobs
  MaxLoads,     \* bound: loads under way at once
  MaxConnects,  \* bound: wallets connected, one after another
  MaxFailures   \* bound: loads that fail

VARIABLES
  ledger,    \* vk_jobs: the version of each payer's jobs
  address,   \* of the connected wallet
  list,      \* jobs: nothing, or whose they are and at which version
  loading, failed,
  load,      \* loads: where each is, for whom, and what its answer will say
  connects, failures

listVars == <<ledger, address, list, loading, failed, load, connects, failures>>

ASSUME ListAssumption ==
  /\ NoWallet \notin Wallets
  /\ MaxVersion \in Nat /\ MaxLoads \in Nat /\ MaxConnects \in Nat /\ MaxFailures \in Nat

Loads == 1 .. MaxLoads
NoList == [of |-> NoWallet, version |-> 0]
Unused == [at |-> "free", says |-> NoList]

ListInit ==
  /\ ledger = [w \in Wallets |-> 0] /\ address = NoWallet
  /\ list = NoList /\ loading = FALSE /\ failed = FALSE
  /\ load = [l \in Loads |-> Unused]
  /\ connects = 0 /\ failures = 0
------------------------------------------------------------------------------
(* External: a job of the payer is posted, or moves on.                    *)
JobMoves(w) ==
  /\ ledger[w] < MaxVersion /\ ledger' = [ledger EXCEPT ![w] = @ + 1]
  /\ UNCHANGED <<address, list, loading, failed, load, connects, failures>>

(* load(): the list of before stays until the answer is there.             *)
Load(payer) ==
  /\ loading' = TRUE /\ failed' = FALSE
  /\ \E l \in Loads :
       /\ load[l].at = "free"
       /\ load' = [load EXCEPT ![l] = [at |-> "asked", says |-> [of |-> payer, version |-> 0]]]

(* A wallet connects, or the buyer switches accounts: the effect loads.    *)
Connect(w) ==
  /\ w # address /\ connects < MaxConnects /\ connects' = connects + 1
  /\ address' = w /\ Load(w)
  /\ UNCHANGED <<ledger, list, failures>>

Disconnect ==
  /\ address # NoWallet /\ address' = NoWallet /\ list' = NoList
  /\ UNCHANGED <<ledger, loading, failed, load, connects, failures>>

(* Mutant: the button is not disabled while a load is under way.           *)
RefreshAgain ==
  /\ address # NoWallet /\ Load(address)
  /\ UNCHANGED <<ledger, address, list, connects, failures>>

Refresh ==
  /\ address # NoWallet /\ ~loading /\ Load(address)
  /\ UNCHANGED <<ledger, address, list, connects, failures>>

(* GET /api/jobs?payer=...                                                 *)
ListByPayer(l) ==
  /\ load[l].at = "asked"
  /\ LET payer == load[l].says.of
     IN load' = [load EXCEPT ![l] = [at |-> "read", says |-> [of |-> payer, version |-> ledger[payer]]]]
  /\ UNCHANGED <<ledger, address, list, loading, failed, connects, failures>>

Ends(l) == load' = [load EXCEPT ![l] = Unused] /\ loading' = FALSE

LoadAnswered(l) ==
  /\ load[l].at = "read" /\ Ends(l)
  /\ list' = load[l].says
  /\ UNCHANGED <<ledger, address, failed, connects, failures>>

(* A refusal (the rate limit), a worker that is away, or no answer.        *)
LoadFails(l) ==
  /\ load[l].at # "free" /\ Ends(l)
  /\ failures < MaxFailures /\ failures' = failures + 1
  /\ failed' = TRUE /\ list' = NoList
  /\ UNCHANGED <<ledger, address, connects>>

ListNext ==
  \/ \E w \in Wallets : JobMoves(w) \/ Connect(w)
  \/ \E l \in Loads : ListByPayer(l) \/ LoadAnswered(l) \/ LoadFails(l)
  \/ Disconnect \/ Refresh

ListSpec == ListInit /\ [][ListNext]_listVars
------------------------------------------------------------------------------
ListTypeOK ==
  /\ ledger \in [Wallets -> 0 .. MaxVersion] /\ address \in Wallets \cup {NoWallet}
  /\ list \in [of : Wallets \cup {NoWallet}, version : 0 .. MaxVersion]
  /\ loading \in BOOLEAN /\ failed \in BOOLEAN
  /\ load \in [Loads -> [at : {"free", "asked", "read"},
                         says : [of : Wallets \cup {NoWallet}, version : 0 .. MaxVersion]]]
  /\ connects \in 0 .. MaxConnects /\ failures \in 0 .. MaxFailures

(* Refreshing never takes the list back in time: while the buyer stays     *)
(* with the first wallet, a job once shown settled is not shown open again *)
(* (JobsList.tsx:67, the button is disabled while a load is under way).    *)
ListGoesForward ==
  [][connects' = 1 /\ list.of # NoWallet /\ list'.of # NoWallet =>
       list'.version >= list.version]_listVars
=============================================================================
