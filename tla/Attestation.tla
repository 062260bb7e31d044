----------------------------- MODULE Attestation -----------------------------
(***************************************************************************)
(* The ERC-8004 attestation of a settlement: lib/attestor.ts, fired and    *)
(* forgotten after the settlement, builds the evidence bundle, keeps it    *)
(* (lib/evidence-store.ts: a map in memory and a row), opens a request at  *)
(* the Validation Registry on Base and answers it (lib/erc8004-writer.ts), *)
(* over nodes that may lag behind the chain.  Anyone may read the answer   *)
(* back and fetch the bundle it points at (routes/evidence.ts, the SDK's   *)
(* erc8004.ts, scripts/verify-gate-d1.ts).                                 *)
(*                                                                         *)
(* A bundle is a function of its settlement, so the hash of what is served *)
(* is the hash that was answered whenever anything is served.              *)
(***************************************************************************)
EXTENDS Naturals, FiniteSets

CONSTANTS
  Settlements,
  SettledAs,    \* outcome of each settlement: release, refund, partial or abstain
  MaxSends,     \* attempts of simulateSendConfirm
  MaxMisses     \* bound: failed reads, writes and receipts, and restarts

VARIABLES
  registry,  \* external: what the registry holds for each request hash
  lagging,   \* the request hashes whose last change some node does not show
  flight,    \* transactions sent and not yet mined
  attestor,  \* the attestation of each settlement: its step and its attempt
  cache, rows, \* the two layers of the evidence store
  unsaved,   \* bundles whose row could not be written
  checked,   \* what a reader found
  misses

attestVars == <<registry, lagging, flight, attestor, cache, rows, unsaved, checked, misses>>

AttestSteps == {"idle", "kept", "opening", "openSent", "opened", "answering", "answerSent",
          "attested", "skipped", "error"}
SendKinds == {"open", "answer"}

ASSUME AttestationAssumption ==
  /\ SettledAs \in [Settlements -> {"release", "refund", "partial", "abstain"}]
  /\ MaxSends \in Nat \ {0} /\ MaxMisses \in Nat

AttestInit ==
  /\ registry = [s \in Settlements |-> "unknown"] /\ lagging = {} /\ flight = {}
  /\ attestor = [s \in Settlements |-> [at |-> "idle", sends |-> 0]]
  /\ cache = {} /\ rows = {} /\ unsaved = {}
  /\ checked = [s \in Settlements |-> "nothing"] /\ misses = 0

Miss == misses < MaxMisses /\ misses' = misses + 1
Goes(s, step) == attestor' = [attestor EXCEPT ![s] = [at |-> step, sends |-> 0]]
AtStep(s, step) == attestor[s].at = step
store == <<cache, rows, unsaved>>
chainState == <<registry, lagging, flight>>

(* What the node that answers a read may show.                             *)
View(s) ==
  {registry[s]} \cup (IF s \notin lagging THEN {}
                      ELSE IF registry[s] = "answered" THEN {"open"} ELSE {"unknown"})
------------------------------------------------------------------------------
(* Mutant: the bundle is kept in memory alone.                             *)
PutInMemory(s) ==
  /\ cache' = cache \cup {s} /\ UNCHANGED <<rows, unsaved, misses>>

(* The row is best effort: the map still serves when it cannot be written. *)
PutEvidence(s) ==
  /\ cache' = cache \cup {s}
  /\ \/ rows' = rows \cup {s} /\ UNCHANGED <<unsaved, misses>>
     \/ Miss /\ unsaved' = unsaved \cup {s} /\ UNCHANGED rows

(* attestSettlement: an abstain validates nothing; the evidence is served  *)
(* before anything on chain points at it.                                  *)
AttestSettlement(s) ==
  /\ AtStep(s, "idle")
  /\ IF SettledAs[s] = "abstain"
     THEN Goes(s, "skipped") /\ UNCHANGED <<store, misses>>
     ELSE Goes(s, "kept") /\ PutEvidence(s)
  /\ UNCHANGED <<chainState, checked>>

(* hasResponse, read before the request is opened and after.               *)
ReadStatus(s) ==
  /\ AtStep(s, "kept") \/ AtStep(s, "opened")
  /\ \/ /\ \E seen \in View(s) :
             Goes(s, IF seen = "answered" THEN "skipped"
                     ELSE IF AtStep(s, "kept") THEN "opening" ELSE "answering")
        /\ UNCHANGED misses
     \/ Miss /\ Goes(s, "error")
  /\ UNCHANGED <<chainState, store, checked>>

Kind(s) == IF AtStep(s, "opening") THEN "open" ELSE "answer"
Accepts(kind, status) == IF kind = "open" THEN status = "unknown" ELSE status # "unknown"

(* One more attempt, or the error of the last.                             *)
TryAgain(s, step) ==
  IF attestor[s].sends + 1 < MaxSends
  THEN attestor' = [attestor EXCEPT ![s] = [at |-> step, sends |-> attestor[s].sends + 1]]
  ELSE Goes(s, "error")

(* simulateSendConfirm: simulated on one node, then sent.  A request the   *)
(* node says exists is taken as open; an answer to one it does not show is *)
(* tried again.                                                            *)
SimulateAndSend(s) ==
  /\ AtStep(s, "opening") \/ AtStep(s, "answering")
  /\ \/ /\ \E seen \in View(s) :
             IF Accepts(Kind(s), seen)
             THEN /\ flight' = flight \cup {<<s, Kind(s), attestor[s].sends>>}
                  /\ attestor' = [attestor EXCEPT ![s].at =
                                    IF Kind(s) = "open" THEN "openSent" ELSE "answerSent"]
             ELSE /\ IF Kind(s) = "open" THEN Goes(s, "opened") ELSE TryAgain(s, "answering")
                  /\ UNCHANGED flight
        /\ UNCHANGED misses
     \/ Miss /\ TryAgain(s, attestor[s].at) /\ UNCHANGED flight
  /\ UNCHANGED <<registry, lagging, store, checked>>

(* External: a transaction is mined, and does nothing if it is refused.    *)
Mine ==
  /\ \E t \in flight :
       LET s == t[1]  done == Accepts(t[2], registry[s]) IN
         /\ flight' = flight \ {t}
         /\ registry' = IF done THEN [registry EXCEPT ![s] = IF t[2] = "open" THEN "open" ELSE "answered"]
                        ELSE registry
         /\ lagging' = IF done THEN lagging \cup {s} ELSE lagging
  /\ UNCHANGED <<attestor, store, checked, misses>>

CatchUp ==
  /\ \E s \in lagging : lagging' = lagging \ {s}
  /\ UNCHANGED <<registry, flight, attestor, store, checked, misses>>

(* The receipt: of a mined transaction, or none within ninety seconds,     *)
(* and then the transaction is sent again although it may still be mined.  *)
ConfirmSend(s) ==
  /\ AtStep(s, "openSent") \/ AtStep(s, "answerSent")
  /\ LET opening == AtStep(s, "openSent")
         mined == <<s, IF opening THEN "open" ELSE "answer", attestor[s].sends>> \notin flight
     IN  \/ mined /\ Goes(s, IF opening THEN "opened" ELSE "attested") /\ UNCHANGED misses
         \/ Miss /\ TryAgain(s, IF opening THEN "opening" ELSE "answering")
  /\ UNCHANGED <<chainState, store, checked>>

(* Nothing takes an attestation up again.                                  *)
ServerRestarts ==
  /\ Miss /\ cache' = {}
  /\ attestor' = [s \in Settlements |->
                    IF attestor[s].at \in {"idle", "attested", "skipped", "error"} THEN attestor[s]
                    ELSE [at |-> "error", sends |-> 0]]
  /\ UNCHANGED <<chainState, rows, unsaved, checked>>
------------------------------------------------------------------------------
(* getEvidence: the map, then the row, which fills the map again.          *)
GetEvidence(s) == s \in cache \/ s \in rows

Finds(s, what) == checked' = [checked EXCEPT ![s] = what]

(* GET /evidence/:id: the bundle or 404, also when the row cannot be read. *)
HandleGetEvidence(s) ==
  \/ GetEvidence(s) /\ Finds(s, "verified") /\ cache' = cache \cup {s} /\ UNCHANGED misses
  \/ ~GetEvidence(s) /\ Finds(s, "dangling") /\ UNCHANGED <<cache, misses>>
  \/ s \notin cache /\ Miss /\ Finds(s, "unread") /\ UNCHANGED cache

(* A reader: the status of the request, then the bundle at its URI.        *)
ReadValidation(s) ==
  /\ checked[s] # "verified"
  /\ \E seen \in View(s) :
       IF seen = "answered" THEN HandleGetEvidence(s)
       ELSE Finds(s, "unanswered") /\ UNCHANGED <<cache, misses>>
  /\ UNCHANGED <<chainState, attestor, rows, unsaved>>

AttestNext ==
  \/ \E s \in Settlements :
       \/ AttestSettlement(s) \/ ReadStatus(s) \/ SimulateAndSend(s) \/ ConfirmSend(s)
       \/ ReadValidation(s)
  \/ Mine \/ CatchUp \/ ServerRestarts

AttestSpec == AttestInit /\ [][AttestNext]_attestVars
------------------------------------------------------------------------------
AttestTypeOK ==
  /\ registry \in [Settlements -> {"unknown", "open", "answered"}]
  /\ lagging \subseteq Settlements
  /\ flight \subseteq Settlements \X SendKinds \X (0 .. MaxSends - 1)
  /\ attestor \in [Settlements -> [at : AttestSteps, sends : 0 .. MaxSends - 1]]
  /\ cache \subseteq Settlements /\ rows \subseteq Settlements /\ unsaved \subseteq Settlements
  /\ checked \in [Settlements -> {"nothing", "unanswered", "verified", "dangling", "unread"}]
  /\ misses \in 0 .. MaxMisses

(* "The responseURI resolves the instant the tx lands" (attestor.ts:59)    *)
(* and keeps resolving: whoever reads an answer finds the bundle it points *)
(* at, through restarts and lagging nodes, unless its row was never        *)
(* written, or cannot be read just then; and nothing is answered about     *)
(* work that was not validated.                                            *)
AnswersResolve ==
  \A s \in Settlements :
    /\ checked[s] = "dangling" => s \in unsaved
    /\ registry[s] # "unknown" => SettledAs[s] # "abstain" /\ (GetEvidence(s) \/ s \in unsaved)
=============================================================================
