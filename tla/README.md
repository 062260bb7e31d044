# Verdikt: specifications, model checking and proofs

Verdikt is an escrow with a judge. A buyer puts USDC into a contract on Arc under a work id, a
seller delivers an artifact, a worker process turns the artifact into evidence and a verdict, and
the verdict decides where the money goes: to the seller, back to the buyer, or split. This
directory holds TLA+ modules of that system, TLC configurations that check them on small
instances, and TLAPS proofs that every safety property those runs check holds for every instance,
not only the small ones: of the contract with its hook, the job engine, the pipeline, the routes and
their fee, the sellers, the attestations, the offers, the pages and the agents. Paths in this file are
relative to `src/`.

## 1. The system

| Component | State it keeps | Operations | Talks to |
|---|---|---|---|
| Escrow contract `contracts/src/VerdiktEscrow.sol` | `escrows`, `totalEscrowed`, three roles, its USDC balance | three funding paths, `settle`, `settlePartial`, `refundExpired`, `sweep`, role setters | USDC (EIP-3009), CCTP |
| Funding hook `contracts/src/EscrowFundingHook.sol` | its owner, its USDC balance, CCTP's used nonces | `mintAndFund`, `adminMint`, `adminFundFromBalance`, `rescue`, `transferOwnership` | CCTP, the escrow |
| Job machine `worker/src/lib/job-machine.ts` | none (tables of legal moves) | `canTransition`, `outcomeToState` | the job store |
| Job engine, store and keeper `worker/src/lib/job-*.ts`, `keeper.ts`, `routes/jobs.ts`, `routes/callback.ts` | rows of `vk_jobs`; `vk_verdicts` by work id | start, deliver, expire, dispute, finalize; three sweeps | seller, model, Circle wallet, escrow |
| Verdict pipeline `worker/src/engine/`, `settlement/tiers.ts`, `lib/arbiter.ts` | `vk_verdicts`, `vk_evidence` | gather evidence, reason, plan the settlement, review a dispute | model, sandboxes |
| Synchronous routes `routes/verdict.ts`, `relayer.ts`, `demo.ts`, `try.ts`, `lib/db.ts`, `lib/x402-meter.ts` | rows of `vk_escrows`, the in-memory `inFlight` sets | judge now, relay a funding, run a demo, capture the fee | Circle wallet, x402 gateway, escrow |
| Seller adapters `lib/transport.ts`, `lib/dispatcher.ts`, `lib/adapter/`, sellers `agents/reference`, `agents/x402-facilitator` | the job's `resultRef`, seen `jti`s; tolls on Arc | dispatch a task, pay its toll, fetch a result (REST, A2A, x402), call back | each other, `vk_jobs` |
| Attestation `lib/attestor.ts`, `lib/erc8004*.ts`, `lib/evidence-store.ts` | evidence in memory and in rows, a request and a response on Base | attest a settlement, serve the evidence | ERC-8004 registries |
| Event stream `lib/sse-bus.ts`, `routes/stream.ts` | subscribers and history per work id, in memory | publish, subscribe | browsers |
| Registry, sellers, tasks `lib/registry.ts`, `lib/seller-store.ts`, `routes/tasks.ts` | rows inserted once | probe and list sellers, register criteria | database, sellers |
| Rate limits and faucet `lib/rate-limit.ts`, `routes/faucet.ts` | counters and reservations in memory | admit a call, drip test USDC | Arc |
| SDK `sdk/src/`, MCP server `mcp/src/` | none of their own, but a key's allowance and its balance at Circle's Gateway | create, accept and deliver a task; burn, wait for the attestation, relay; deposit and submit for a verdict | contracts, CCTP, Gateway, worker |
| Web application `web/src/app/` | one page's state: its run, stream, timers, fetched detail or list | start and watch a run, hire, list, follow and dispute a job | worker, wallet |
| ACP evaluator, proof scripts `agents/acp-evaluator`, `agents/src` | handlers under way; a checkpoint file | judge submissions on another market; prove the corridors | worker, contracts |

They interact in four ways. The worker calls the contract through a Circle wallet: it submits
(`lib/circle-wallets.ts:14`), then polls for a hash at most twelve times (`:31`), so a transaction
can land after its caller has stopped waiting. Everything in the worker shares a few database
rows, written by single `UPDATE ... WHERE status IN (...)` statements and by one upsert without
such a condition (`lib/db.ts:52`). Sellers call back, possibly more than once, while the keeper
polls for the same result. And the contract stands alone: the buyer can always call
`refundExpired` on it once the deadline is past. Clients reach the worker through proxies that give up
after a while on requests the worker goes on with, and hear of a run through a stream that may drop.

What is hard here: Node runs one callback at a time, but every `await` lets others in, so what a
call has read can be stale when it acts; a delivery, a dispute, a sweep and the buyer can all try
to close one escrow; the worker restarts and loses its calls but not its transactions; a signed
funding authorization can be submitted by anybody, in any order, late or twice; several roundings
lie between a model's confidence and a split; and the contract keeps one counter for all its
escrows, beside a balance strangers can add to.

What makes each part correct:

- **Contract**: solvent at all times; a principal leaves whole and once; only to the parties bound
  at funding and the treasury; the terms never change; no authorization is used up without its
  deal; nothing is locked for ever.
- **Hook**: what a relayed message funds is exactly what its payer committed to; its balance goes
  nowhere else than into an escrow of that amount or, all of it, to an address its owner rescues to.
- **Jobs**: only legal transitions; one delivery is judged; terminal states agree with the chain;
  nothing is paid while the challenge window is open; every job's money comes out in the end.
- **Pipeline**: a failed item earns nothing; the settlement call is one the contract accepts; a
  dispute never hurts the party that raises it.
- **Routes**: a fee is captured only by the call whose own transaction settled the work; a
  `settled` row tells what happened on chain.
- **Fee**: it is taken only for a verdict the very call rendered, once per work, and what is counted
  and told is what was taken.
- **Sellers**: one toll per job from an honest seller; work a seller was told is accepted counts; finished work is collected.
- **Attestation**: whoever reads an answer finds the evidence it points at.
- **Offers**: an accepted offer is backed by the escrow until the escrow's deadline, and the work
  judged by its criteria.
- **Pages**: what a page shows of a run, a job or the money has happened; a list of jobs does not go
  back in time; no spinner turns for ever.
- **Agents**: no job is completed that the engine did not pass; no corridor counts as proved whose
  seller was not paid.

`PROJECT.json` lists the hazards with their lines and the properties that watch each of them.

## 2. Modules

| Module | Models | Abstract specification |
|---|---|---|
| `EscrowPromise` | nothing in the code: what a deal promises its parties | |
| `VerdiktEscrow` | the contract, USDC, authorizations, CCTP being up or down, time | implements `EscrowPromise` (`KeepsPromise`) |
| `EscrowFundingHook` | the hook; extends `VerdiktEscrow`, so both run together | |
| `JobMachine` | `job-machine.ts` | |
| `JobEngine` | engine, store, keeper, callback and jobs routes, Circle transactions | implements `JobMachine` (`KeepsLifecycle`) |
| `VerdictPipeline` | evidence to settlement, the hold, the arbiter | |
| `VerdictRoute` | the synchronous routes on one `vk_escrows` row | |
| `VerdictFee` | onboarding to the Gateway, submission, the x402 meter, the capture, the row it is counted in | |
| `SellerExchange` | dispatch with retries over three drivers, the toll, the sellers, callback and poll | |
| `Attestation` | attestor, evidence store, registry writer, a reader | |
| `RunPage` | courtroom, public rail and hire page over the event bus | |
| `CrossChainClient` | the SDK's burn, attestation and relay, inbound and outbound; the bridging script | |
| `OfferExchange` | task offers between a payer and a seller; extends `CrossChainClient` | |
| `JobPage` | the page of a job: fetches and events, racing the engine | |
| `JobsList` | the list of a wallet's jobs | |
| `HumanHire` | sellers' registry, the hire flow, the relayer, the faucet | |
| `AcpEvaluator` | Verdikt as evaluator on ACP, the rate limiter | |
| `CorridorMatrix` | the script that proves the cross-chain corridors, with its checkpoint | |
| `VerdiktEscrow_proofs`, `EscrowFundingHook_proofs`, `JobEngine_proofs`, `VerdictPipeline_proofs`, `VerdictRoute_proofs` | theorems about the module of that name (section 5) | |
| `Services_proofs` | theorems about `SellerExchange`, `Attestation`, `RunPage`, `VerdictFee`, `JobsList`, and about `MCServices`, which puts them beside the escrow and the pipeline | |
| `Pages_proofs` | theorems about `JobPage` and `HumanHire` | |
| `Clients_proofs` | theorems about `OfferExchange` with `CrossChainClient`, `AcpEvaluator`, `CorridorMatrix`, and about `MCClients`, which puts them beside the pages | |
| `MC*` | the instances TLC checks | |

**VerdiktEscrow.** `escrows`, `totalEscrowed`, `verdict`, `hook`, `feeRecipient` are the contract's
storage. `usdc` is the token's balance map, with one more holder per bridged recipient; `redeemed`
is EIP-3009's used nonces; `payout` is what the emitted events report per work. A transaction is
atomic, so one external function is one action and each `require` a conjunct: a revert is an
action that is not enabled. `_record` is `Record`; the requires the three funding paths share are
`Fundable`; the effects the three closing functions share are `Close` and `PayOut` (worker, payer,
then fee, in that order, with `_route`'s CCTP branch). Nonces are the tuples the contract hashes,
which takes Keccak to be injective. `Signed` holds what payers signed, including an authorization
that fits no call.

**EscrowFundingHook.** A message is what it mints and the hook data it carries; `message` says
whether its CCTP nonce is consumed and by what. `mintAndFund` measures its balance before and
after and funds with the difference, so a revert in `fundCrossChain` takes the mint back: one
action. The owner's valves are the actions of `Valves`; `StrayToHook` is a plain transfer.
`HookBalanceGuarded` says in which two ways USDC leaves the hook; who called is not part of a state, so
that it was the owner is said by there being no such step while the owner makes no calls.

**JobEngine.** `run` is a slot per engine call in flight: which call, at which `await`, and what it
has read. One action is what happens between two awaits. `Update` is the store's conditional
`UPDATE`; every call that loses it returns as the code does. `tx` is the transaction a slot
submitted: it outlives its run, may be executed (`Land`) or refused or lost (`Fail`) at any time,
and a run polling for it may give up (`GiveUp`). `Throw` ends a run at any await (database,
seller, model, RPC), `Crash` ends all. `chain` is the escrow cut down to status, outcome and
deadline: `Allowed` repeats the contract's guards, and `Fail` may also refuse an allowed one,
which covers a payout bridge that is down. Whether a job is `disputable` is chosen when the row
is inserted.

**VerdictPipeline.** Each route is the set of bundles it can return, given any answer or none from
the model (`CallTool`) and any finding of a sandbox or parser; the gates that a model's claim has
to pass (`LexicalGate`, `ClaimStatus`) are in it. The model's answer is any label with any of
`Confidences` and any citation. The roundings are done in integers of 1/10000: `RoundedScore`,
`Stored` (`NUMERIC(4,3)`), `ProportionalBps`. `PipelineAssumption` leaves out confidences that sit
on a rounding tie, where doubles may go either way. The arbiter's buyer branch that takes a
payout down (`arbiter.ts:107-116`) is in the model and never taken: any failing item already
stops the reasoner from proposing a payout, and no route emits `error`. `BuildAttestation` is what a
settlement publishes: `ResponseScore` follows the verdict's confidence, which a ruling has replaced
by its own.

**VerdictRoute.** `request` says at which await each request is, `row` is its `vk_escrows` row and
remembers whose transaction it names, `inFlight` has an entry per route and work, `charged` the
captured fees. `RecordFunded` is the upsert. `SettleThrows` is the catch of `settleGivenVerdict`,
`Restart` a restart of the worker.

**VerdictFee.** `submission` says where each call of `submit()` is, through the SDK and the worker, and
what it was told. The Gateway is `purse`, `inTransit`, `available` and `captured`: a deposit is mined
before it is credited, verifying a signature reserves nothing, and a capture may settle though its
answer was an error. The lock of a work is one step (its races are `VerdictRoute`'s).

**SellerExchange.** Each dispatch attempt is a request of its own (`call`), with the toll it signed
(`toll`) and the work it started. The worker may stop waiting for any (`TimedOut`) while the
seller goes on, so the states of both ends are apart. `Challenge`, `VerifyToll`, `SettleToll` and `TakeOn`
are the steps of the toll at the facilitator's seller; another seller may redeem a signed toll at any
time and whatever it answers (`TakeToll`; `taken` are the tolls that moved). The driver's error, or
none, decides whether `DispatchAttempt` tries again. `ResultRef` says when the job remembers where its
result will be. `nudge` is what the callback of an A2A seller refers to: its own task, nothing (then the
job's reference counts), another URL, or a bare id; `Refusal` orders the callback's checks, with the
`jti` recorded among them, and `Delivers` is the work the callback brings. `losses` counts lost
answers and writes, so that what holds without any can be said.

**Attestation.** The registry on Base is what a mined transaction made of it; `View` is what a
reader may see of it while nodes lag. `ConfirmSend` may miss a receipt, and then the send is
tried again. The evidence of a settlement is in `cache`, in `rows`, or in neither after a restart.

**RunPage.** One page, its refs (`running`, `stream`, `watchdog`) and the continuation of each run
started on it (`flow`), which goes through the same refs whenever its answer comes. The bus
replays its history to a new subscriber; a browser that reconnects is told it again.

**CrossChainClient, OfferExchange.** `client` says where the payer's call is, `message` how far each
CCTP message is: an attested one can be relayed by anybody (`AnyoneFunds`, `AnyoneDelivers`). The
escrow is what `getEscrow` answers of it. Kinds of works: paid on Arc, across chains, through the
MCP tool, by hand without the SDK, and a plain transfer of the same key. `criteriaHash` is taken to
be injective on the criteria and the undefined members. A price is a number of dollars, so it may end
in half an atomic unit (`Asked`): the escrow gets what `toFixed` makes of it, the seller expects what
`MathRound` does. The cross-chain payer signs for what one reading of the escrow shows, which is
nothing if that node lags (`Readings`), and offers live as long as the caller says (`OfferLives`).

**JobPage.** The engine's order of writes (row, event; settlement, event, row) is kept and the rest
of it cut down. A fetch is answered from two reads, so the page may get a row older than the
escrow beside it. `live` overrides `detail` as the code does (`ShownState`). The history of the stream
is in memory: `WorkerRestarts` empties it, also between a row and its event, and leaves the job as the
engine leaves it; `missed` remembers that a state went unheard that way. `SettlesUnheard` is a
settlement that lands after the engine gave up on it.

**JobsList.** `ledger` is what the worker has of each payer, as a version that grows; `load` holds the
requests under way, each with what its answer will say once it was read. Loads are not cancelled.

**HumanHire.** One page, its hires one after the other; the request of each hire at the relayer and
at the jobs route goes on when the page has given up. `mempool` holds fund transactions that were
sent: each may be mined after its sender stopped waiting. `said` is what the page told the human: the
one catch of the flow (`FlowFails`) says an error or "Nothing was charged", by the error's text.
`HireWorkerRestarts` forgets the faucet's reservations and the requests under way.

**AcpEvaluator.** The ACP contract is a status machine; events are lost or repeated, receipts
unheard. `Judgeable` is the scope gate, `CountHit` the limiter with its window and its day.

**CorridorMatrix.** `work` has a record for every work any run paid for, `script` is the run under
way, `checkpoint` the file. `lagging` is a node that shows a balance from before the last payment.

## 3. Runs

All runs use two workers and finish within a few minutes, most within one.

`services` and `clients` check several components in one run. The components share no variable, and
`part`, chosen at the start, says which one a behaviour is of; the others stay as they began. A
component alone would be a run of seconds, and nothing is lost by checking them side by side:
the states of the run are the sum of theirs.

| Run | States | Bounds, and why they are enough |
|---|---|---|
| `services` | 265 thousand | *escrow*: two works (one can be closed while another is open), four authorizations of which two race for one work and one cannot be redeemed, fees 0 and 1, amount 3 (odd, so a half split rounds), bps at and inside both ends, ttl 1, time up to 3. *pipeline*: three item ids (a pass, a fail and an info together), six confidences: 0, 0.0004 (a score of 0), 0.4945 (loses a digit when stored), 0.66, 0.9999 and 1.2 (over the range). *attestation*: a paid and an abstained settlement, two sends, three misses. *run page*: each page, two runs (the earlier one can disturb the later), a story that fails a test, one that passes, one that abstains and an empty one, one fault. *seller*: each protocol and nudge, two attempts, tolls under, at and over the cap, redeemed at any time, two losses. *fees*: metered or not, three calls of which two are about one work, a stake of two deposits and fees of 1 (a deposit pays one verdict, so calls compete for it), two troubles. *jobs list*: two wallets, each at three versions, two loads at once, two connects, one failure |
| `hook` | 818 thousand | two works, three messages: two for the same work (the second meets a used work id), one whose fee equals what it mints; the owner appointing the zero address or the hook to each role, the valves, a rescue to the seller (`RescueTo`), sweeps, stray money at hook and escrow, a direct funding by the same payer |
| `engine` | 377 thousand | one job, three slots so that a dispute, a finalize and an expiry can be in flight together, two dispatch attempts, one restart, ttl 3, window 1, margin 1, time up to 4 |
| `engine_liveness` | 64 thousand | as `engine` with two slots: liveness needs one slot for what is stuck and one for the sweep |
| `routes` | 848 thousand, after symmetry | two verdict requests, the relayer and two demo runs on one work; verdicts of verdict requests may abstain, the others do not need to |
| `clients` | 926 thousand | *exchange*: a work of each kind but the MCP tool's, whose payer gets no further than `mcp_create_doc` shows, the cross-chain one alone and beside a transfer of the same key that asks for more, one on Arc whose price ends in half an atomic unit, a transfer fee of 1, both parties on Arc, one or both abroad, two criteria of which the payer asks for the first (nothing but the name tells them apart), an offer signed by hand, escrows that may be refunded after 1 of 2 units of time, and offers that live for 1 unit or, outliving them, for 2. *job page*: two fetches at once, one mishap (a drop, a failed fetch or a restart), settlements that release (another outcome differs in its name only). *hire*: one vendor (its reachability and status change), two hires, two requests to the faucet within a cooldown of 1 or after it, one mishap (a restart, or an answer or receipt that is lost). *evaluator*: one job on a route with ground truth or one without, one evaluation per caller and two a day, two troubles. *corridors*: three corridors of which two end on one chain, three works, bounties of 1 and 2 |

What they show: `services` that every deal pays out exactly what was escrowed, once, follows
`EscrowPromise` and is not locked for ever, and that redeemed authorizations back the deal that was
signed; that failed evidence earns nothing whatever the model answers and whoever disputes; that
answers on chain resolve; that a page tells a run in order and stops spinning; that a job pays one
toll, unless its seller takes one and denies it, and a seller's finished work is collected; that a fee is earned, counted and told as taken; and
that a list never goes back in time. `hook` that books and balance agree through
rotations, strays and sweeps, that settlements pay only the bound parties and the treasury, and
that a relay gives its payer the committed deal. `engine` that no interleaving of callbacks, sweeps,
disputes, restarts and the buyer's own refund persists an illegal transition, judges twice, shows a
terminal state the chain did not reach, or pays inside the window. `engine_liveness` that the escrow
of every started job is settled in the end. `routes` that fees and rows follow the chain. `clients`
that an accepted offer is backed until the deadline of its escrow, that the pages show what happened
and that nothing counts as done on another market or chain that was not. `CHECK_DEADLOCK FALSE` is
set where time and calls are bounded, or where one delivery, page or script is followed to its end:
there the model stops because the bound is reached.

Some properties hold only short of a fault the code cannot help, and say so: `TollOnceWhenHeard` (a
lost answer to a paid dispatch costs a second toll, `lib/adapter/x402.ts:89`, and so does a seller that
redeems a toll and answers 402, `:95`), `OneDripWhenHeard` (a drip whose receipt never came is forgotten,
`routes/faucet.ts:54`, and all of them by a restart, `:20`), `HeardDeliveryCounts` (a restart drops an
acknowledged delivery, `routes/callback.ts:99`, and a nudge without a usable reference is spent, `:87-93`),
`OpenTabIsCurrent` (a restart takes states from a tab that it had not heard, `lib/job-engine.ts:204`),
`AnswersResolve` (a row that was never
written), `RelayEndsDelivered` (a settlement that burned two shares has two messages, of which the
SDK relays the first, `sdk/src/crosschain.ts:270`), `SpinnerEnds` (a signature nobody gives). `FeesAreEarned` asks that every fee taken was told only
while nothing went wrong (a capture whose answer was lost is served free, `lib/x402-meter.ts:115`), and
`ListGoesForward` is about the first wallet that connects, for the reason given last below.

Bounds, all named: `MaxTime` (with the guards `now + ttl < MaxTime`, which keep every deadline
inside it), `MaxAttempts` and `MaxCrashes`, the number of `Runs` slots and of `Requests`;
`MaxFaults`, `MaxMisses`, `MaxLosses`, `MaxDrops`, `MaxMishaps` and `MaxTroubles` count what goes wrong, each component's own;
`MaxFailures` with them;
`MaxRuns`, `MaxFetches`, `MaxLoads`, `MaxConnects`, `MaxHires`, `MaxOffers` and `MaxWorks` what is
started, `MaxVersion` the moves of a payer's jobs.
Symmetry is used for jobs, run slots and requests of the same kind, in runs without liveness.
`clients` breaks two symmetries by hand instead: the payer asks for the first criteria, and requests to
the faucet come in in the order of their names (`FirstClickFirst`).

Six runs state what a comment says and find a behaviour of the code that differs:

- `engine_unconfirmed_doc`: the worker gives up polling, the settlement lands later, and from then
  on every `refundExpired` of the keeper reverts: the job stays non-terminal for ever
  (`job-engine.ts:200-201` says the keeper expires it). The money is where it should be, which
  `engine_liveness` shows; the row never says so.
- `engine_two_jobs_doc`: nothing stops a second job on a work that has one. If it is not disputable
  it settles the escrow while the first is held for its challenge window (`job-engine.ts:184-187`).
  The other runs on the engine have one job per work, so their `NothingPaidInTheWindow` is about
  a work with one job.
- `route_lock_doc`: `recordFunded` writes `funded` over `judging`, so a second verdict request can
  take the lock for the same work. `routes` shows what still holds: one fee, one settlement.
- `pipeline_held_doc`: a held verdict is settled from a confidence rounded to three digits; with
  0.4945 the score is 50 instead of 49.
- `pipeline_error_doc`: the arbiter never looks at `routeError`, so the seller's dispute turns the
  refund for a test suite too weak to certify into a release.
- `mcp_create_doc`: the MCP tool names every optional criterion, the absent ones undefined. JSON
  drops them on the way to the worker and `canonical` hashes them as `null`, so the hashes differ and
  `createTask` reports a silent swap (`sdk/src/client.ts:104`) though the worker keeps what it was sent.

Read in the code and not given a run:

- A demo request is checked against `inFlight` before the awaits after which it is added
  (`routes/demo.ts:71-85`), so two can be admitted; `routes` lets both in and its properties hold all
  the same.
- A ruling that releases carries confidence 1, also when it turns a dispute down (`lib/arbiter.ts:80`,
  though `:122` says that then "the engine's verdict stands"): a release held at 0.66 is published as 100
  if its buyer disputed in vain, and as 66 if nobody did.
- `ensureOnboarded` (`sdk/src/client.ts:241`) remembers no deposit that is mined and not yet credited, so
  a second call in between deposits again; `:233-234` calls it idempotent.
- A work whose funding has no row and cannot be read from the chain is refused like one that was judged
  (`routes/verdict.ts:68`), which `submit` turns into `AlreadyJudgedError`.
- The catch of the hire flow (`web/src/app/components/HireFlow.tsx:201-204`) says "Signature rejected.
  Nothing was charged." of every error whose text has "rejected" or "denied", and is the catch of all four
  calls: `routes/jobs.ts:84` forwards the text of an RPC error after the escrow was funded. So
  `PageTellsTheMoney` says nothing of that sentence.
- A seller that redeems a signed toll and still answers 402 makes `dispatch` throw, and the next attempt
  signs another one (`lib/adapter/x402.ts:95`); the comment at `:93-94` takes it that a 402 means that the
  toll was not settled. `TollOnceWhenHeard` does not count such a toll.
- An A2A nudge whose reference is missing or a bare task id (`lib/adapter/a2a.ts:68` stores one) is refused
  after its `jti` was recorded (`routes/callback.ts:79-93`): if that answer is lost, the nudge posted again
  is a duplicate although nothing is being taken. The work is left to the keeper's poll.
- `createTaskCrossChain` signs for what one reading of the escrow shows (`sdk/src/client.ts:180`), without a
  look at its status and over another RPC than the one that waited for the funding: on a lagging node the
  offer is for 0, and no seller can accept it. Nor can one accept a price of 5.0000005: `toFixed(6)`
  escrows 5000000 units (`sdk/src/escrow.ts:130`), `Math.round` expects 5000001 (`sdk/src/client.ts:271`).
- An offer lives as long as its payer says (`expiresInSeconds`, `sdk/src/client.ts:120`) and is never
  compared with the deadline of the escrow: one accepted and still open may have been refunded.
- The engine writes a row before it emits the event (`lib/job-engine.ts:204-205`, `:225-226`), and the
  history of the stream is in memory: a restart in between leaves an open tab on the state before, until
  it is loaded again.
- `load` (`web/src/app/components/JobsList.tsx:36`) does not compare the payer it asked for with the
  wallet connected when the answer comes: after a switch, the jobs of the earlier wallet may be
  shown.

## 4. Fairness

- `Backstop` (contract; `Levers` and the clock in `services`): time passes; CCTP does not stay paused
  for ever; and for each work somebody with the lever, the buyer or the court's keeper, keeps trying
  `refundExpired`. That one is strong fairness because a paused bridge disables the call again and
  again. Nothing is assumed of verdicts, relayers or owners.
- `KeeperFairness` (jobs): time passes; a run ends or moves on, since each await has a timeout or a
  throw; Circle decides each transaction; the keeper's interval comes to each overdue job again
  (`keeper.ts:44-58`, restarted with the worker); and Circle does not fail the same refund for
  ever. Nothing is assumed of sellers, the model, the buyer or any call but the refund.
- `SellerFairness`: the keeper polls on its timer, and so tries again after a failed fetch.
- `PageFairness`: a browser's timers run, and each fetch of a page is answered or fails, as the
  proxies abort theirs. Nothing is assumed of the worker, the stream or the person asked to sign.
- The other client components have no liveness property and assume nothing.

## 5. Proofs

Eight modules hold theorems. Each EXTENDS the modules it is about, so that the proofs are of the very
definitions TLC runs. They hold for every value of the constants that meets the assumptions of the
module, which TLC evaluates on every run: any sets of works, jobs, messages, requests, calls, pages,
wallets and run slots, any amounts, windows and bounds. Every invariant and action property of
the runs is stated by a theorem; what is left to TLC alone is liveness.

| Theorem (`_proofs` module) | States |
|---|---|
| `TypeCorrectness` (`VerdiktEscrow`) | `TypeOK`, in particular no balance and no counter goes below zero |
| `Solvency` | `Backed`: the books are the sum of the open principals and the balance covers them |
| `FullPayout` | `PaidInFullOnce`: the parts of a payout add up to the amount; its shares are in `Refinement` |
| `FinalTerms` | `TermsAreFinal`: no re-funding of a used work id, nothing after a settlement |
| `AuthorizationsBackDeals` | `NoStrandedAuthorization`: a used-up authorization backs the deal that was signed |
| `OnlyTheBoundArePaid` | `OnlyBoundPartiesPaid` |
| `Refinement` | `KeepsPromise`: the contract implements `EscrowPromise` |
| `HookSolvency`, `HookPaysTheBound` (`EscrowFundingHook`) | `Backed` and `OnlyBoundPartiesPaid` with hook and escrow composed |
| `RelaysFundTheDeal` | `RelayedAsCommitted` |
| `HookBalanceIsGuarded` | `HookBalanceGuarded`: into an escrow of that amount, or all of it to one address rescued to |
| `EngineTypes` (`JobEngine`) | `TypeOK` |
| `OneDelivery` | `SingleDelivery` |
| `TerminalStatesAreTrue` | `TerminalTellsTheChain`, also with several jobs on one work |
| `RowsKeepLifecycle` | `KeepsLifecycle`: the rows implement `JobMachine` |
| `WindowIsKept` | `NothingPaidInTheWindow`, where each work has one job (`OneJobPerWork`) |
| `NothingForFailedEvidence` (`VerdictPipeline`) | `FailedEvidenceEarnsNothing`: neither money nor a public score |
| `AcceptedSettlements` | `SettlementIsAccepted` |
| `FairDispute` | `OwnDisputeNeverHurts` |
| `RouteTypes` (`VerdictRoute`) | its `TypeOK` |
| `FeesFollowSettlements` | `ChargedForASettledVerdict` |
| `RowsFollowTheChain` | `RowFollowsTheChain` |
| `OneTollWhenHeard`, `HeardDeliveries` (`Services`, of `SellerExchange`) | `TollOnceWhenHeard`, `HeardDeliveryCounts` |
| `AnswersAlwaysResolve` (`Attestation`) | `AnswersResolve` |
| `StoriesAreInOrder` (`RunPage`) | `StoryInOrder` |
| `EveryFeeIsEarned`, `FeesTyped` (`VerdictFee`) | `FeesAreEarned`; no deposit or capture overdraws wallet or balance |
| `RefreshesGoForward`, `ListTyped` (`JobsList`) | `ListGoesForward`, `ListTypeOK` |
| `PagesTellNoLie`, `OpenTabsCatchUp` (`Pages`, of `JobPage`) | `NoOptimisticLie`, `OpenTabIsCurrent` |
| `PagesTellTheMoney`, `DripsKeepTheCooldown` (`HumanHire`) | `PageTellsTheMoney`, `OneDripWhenHeard` |
| `AcceptedOffersAreBacked`, `OwnOffersAreAccepted`, `VerdictsAreAsOffered` (`Clients`, of `OfferExchange`) | `AcceptedOfferIsBacked`, `OwnOffersAreAcceptable`, `JudgedAsOffered` |
| `RelaysEndDelivered` (`CrossChainClient`) | `RelayEndsDelivered` |
| `CompletionsAreApproved`, `EvaluatorTyped` (`AcpEvaluator`) | `CompletedIsApproved`; the limiter keeps to its limits (`AcpTypeOK`) |
| `CorridorsAreProved` (`CorridorMatrix`) | `ProvedCorridorsArePaid` |
| `ServicesTyped`, `ClientsTyped` | `ServicesTypeOK`, `ClientsTypeOK`, by way of the composition |

Each component also has a theorem `...Invariance`: its inductive invariant, from which the others
follow, and one for its types.

Assumptions: `AddressAssumption` (the zero address is nobody, the contract sends no transactions of
its own, a bridged recipient is not an address on Arc), `NumbersAssumption` (amounts, fees, ttls and
basis points are naturals), `TokenAssumption` (balances are naturals, authorizations are signed by
accounts), `MessagesAssumption` (the hook is neither the escrow nor a sender of its own; messages
carry naturals, known works and addresses), `PipelineAssumption` (finitely many items; confidences are
naturals that do not sit on a rounding tie), `ClientAssumption` (an
amount exceeds the fee of its transfer), `PageAssumption` (stories are sequences of events),
`AcpAssumption` (the limits are not zero; the clock begins a day after the epoch). `EngineAssumption`,
`RouteAssumption`, `OfferAssumption`, `SellerAssumption`, `AttestationAssumption`, `JobPageAssumption`, `HireAssumption`,
`FeeAssumption`, `ListAssumption` and `CorridorAssumption` give the constants their types (a price, a
toll, a fee and a bounty are not zero). `WindowIsKept` alone has a hypothesis beyond them, and
`engine_two_jobs_doc` shows why it needs it.

**Contract.** `Backed` is not inductive. A close takes the whole principal off the books and then
sends three parts; that these are no more than the principal needs the fee to be inside the amount
(`Recorded`), and for a split also that the floor division stays below the bounty
(`WorkerShareLemma`). The sum of the principals is stated as the cardinality of `EscrowedUnits`, one
element per unit, so that no recursion is needed; a cardinality follows its set only while the set
is finite, hence `IsFiniteSet(EscrowedUnits)`. So `IInv` is `TypeOK`, `Recorded`, that finiteness,
`Backed` and `PaidInFullOnce`. Lemmas on single functions (`RecordLemma`, `CloseLemma`, `FundLemma`
and the like) show that each step is, for the books, one of three: `Opened(w)`, `Closed(w)` or
`Quiet` (`StepLemma`); `OpenedKeeps`, `ClosedKeeps` and `QuietKeeps` then preserve `IInv` by adding
or taking away the units of one work (`DisjointUnion`). The refinement reuses them: `Opened` is
`Hold`, `Closed` is `CloseOnVerdict` or `GiveBack`, and `Quiet` leaves the deals alone. That
authorizations back deals rests on recorded terms being final: the deal found at the moment of the
redemption is there for ever.

**Hook.** Its steps are steps of the books too: a relay is `Opened`, a valve is `Opened` or `Quiet`
(`HookStepLemma`), so `IInv` survives the composition unchanged. A relayed deal cannot be displaced
because a recorded work id cannot be funded again.

**Engine.** `EngineInv` ties every run to its transaction (`TxInv`: a payment that was executed is
what closed the escrow; a run records only after that) and to what its row can be (`RowInv`): once a
delivery is claimed, a verdict proposed or a dispute escalated, the row never comes back
(`Claimed`, `Proposed`, `Ruled`), and so what a run read before an await still licenses its write
after it. A terminal state is written with a condition on the row, and two of them cannot disagree
because the chain closes once. The lifecycle is the statement that every write the invariant allows
is a move of `job-machine.ts` (`RowsMove`).

**Pipeline.** Over a bundle with a failing item the emitted label is fail or abstain
(`reasoner.ts:42-51`), so what is held and what the arbiter can make of it pays the seller nothing, and scores it nothing.
The roundings are integer lemmas: a split is between 1 and 9999 basis points, and sizing it a second
time, as the route back through a held verdict does, changes nothing (`SplitLemma`).

**Routes.** A charge follows only a confirmed transaction of the same request, and a transaction
that was executed is the one that closed the escrow (`RequestInv`); the row may be overwritten by
others in between, which is why the charge must not rest on it.

**Sellers.** As long as no answer is lost, every attempt before the present one ended in a 402, or
refused before it signed anything (`TollsHeard`), so a toll that was taken without a 402 is that of one
attempt. A `jti` is recorded only for finished work, and good work whose `jti` is known, but for the
nudges without a reference of their own, is pending, claimed or beyond help (`Deliveries`), which covers
the callback that is posted again after its answer was lost.

**Attestations.** `AttestInv` says that nothing points at a bundle before the bundle is kept
(`EvidenceFirst`): not the attestation under way, not a transaction it has sent and may have forgotten,
not the registry. A row is never deleted, so what a reader follows later is still there, unless the
write of the row had failed, which is remembered (`DanglesKnowingly`).

**Page of a run.** What a run's stream has told is a prefix of what the worker published
(`StreamReads`); the page listens to one stream at most, that of its latest run (`OneStream`), and its
steps are what that stream told so far (`StepsFollowStream`, `PanelOfRun`). The refs that
continuations share are what makes this delicate: an earlier run's continuation may close or
replace the stream of the latest one, but not mix the two.

**Fee.** `CallInv` follows one call: past the lock it holds its work, past the verdict it rendered
one, and it is captured only from there. A lock is never given back, so no second call on the work
gets as far. Nothing is counted before it was captured, nor told before it was counted.

**List of jobs.** As long as only one wallet has connected, at most one load is under way (`FirstWallet`:
`Refresh` waits for `loading`), it was asked for that wallet, and it answers with a version that is not
older than the one shown. With the second wallet two loads may race, which is where the
restriction in `ListGoesForward` comes from.

**Page of a job.** Answers to a page are about the past. `JobPageInv` says that whatever a fetch will
answer, an event says or the page shows was true when it was read and is still true in the part that is
shown as settled (`Says`, `Happened`): terminal states, outcomes and what is on chain are final
(`GoesOn`). `RowFollowsChain` orders the engine's writes, `BusFollowsRow` says that the last state on
the bus is the row's unless its event is still to come, or that a restart emptied the bus, and then what
the page last heard is the row's state or something was missed; `LiveFollowsBus` ties the page to what
it has read of the bus, which gives `OpenTabIsCurrent`.

**Hire page.** `HireInv` has one conjunct per hire (`Work`): nothing is signed before the page asks for
it, nothing moves without a signature over the registered terms, no job is created before the
money is there, and the page has said nothing of a hire it is still at. For the faucet, as long as
the fate of every drip since the last restart was heard, the reservations that drips hold are a cooldown
apart (`DripsHeard`), which needs that the present reservation is that of the latest of them.

**Offers.** `WorkInv` follows one work through payment, offer, acceptance, verdict and relay. That each
kind of payment funds the escrow once (`FundedOnce`) is needed although the contract refuses a second
funding, because the trace it leaves is what the SDK goes by. An offer the SDK signed names what the
escrow holds, or nothing (`Unsigned`, `Signed`), and `AskedLemma` says what the two roundings make of a
price; since only a delivery or an elapsed deadline ends an escrow (`SellerHolds`), the escrow stays so
until its deadline. An offer signed by hand is
covered only from its acceptance on. The allowance of the shared key appears in its type and nowhere else: a
transfer that finds too little of it burns nothing, so no offer can come of it.

**Evaluator and corridors.** A completion is on its way only for a job the engine passed whose terms
are final (`JobInv`). The limiter drops what left the window before it counts, so what it keeps of a
caller is never more than it lets through (`LimiterInv`). The corridor script verifies only after its
own relay succeeded, so a payment of somebody else's work on the same chain cannot stand in for its own
(`UnderWay`).

**Composition.** `services` and `clients` check components side by side. `ServicesParts` and
`ClientsParts` show that a behaviour of the composition is, for every component, a behaviour of its own
specification, which may stutter while another one moves. So each theorem about a component holds
there too, and `ServicesTyped` and `ClientsTyped` state the types of all.

Only model-checked: liveness (`NoPrincipalLocked`, `FundsNeverStranded`, `SpinnerEnds`,
`WorkIsCollected`), which is out of the prover's reach as it rests on fairness; and the comments of the
six runs of section 3 that the code contradicts.

## 6. Not modelled, and why

- What two jobs on one work id settle from the verdict and evidence they share
  (`lib/engine-instance.ts:21`); a job and a verdict request meeting on one row. These need the engine
  and the routes in one state space, which is beyond TLC at the bounds the two need apart.
- A settlement that Circle calls COMPLETE and that reverted on Arc: `settle.ts:39` takes COMPLETE
  for success, and so do the models (`expire.ts:21-28` reads the receipt and says why).
- A verdict request that dies between the lock and the settlement leaves its row `judging`
  (`routes/verdict.ts:68`): the code has no recovery to check; the money is the contract's matter.
- The bazaar listing of the paid route: handed to another service. Circle's Gateway itself is
  modelled from how the two sides use it (`VerdictFee`).
- `try` runs have the code of demo runs and an in-flight set of their own; the run on the routes
  uses demo runs. The page of a `try` run is in `RunPage`.
- Sandboxes, parsers, entailment models, prompts: pure input and output, any answer is allowed for.
- Signatures and hashes are taken to be unforgeable and injective; URL safety checks are left out.
- The server's wiring, ABI and chain tables, markup and layout of the pages, the agents that prompt a
  model for work, one-shot proof scripts, migrations, deployment, demos and the vendored `forge-std`:
  no state of their own that a property could be about.

## 7. Plan

Done: the contract with its promise, the hook, the job lifecycle, the pipeline, the routes and their
fee, in the order in which they carry money; then the sellers, the attestations, the SDK's offers and
transfers, the pages and the agents; then the proofs of section 5. Left, in this order:

1. What two jobs on one work settle from a shared `held`, in an instance of `JobEngine` with two jobs
   and one slot each.
2. A theorem that a work costs its seller one fee when several requests race for its row: `VerdictFee`
   takes the lock in one step, and `VerdictRoute`, which has the race, would have to implement it.
3. An abstract specification of the exchange of offers, as `EscrowPromise` is one of the contract.

## 8. Running it

`tlc -workers 2 -config engine.cfg MCJobEngine.tla` checks a run (`PROJECT.json` names the module of
each configuration); `tlapm VerdiktEscrow_proofs.tla` checks the proofs of one
module, likewise for the other `_proofs` modules.
