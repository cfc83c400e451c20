# TLA+ models of btcpool's job maker and Stratum sessions

These modules model the C++ code under `src/src/` of this repository.
`spec.md` describes the system. Each action is translated from the handler
it names. Code that the handlers call but that is not under `src/` is modelled
from `spec.md`, and `PROJECT.json` marks it `spec_modelled`. Examples are the
session base class (`findLocalJob`, `clearLocalJobs`, `checkUserAndPwd`), the
SHA256 submit dispatcher and the job repository's fan-out.

## The system and its parts

| Part | Source | What it does | Concurrency |
|---|---|---|---|
| Bitcoin job maker | `bitcoin/JobMakerBitcoin.cc` | Three consumer threads feed it: raw templates (`addRawGbt`), AuxPow work (`processAuxPowMsg`) and RSK work (`processRskGwMsg`). A timer thread runs `makeStratumJobMsg`, which calls `findBestRawGbt` under `lock_` and then `makeStratumJob`, which takes the aux and RSK locks in turn. | Four threads share the template cache, the merged-mining work and the unprotected flag `isMergedMiningUpdate_`. |
| Stratum job | `bitcoin/StratumBitcoin.cc` | `initFromGbt` builds the job, including its id (`time<<32 \| hash bits \| serverId`), the AuxPow commitment when the block is under 60 s old, and the RSK work. It computes the merkle branch (`makeMerkleBranch`) and splits the coinbase at the extra-nonce placeholder (`findExtraNonceStart`). | Pure function of its inputs and `time()`. |
| ETH session | `StratumSessionEth.cc` | Handles subscribe, authorize (`eth_submitLogin`), `eth_getWork`, submit and notify. It keeps a window of LocalJobs with per-job seen nonces, and an invalid-share sliding counter. | One reactor thread per session runs each handler to completion (spec.md 5). The repository posts new jobs to it. |
| SHA256 session | `bitcoin/StratumSessionBitcoin.cc` | Handles subscribe, authorize and `mining.configure`. Notify allocates a short job id with `allocShortJobId`. Submits go to a dispatcher that is not under `src/`. | Same as the ETH session. |
| Stats httpd, Utils | `StatsHttpd.h`, `Utils.h` | Declarations and helpers only. | Not modelled. |

Interactions: job maker → job topic → repository → every authenticated
session's `sendMiningNotify` → miner → submit → share topic. The models cut
this chain at the job topic. `JobMakerBitcoin` ends with the last published
job. The session modules start from a repository whose latest job advances
through `1..MaxJobs`.

## Modules

- **`JobMakerBitcoin.tla`** models the job maker.
  - State:
    - the template cache `rawgbtMap`, a function from the gbt key to the template;
    - the dedupe deque `lastestGbtHash`;
    - `currBestHeight`, `lastJobSendTime` and `isLastJobEmptyBlock`;
    - the AuxPow fields and the previous and current RSK work;
    - the flag `isMergedMiningUpdate`;
    - the last published job.
  - The timer thread is a process with a program counter `mpc`, which is idle, found or read. Its handler is split where the code drops one lock and takes the next:
    - `findBestRawGbt` runs under `lock_`;
    - `readMergedWork` copies the aux JSON and the RSK work (lines 498-508);
    - `makeStratumJob` runs `initFromGbt`, publishes, records the time and emptiness, and clears the flag (lines 510-537).
    - `abortStratumJob` is the other outcome of `initFromGbt`: a coinbase scriptSig of 100 bytes or more is `LOG(FATAL)` (`StratumBitcoin.cc` 481). The process aborts and restarts with the constructor's state. The script's length is `coinbaseScriptLen` (height push, time push, coinbase info and placeholder, fixed at start), plus 44 bytes when a fresh AuxPow block is included.
  - `serializeToJson` and `unserializeFromJson` map a job to an abstract JSON object (field name to a typed value) and back, with the parser's type checks and its optional groups. `JobTopicRoundTrip` checks the composition on every published job.
  - The consumers' actions (`addRawGbt`, `processAuxPowMsg`, `processRskGwMsg`) can run between these steps.
  - `Restart` resets the state to what the constructor sets. The replay of the latest messages by `initConsumerHandlers` is then just more arrivals.
  - `makeGbtKey` and its accessors keep the bit layout, with scaled widths.
  - The uint32 subtraction in the grace check keeps its wrap-around (`U32`).
- **`StratumJobBitcoin.tla`** holds two pure algorithms of `initFromGbt` as operators, each checked against a reference definition.
  - `makeMerkleBranch` and its loop `branchLoop` are RECURSIVE operators. A transaction hash is a number and `Hash(a, b)` is the pair `<<a, b>>`, a hash without collisions. `MerkleBranchSound` folds the coinbase hash with the steps and compares the result with the textbook merkle root (`MerkleRoot`, where an odd level repeats its last hash). It checks every template size up to six transactions.
  - `findExtraNonceStart` and `splitCoinbase` cut the serialised coinbase (`coinbaseTpl`: scriptSig ending in the placeholder, nSequence, outputs) into `coinbase1_` and `coinbase2_`. `CoinbaseSplitsAtPlaceHolder` checks that the cut falls at the inserted placeholder for every prefix of two-valued bytes. Hex formatting is left out.
  - `MC_JobMakerBitcoin` instantiates the module. `jm_core` checks both properties for every published job, as `PublishedMerkleBranchSound` and `PublishedCoinbaseSplitSound`.
- **`SessionStates.tla`** is the abstract session promised by spec.md 4.3. The state only rises CONNECTED < SUBSCRIBED < AUTHENTICATED, and only an authenticated session publishes shares.
- **`StratumSessionEth.tla`** models one ETH session and the repository's latest job.
  - Each handler is one action: `Subscribe`, `Authorize`, `GetWork`, `SubmitHashrate` (acknowledged only), `Submit`, and `NewJob` (the fan-out).
  - `localJobs` is the LocalJob window. Each entry holds a job id and the set of nonces seen for it.
  - `invalidShares` is the sliding counter, with one entry per tick.
  - `published` is the bag of shares sent to the share topic. Each share carries its timestamp.
  - `Submit` keeps the code's early returns in order: unauthorized, parameter count, job not found, duplicate. Then it classifies the share, updates the counter, replies, and applies spam suppression.
  - `checkShare` is out of `src/`. It is the constant function `CheckShare`: the same job and nonce always get the same verdict, as they do in the code.
- **`StratumSessionBitcoin.tla`** models one SHA256 session.
  - Actions: `Subscribe`, `AgentGetCapabilities` (a reply only), `Authorize` (which builds the miner with the suggested minimum difficulty, as `createMiner` does), `MiningConfigure`, `NewJob` (notify with `allocShortJobId`), and `Submit` (by short job id, from spec.md). As in `handleRequest`, a submit reaches the dispatcher only after a successful authorize. Before that it is dropped without a reply.
- **`MC_*.tla`** fix the model values and the small functions that the cfgs use.

Both session modules instantiate `SessionStates` with
`INSTANCE ... WITH published <- BagToSet(published)` and check it as the
property `SessionStatesRefined`.

## Runs

Passing runs:

| Run | Checks | Bounds | Shows |
|---|---|---|---|
| `jm_core` | `TypeOK`, `PublishedMerkleBranchSound`, `PublishedCoinbaseSplitSound`; `NewHeightPublished`, `EmptyBlockJobReplacedOnce` (liveness) | 3 templates: h1 non-empty, h2 empty, h2 non-empty. JobInterval 1, lifetimes 3/1, MaxTime 4, restarts. | A new best height is published unless the template expires or is displaced first. An empty job is replaced once a non-empty template of its height is best. The merkle branch folds to the block's merkle root, and the coinbase is cut at the inserted placeholder even when the bytes before it are `0xEE`. |
| `jm_merged` | `JobTopicRoundTrip`; `MergedMiningUpdateConsumed` (liveness) | 1 template, 2 AuxPow blocks, 2 RSK works (one with notify), MaxTime 2. Script length without the AuxPow tag is 30 or 60 bytes, chosen at start. | Every published job parses back from its JSON, with the clean flag, AuxPow hash and RSK hash. A set update flag is cleared by a published job, or by the abort and restart when a 60-byte script plus the 44-byte tag overflows. |
| `eth_core` | `TypeOK`, `InvalidSharesPublishedBelowLimit` | 2 jobs, 2 nonces (N1 accepted, N2 rejected), K=2, window 2, limit 2, 4 submits, MaxTime 2 | In every window fewer than `InvalidLimit` invalid shares reach the share topic. The cut-off is `>=` on a sum that already counts the share. |
| `btc_core` | `TypeOK`, `ShortJobIdResolves`, `NoDuplicateAccepted`, `SessionStatesRefined` | 12 jobs, K=10, 1 share tuple, 2 submits | Short ids wrap past ten jobs, and K=10, the largest window ten ids can serve, still keeps the held ones unique: an allocator that wraps one id early fails here and would pass at K=8. K above 10, which spec.md allows (8–16), cannot be served; no run checks that end. The session refines the abstract states. No share is accepted twice. |

Violation runs. Each checks one property, and `PROJECT.json` "findings" says
what the failure shows:

| Run | Property | Counterexample |
|---|---|---|
| `jm_jobid` | `JobIdIncreasing` | The timer builds a job for G1 at t=1. A new-height job for G2 in the same second gets a smaller id, because the id orders by hash bits within a second. |
| `jm_grace` | `LowHeightGraceHonoured` | G3 (h2, non-empty), then G2 (h2, empty), then G1 (h1) inside 2·JobInterval. G1 is compared only with the empty best and becomes best. |
| `jm_auxlost` | `MergedMiningUpdateNotLost` | An AuxPow message lands between `readMergedWork` and `makeStratumJob`. The flag is cleared and the new block never forces a job. |
| `jm_rskstale` | `PublishedRskWorkFresh` | A single RSK work is never expired by `clearTimeoutGw`, so it is published past its lifetime. |
| `eth_refine` | `SessionStatesRefined` | An authenticated session re-sends login with no name and drops to SUBSCRIBED. |
| `eth_dup` | `NoDuplicateAccepted` | submit N1, a second login (an `eth_getWork` poll does the same through line 67) pushes a fresh copy of the job, submit N1 again: the share is accepted twice. |
| `jm_rollback` | `HeightFallsOnlyForNewerTemplate` | G1 (h1, non-empty) at t0, G2 (h2, empty) at t1, and the h2 job is published. At t2 G2 has outlived the empty lifetime and G1 has not, so G1 is the best key again. `isReachTimeout` sends an h1 job with no new template. |
| `btc_mindiff` | `MinDiffHonoured` | subscribe, authorize with no floor suggested, then `mining.configure` with minimum-difficulty D1: the reply is "true", but the miner built by `createMiner` at authorize keeps no floor. |

Every property of a passing run has a mutant in `PROJECT.json`. It swaps a
mapped definition for a plausible bug, such as a dropped guard, an off-by-one
trim, a missing increment or a forgotten trigger. TLC finds each of them.

## Bounds and why they suffice

Constants that are 32 or 64 bits wide in the code are scaled down:
- time is 8 bits;
- the height field of the gbt key is 3 bits;
- the job id's time shift is 10.

The arithmetic keeps its form: `U32`, and the shifts become multiplications by
powers of two.

The job maker runs use 4 time units with JobInterval 1–2. That is enough for:
- a template to expire;
- the grace window to open and close;
- a timeout-driven job and a new-height job to fall in the same second.

Three templates at two heights, one of them empty, cover every branch of
`NeedNewJob` and of the grace check. `MaxMsgLag` is 0 in most runs: arrivals
carry the current time, and a lag multiplies the state space (`jm_core` passes
four million states at lag 2). `jm_grace` uses lag 2, so templates arrive
older than the best one: the ±`GbtMaxTimeDiff` rejection fires and the uint32
subtraction of the grace check wraps. A template the wrap lets in is older than
the non-empty best and expires no later, so it never becomes the best key;
no property is stated about it.

The scriptSig lengths keep the code's byte counts: 30 bytes for a short
pool tag, and 60 bytes for a 39-byte tag, which is under the 100-byte cap for a
plain job but not with the 44-byte AuxPow tag. `jm_merged` starts with either
length, so both the published and the aborting outcome of `initFromGbt` occur.

`StratumJobBitcoin` is checked with up to six transactions, which gives
levels of both parities and three rounds of merging. The placeholder is two
bytes instead of twelve, with up to four bytes before it and three output bytes
after nSequence. Bytes are `EE` or any other value. A prefix of up to four
bytes includes prefixes that end in one or more `EE` bytes, the case where a
search from the front would cut early. Outputs that contain the placeholder are
excluded, because the outputs are scripts and hashes where twelve `0xEE` bytes
in a row do not occur in practice.

The session runs keep K small (2 for ETH). The exception is `btc_core`, which
needs more than ten jobs to wrap the short-id cycle, which is fixed at ten.

## Fairness

Only the job maker's timer thread is assumed fair: weak fairness on
`findBestRawGbt`, `readMergedWork`, `makeStratumJob` and `abortStratumJob`.
The thread loops forever with a `sleep` and no blocking path. An aborting
build aborts whenever it runs. The following are not fair:
- template, aux and RSK arrivals depend on upstream nodes;
- the clock tick depends on time passing;
- restarts are operator actions.

Each of them may stop, so none is fair. The liveness properties are stated as
`P ~> (Q \/ the situation went away)`, because a template can expire before
the timer serves it. The session modules assume no fairness: a miner may stop
talking.

## Not modelled

- Byte-level data outside `StratumJobBitcoin`: the real hash function, the JSON text, nonce/hex formatting and parsing, and difficulty/target conversion. In the job maker the scriptSig is kept as its length, and the JSON as typed fields.
- `initFromGbt` failing to parse a template. `addRawGbt` has already parsed every cached template (line 209), so that failure cannot happen. The coinbase transaction size check (line 574) depends on the template's outputs.
- The NiceHash job-id encoding (`time*10 + shortJobId`).
- The agent protocol beyond `agent.get_capabilities`: its sessions and messages are handled outside `src/`.
- `StatsHttpd.h` and `Utils.h`, which hold declarations only.
- Components that are not under `src/`, except where the sessions call them.

## Plan for later work

1. Several sessions sharing a repository, to check `extraNonce1` uniqueness and notify fan-out to sessions in mixed states.
2. A count of aborts, to show the replayed AuxPow message repeating the abort after each restart. The abort itself is specified (spec.md 4.1 and 7); the loop is not.
