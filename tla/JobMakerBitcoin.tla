-------------------------- MODULE JobMakerBitcoin --------------------------
(***************************************************************************)
(* The Bitcoin job maker (src/src/bitcoin/JobMakerBitcoin.cc).             *)
(*                                                                         *)
(* Three consumer threads feed it: raw block templates (processRawGbtMsg), *)
(* AuxPow work (processAuxPowMsg) and RSK work (processRskGwMsg).  A timer *)
(* thread calls makeStratumJobMsg, which picks the best template under     *)
(* lock_ (findBestRawGbt) and then, outside that lock, snapshots the       *)
(* merged-mining work and builds and publishes the stratum job            *)
(* (makeStratumJob).  The timer thread is a process with a program        *)
(* counter mpc, so the consumers can run between its three steps.          *)
(*                                                                         *)
(* Data is abstracted: a template is a record of its hash, height,         *)
(* emptiness and the 24 bits of its hash that enter the job id; aux and    *)
(* RSK work are records of the fields the job maker reads.  Time is the    *)
(* integer clock now (one unit is one scaled second); the uint32           *)
(* subtraction of the height grace check keeps its wrap-around, at the     *)
(* width TimeBits.                                                         *)
(***************************************************************************)
EXTENDS Integers, Sequences, FiniteSets, FiniteSetsExt, Functions, TLC

CONSTANTS
  Templates,          \* block templates: [hash, height, empty, hashBits]
  AuxBlocks,          \* AuxPow blocks: [hash, height]
  RskWorks,           \* RSK works: [hash, notify]
  JobInterval,        \* def()->jobInterval_
  GbtLifeTime,        \* def()->gbtLifeTime_
  EmptyGbtLifeTime,   \* def()->emptyGbtLifeTime_
  GbtMaxTimeDiff,     \* 60: a template further from now is dropped
  AuxMaxAge,          \* 60: an older AuxPow block is left out of the job
  RskWorkLifeTime,    \* 120: clearTimeoutGw drops older RSK work
  MaxGbtHashes,       \* 20: length of the lastestGbtHash_ dedupe deque
  MergedMiningNotifyPolicy, \* def()->mergedMiningNotifyPolicy_
  ServerId,           \* def()->serverId_
  TimeBits,           \* width of the uint32 time arithmetic
  KeyHeightBits,      \* 31: height bits of the gbt key
  JobIdTimeShift,     \* 32: jobId = time << 32 | hash24 << 8 | serverId
  MaxMsgLag,          \* how old a message's created_at_ts may be on arrival
  CoinbaseScriptLens, \* possible scriptSig lengths without the AuxPow tag
  MaxTime,            \* bound of the clock
  NoHash, NoAux, NoRsk, NoGbt, NoJob, InvalidGw  \* model values

ASSUME JobInterval \in Nat \ {0} /\ EmptyGbtLifeTime < GbtLifeTime
ASSUME MergedMiningNotifyPolicy \in {0, 1, 2}
ASSUME CoinbaseScriptLens \subseteq Nat
ASSUME \A g \in Templates : g.height < 2^KeyHeightBits /\ g.hashBits < 2^(JobIdTimeShift - 8)

VARIABLES
  now,                      \* time(nullptr)
  rawgbtMap,                \* rawgbtMap_: gbt key -> template
  lastestGbtHash,           \* lastestGbtHash_: recent template hashes
  currBestHeight,           \* currBestHeight_
  lastJobSendTime,          \* lastJobSendTime_
  isLastJobEmptyBlock,      \* isLastJobEmptyBlock_
  latestNmcAuxBlockJson,    \* latestNmcAuxBlockJson_ (NoAux when "")
  latestNmcAuxBlockHash,    \* latestNmcAuxBlockHash_
  latestNmcAuxBlockHeight,  \* latestNmcAuxBlockHeight_
  previousRskWork,          \* previousRskWork_ (NoRsk when nullptr)
  currentRskWork,           \* currentRskWork_  (NoRsk when nullptr)
  isMergedMiningUpdate,     \* isMergedMiningUpdate_
  mpc,                      \* step of makeStratumJobMsg: idle, found, read
  bestRawGbt,               \* the template findBestRawGbt returned
  auxSnapshot,              \* latestNmcAuxBlockJson copied at line 501
  rskSnapshot,              \* *currentRskWork_ copied at line 507
  lastJob,                  \* the last job published on the job topic
  coinbaseScriptLen         \* scriptSig bytes def()->coinbaseInfo_ gives, fixed

vars == <<now, rawgbtMap, lastestGbtHash, currBestHeight, lastJobSendTime,
          isLastJobEmptyBlock, latestNmcAuxBlockJson, latestNmcAuxBlockHash,
          latestNmcAuxBlockHeight, previousRskWork, currentRskWork,
          isMergedMiningUpdate, mpc, bestRawGbt, auxSnapshot, rskSnapshot,
          lastJob, coinbaseScriptLen>>

Time == 0..MaxTime
Heights == {g.height : g \in Templates}

-----------------------------------------------------------------------------
(* The gbt key: time in the high bits, then height, then a non-empty flag, *)
(* so the largest key is the newest template and, at equal time and       *)
(* height, the non-empty one.                                              *)
makeGbtKey(gbtTime, isEmptyBlock, height) ==
  gbtTime * 2^(KeyHeightBits + 1) + height * 2 + (IF isEmptyBlock THEN 0 ELSE 1)

gbtKeyGetTime(key) == key \div 2^(KeyHeightBits + 1)
gbtKeyGetHeight(key) == (key \div 2) % 2^KeyHeightBits
gbtKeyIsEmptyBlock(key) == key % 2 = 0

U32(x) == x % 2^TimeBits

BestKey(m) == Max(DOMAIN m)

(* Mutant: the dedupe deque trimmed one entry too late. *)
pushGbtHash_offByOne(hs, h) ==
  IF Len(Append(hs, h)) > MaxGbtHashes + 1 THEN Tail(Append(hs, h)) ELSE Append(hs, h)

(* lastestGbtHash_.push_back, then pop_front while longer than 20. *)
pushGbtHash(hs, h) ==
  IF Len(Append(hs, h)) > MaxGbtHashes THEN Tail(Append(hs, h)) ELSE Append(hs, h)

(* addRawGbt: a lower template is skipped while the best one is non-empty *)
(* and less than two job intervals old, computed in uint32.                *)
SkipLowHeight(m, gbtTime, height) ==
  /\ DOMAIN m # {}
  /\ height < gbtKeyGetHeight(BestKey(m))
  /\ ~gbtKeyIsEmptyBlock(BestKey(m))
  /\ U32(gbtTime - gbtKeyGetTime(BestKey(m))) < 2 * JobInterval

(* clearTimeoutGbt: drop expired templates, oldest first, but never the   *)
(* last one.  When all have expired the newest one stays.                  *)
GbtExpired(key) ==
  gbtKeyGetTime(key)
    + (IF gbtKeyIsEmptyBlock(key) THEN EmptyGbtLifeTime ELSE GbtLifeTime) <= now

clearTimeoutGbt(m) ==
  LET live == {k \in DOMAIN m : ~GbtExpired(k)}
  IN  IF live # {} \/ DOMAIN m = {} THEN Restrict(m, live)
      ELSE Restrict(m, {BestKey(m)})

(* clearTimeoutGw: only when both works exist, drop each older than 120 s. *)
RskExpired(w) == w # NoRsk /\ w.createdAt + RskWorkLifeTime < now

clearTimeoutGw ==
  IF previousRskWork = NoRsk \/ currentRskWork = NoRsk
  THEN [prev |-> previousRskWork, cur |-> currentRskWork]
  ELSE [prev |-> IF RskExpired(previousRskWork) THEN NoRsk ELSE previousRskWork,
        cur  |-> IF RskExpired(currentRskWork) THEN NoRsk ELSE currentRskWork]

triggerRskUpdate(prev, cur) ==
  /\ prev # NoRsk /\ cur # NoRsk
  /\ \/ MergedMiningNotifyPolicy = 1 /\ cur.notify
     \/ MergedMiningNotifyPolicy = 2 /\ cur.hash # prev.hash

isReachTimeout == lastJobSendTime + JobInterval <= now

(* Mutants of NeedNewJob, each a trigger of findBestRawGbt forgotten. *)
NeedNewJob_noNewHeight(key) ==
  \/ gbtKeyGetHeight(key) = currBestHeight /\ isLastJobEmptyBlock
       /\ ~gbtKeyIsEmptyBlock(key)
  \/ isMergedMiningUpdate
  \/ isReachTimeout

NeedNewJob_noEmptyUpdate(key) ==
  \/ gbtKeyGetHeight(key) > currBestHeight
  \/ isMergedMiningUpdate
  \/ isReachTimeout

NeedNewJob_noMergedMining(key) ==
  \/ gbtKeyGetHeight(key) > currBestHeight
  \/ gbtKeyGetHeight(key) = currBestHeight /\ isLastJobEmptyBlock
       /\ ~gbtKeyIsEmptyBlock(key)
  \/ isReachTimeout

(* The publication triggers of findBestRawGbt on the best key. *)
NeedNewJob(key) ==
  \/ gbtKeyGetHeight(key) > currBestHeight
  \/ gbtKeyGetHeight(key) = currBestHeight /\ isLastJobEmptyBlock
       /\ ~gbtKeyIsEmptyBlock(key)
  \/ isMergedMiningUpdate
  \/ isReachTimeout

JobIdOf(t, g) == t * 2^JobIdTimeShift + g.hashBits * 2^8 + ServerId

AuxFresh(aux, t) == aux # NoAux /\ aux.createdAt + AuxMaxAge >= t

(* The coinbase input script initFromGbt assembles: the BIP34 height push, *)
(* the time push, the pool's coinbase info and the 12-byte extra-nonce     *)
(* placeholder (coinbaseScriptLen together), plus the 44-byte merged-      *)
(* mining tag when an AuxPow block fresh enough to parse was passed in.   *)
(* A script of 100 bytes or more is LOG(FATAL): the process aborts.        *)
ScriptSigMaxLen == 100
MergedMiningTagLen == 44
ScriptSigSize(aux) ==
  coinbaseScriptLen + (IF AuxFresh(aux, now) THEN MergedMiningTagLen ELSE 0)

(* StratumJobBitcoin::initFromGbt, abstracted to the fields the job      *)
(* topic's readers compare: the job id, height, emptiness (an empty       *)
(* merkle branch), the AuxPow block unless it is older than 60 s, the RSK *)
(* work, the merged-mining clean flag and the build time.  The coinbase   *)
(* bytes are data and are left out.                                        *)
initFromGbt(g, aux, rsk, isMergedMiningUpdateNow) ==
  [jobId  |-> JobIdOf(now, g),
   height |-> g.height,
   empty  |-> g.empty,
   nmc    |-> IF AuxFresh(aux, now) THEN aux.hash ELSE NoHash,
   rsk    |-> rsk,
   clean  |-> isMergedMiningUpdateNow,
   time   |-> now]

(* The job topic's JSON, abstracted to the fields the Job record carries. *)
(* A JSON value is [type, val]; a string that is only measured is its      *)
(* length.  NoHash is the all-zero hash uint256::ToString() prints and     *)
(* uint256S reads back; "" is an empty string field.                       *)
JInt(v) == [type |-> "Int", val |-> v]
JStr(v) == [type |-> "Str", val |-> v]
JBool(v) == [type |-> "Bool", val |-> v]

(* StratumJobBitcoin::serializeToJson: every field is written; the merkle *)
(* branch as 64 hex digits per step; the namecoin and RSK groups always,  *)
(* empty when unused; mergedMiningClean from isMergedMiningCleanJob_.      *)
serializeToJson(job) ==
  [jobId |-> JInt(job.jobId), height |-> JInt(job.height),
   merkleBranch |-> JStr(IF job.empty THEN 0 ELSE 64),
   nmcBlockHash |-> JStr(job.nmc), nmcBits |-> JInt(0), nmcHeight |-> JInt(0),
   nmcRpcAddr |-> JStr(""), nmcRpcUserpass |-> JStr(""),
   rskBlockHashForMergedMining |-> JStr(IF job.rsk = NoRsk THEN "" ELSE job.rsk.hash),
   rskNetworkTarget |-> JStr("0x"), rskFeesForMiner |-> JStr(""),
   rskdRpcAddress |-> JStr(""), rskdRpcUserPwd |-> JStr(""),
   isRskCleanJob |-> JBool(job.clean), mergedMiningClean |-> JBool(job.clean)]

(* Mutant: the parser no longer reads the optional mergedMiningClean.    *)
unserializeFromJson_noClean(j) ==
  [jobId |-> j.jobId.val, height |-> j.height.val,
   empty |-> j.merkleBranch.val \div 64 = 0,
   nmc |-> j.nmcBlockHash.val, rsk |-> j.rskBlockHashForMergedMining.val,
   clean |-> FALSE]

(* StratumJobBitcoin::unserializeFromJson: fail unless the required      *)
(* fields have their types; the optional groups are taken only when every *)
(* field of the group has its type, else the constructor's defaults stay; *)
(* the branch has length/64 steps.                                         *)
unserializeFromJson(j) ==
  LET Typed(v, t) == v.type = t
      nmcOk == /\ Typed(j.nmcBlockHash, "Str") /\ Typed(j.nmcBits, "Int")
               /\ Typed(j.nmcHeight, "Int") /\ Typed(j.nmcRpcAddr, "Str")
               /\ Typed(j.nmcRpcUserpass, "Str")
      rskOk == \A f \in {"rskBlockHashForMergedMining", "rskNetworkTarget",
                          "rskFeesForMiner", "rskdRpcAddress", "rskdRpcUserPwd"} :
                 Typed(j[f], "Str")
  IN  IF ~(Typed(j.jobId, "Int") /\ Typed(j.height, "Int")
           /\ Typed(j.merkleBranch, "Str"))
      THEN "fail"
      ELSE [jobId |-> j.jobId.val, height |-> j.height.val,
            empty |-> j.merkleBranch.val \div 64 = 0,
            nmc |-> IF nmcOk THEN j.nmcBlockHash.val ELSE NoHash,
            rsk |-> IF rskOk THEN j.rskBlockHashForMergedMining.val ELSE "",
            clean |-> IF Typed(j.mergedMiningClean, "Bool")
                      THEN j.mergedMiningClean.val ELSE FALSE]

(* What a reader of the job topic can recover of a job. *)
JobFields(job) ==
  [jobId |-> job.jobId, height |-> job.height, empty |-> job.empty,
   nmc |-> job.nmc, rsk |-> IF job.rsk = NoRsk THEN "" ELSE job.rsk.hash,
   clean |-> job.clean]

-----------------------------------------------------------------------------
\* The constructor's state.  init() only selects the chain and checks the
\* payout address; when it fails the handler never runs, so every behaviour
\* starts from a successful init().
Init ==
  /\ now = 0
  /\ rawgbtMap = <<>>
  /\ lastestGbtHash = <<>>
  /\ currBestHeight = 0
  /\ lastJobSendTime = 0
  /\ isLastJobEmptyBlock = FALSE
  /\ latestNmcAuxBlockJson = NoAux
  /\ latestNmcAuxBlockHash = NoHash
  /\ latestNmcAuxBlockHeight = 0
  /\ previousRskWork = NoRsk
  /\ currentRskWork = NoRsk
  /\ isMergedMiningUpdate = FALSE
  /\ mpc = "idle"
  /\ bestRawGbt = NoGbt
  /\ auxSnapshot = NoAux
  /\ rskSnapshot = NoRsk
  /\ lastJob = NoJob
  /\ coinbaseScriptLen \in CoinbaseScriptLens

Tick ==
  /\ now < MaxTime
  /\ now' = now + 1
  /\ UNCHANGED <<rawgbtMap, lastestGbtHash, currBestHeight, lastJobSendTime,
                 isLastJobEmptyBlock, latestNmcAuxBlockJson,
                 latestNmcAuxBlockHash, latestNmcAuxBlockHeight,
                 previousRskWork, currentRskWork, isMergedMiningUpdate, mpc,
                 bestRawGbt, auxSnapshot, rskSnapshot, lastJob, coinbaseScriptLen>>

(* processRawGbtMsg / addRawGbt with a template created at gbtTime.  A    *)
(* rejected message changes nothing.                                       *)
addRawGbt(g, gbtTime) ==
  LET key == makeGbtKey(gbtTime, g.empty, g.height)
  IN
  /\ g.hash \notin Range(lastestGbtHash)
  /\ now - gbtTime < GbtMaxTimeDiff /\ gbtTime - now < GbtMaxTimeDiff
  /\ ~SkipLowHeight(rawgbtMap, gbtTime, g.height)
  /\ rawgbtMap' = IF key \in DOMAIN rawgbtMap THEN rawgbtMap
                  ELSE rawgbtMap @@ (key :> g)
  /\ lastestGbtHash' = pushGbtHash(lastestGbtHash, g.hash)
  /\ UNCHANGED <<now, currBestHeight, lastJobSendTime, isLastJobEmptyBlock,
                 latestNmcAuxBlockJson, latestNmcAuxBlockHash,
                 latestNmcAuxBlockHeight, previousRskWork, currentRskWork,
                 isMergedMiningUpdate, mpc, bestRawGbt, auxSnapshot,
                 rskSnapshot, lastJob, coinbaseScriptLen>>

(* processAuxPowMsg: store the block, and overwrite the update flag with  *)
(* whether this message changes height (policy 1) or hash (policy 2).     *)
processAuxPowMsg(a, createdAt) ==
  /\ latestNmcAuxBlockJson' = [hash |-> a.hash, height |-> a.height,
                               createdAt |-> createdAt]
  /\ latestNmcAuxBlockHash' = a.hash
  /\ latestNmcAuxBlockHeight' = a.height
  /\ isMergedMiningUpdate' =
       \/ MergedMiningNotifyPolicy = 1 /\ a.height > latestNmcAuxBlockHeight
       \/ MergedMiningNotifyPolicy = 2 /\ a.hash # latestNmcAuxBlockHash
  /\ UNCHANGED <<now, rawgbtMap, lastestGbtHash, currBestHeight,
                 lastJobSendTime, isLastJobEmptyBlock, previousRskWork,
                 currentRskWork, mpc, bestRawGbt, auxSnapshot, rskSnapshot,
                 lastJob, coinbaseScriptLen>>

(* processRskGwMsg: a parsed work shifts current to previous; a message   *)
(* initFromGw rejects keeps both.  The flag is recomputed either way.     *)
processRskGwMsg(msg) ==
  LET prev == IF msg = InvalidGw THEN previousRskWork ELSE currentRskWork
      cur  == IF msg = InvalidGw THEN currentRskWork ELSE msg
  IN
  /\ previousRskWork' = prev
  /\ currentRskWork' = cur
  /\ isMergedMiningUpdate' = triggerRskUpdate(prev, cur)
  /\ UNCHANGED <<now, rawgbtMap, lastestGbtHash, currBestHeight,
                 lastJobSendTime, isLastJobEmptyBlock, latestNmcAuxBlockJson,
                 latestNmcAuxBlockHash, latestNmcAuxBlockHeight, mpc,
                 bestRawGbt, auxSnapshot, rskSnapshot, lastJob, coinbaseScriptLen>>

(* findBestRawGbt, under lock_: expire templates and RSK work, then pick  *)
(* the best template if a trigger holds.  Otherwise makeStratumJobMsg     *)
(* returns "" and the timer thread stays idle.                             *)
findBestRawGbt ==
  LET m  == clearTimeoutGbt(rawgbtMap)
      gw == clearTimeoutGw
  IN
  /\ mpc = "idle"
  /\ rawgbtMap' = m
  /\ previousRskWork' = gw.prev
  /\ currentRskWork' = gw.cur
  /\ IF DOMAIN m # {} /\ NeedNewJob(BestKey(m))
     THEN /\ currBestHeight' = gbtKeyGetHeight(BestKey(m))
          /\ bestRawGbt' = m[BestKey(m)]
          /\ mpc' = "found"
     ELSE UNCHANGED <<currBestHeight, bestRawGbt, mpc>>
  /\ UNCHANGED <<now, lastestGbtHash, lastJobSendTime, isLastJobEmptyBlock,
                 latestNmcAuxBlockJson, latestNmcAuxBlockHash,
                 latestNmcAuxBlockHeight, isMergedMiningUpdate, auxSnapshot,
                 rskSnapshot, lastJob, coinbaseScriptLen>>

(* makeStratumJob, lines 498-508: copy the aux JSON and the current RSK   *)
(* work, each under its own lock.                                          *)
readMergedWork ==
  /\ mpc = "found"
  /\ auxSnapshot' = latestNmcAuxBlockJson
  /\ rskSnapshot' = currentRskWork
  /\ mpc' = "read"
  /\ UNCHANGED <<now, rawgbtMap, lastestGbtHash, currBestHeight,
                 lastJobSendTime, isLastJobEmptyBlock, latestNmcAuxBlockJson,
                 latestNmcAuxBlockHash, latestNmcAuxBlockHeight,
                 previousRskWork, currentRskWork, isMergedMiningUpdate,
                 bestRawGbt, lastJob, coinbaseScriptLen>>

(* makeStratumJob, lines 510-537, with initFromGbt: build the job from    *)
(* the snapshots and the flag as read now, publish it, record the send    *)
(* time and emptiness, and clear the flag.                                 *)
makeStratumJob ==
  /\ mpc = "read"
  /\ ScriptSigSize(auxSnapshot) < ScriptSigMaxLen
  /\ lastJob' = initFromGbt(bestRawGbt, auxSnapshot, rskSnapshot,
                            isMergedMiningUpdate)
  /\ lastJobSendTime' = now
  /\ isLastJobEmptyBlock' = bestRawGbt.empty
  /\ isMergedMiningUpdate' = FALSE
  /\ mpc' = "idle"
  /\ bestRawGbt' = NoGbt
  /\ auxSnapshot' = NoAux
  /\ rskSnapshot' = NoRsk
  /\ UNCHANGED <<now, rawgbtMap, lastestGbtHash, currBestHeight,
                 latestNmcAuxBlockJson, latestNmcAuxBlockHash,
                 latestNmcAuxBlockHeight, previousRskWork, currentRskWork,
                 coinbaseScriptLen>>

(* A restart of the job maker: the constructor's state, then              *)
(* initConsumerHandlers replays the latest messages of each topic, which  *)
(* the arrival actions model.  Published jobs stay on the job topic.      *)
Restart ==
  /\ rawgbtMap' = <<>>
  /\ lastestGbtHash' = <<>>
  /\ currBestHeight' = 0
  /\ lastJobSendTime' = 0
  /\ isLastJobEmptyBlock' = FALSE
  /\ latestNmcAuxBlockJson' = NoAux
  /\ latestNmcAuxBlockHash' = NoHash
  /\ latestNmcAuxBlockHeight' = 0
  /\ previousRskWork' = NoRsk
  /\ currentRskWork' = NoRsk
  /\ isMergedMiningUpdate' = FALSE
  /\ mpc' = "idle"
  /\ bestRawGbt' = NoGbt
  /\ auxSnapshot' = NoAux
  /\ rskSnapshot' = NoRsk
  /\ UNCHANGED <<now, lastJob, coinbaseScriptLen>>

(* makeStratumJob when initFromGbt hits LOG(FATAL) on a scriptSig of 100 *)
(* bytes or more: the process aborts, nothing is published, and the      *)
(* supervisor starts it again with the constructor's state.               *)
abortStratumJob ==
  /\ mpc = "read"
  /\ ScriptSigSize(auxSnapshot) >= ScriptSigMaxLen
  /\ Restart

MsgTime == {t \in Time : now - MaxMsgLag <= t /\ t <= now}

Next ==
  \/ Tick
  \/ \E g \in Templates, t \in MsgTime : addRawGbt(g, t)
  \/ \E a \in AuxBlocks, t \in MsgTime : processAuxPowMsg(a, t)
  \/ \E w \in RskWorks, t \in MsgTime :
        processRskGwMsg([hash |-> w.hash, notify |-> w.notify, createdAt |-> t])
  \/ processRskGwMsg(InvalidGw)
  \/ findBestRawGbt
  \/ readMergedWork
  \/ makeStratumJob
  \/ abortStratumJob
  \/ Restart

(* The timer thread keeps calling makeStratumJobMsg, so its steps are     *)
(* weakly fair; message arrival, the clock and restarts are not.           *)
Spec ==
  /\ Init /\ [][Next]_vars
  /\ WF_vars(findBestRawGbt) /\ WF_vars(readMergedWork) /\ WF_vars(makeStratumJob)
  /\ WF_vars(abortStratumJob)

-----------------------------------------------------------------------------
RskWork == [hash : {w.hash : w \in RskWorks}, notify : BOOLEAN, createdAt : Time]
AuxJson == [hash : {a.hash : a \in AuxBlocks}, height : Nat, createdAt : Time]
Job == [jobId : Nat, height : Heights, empty : BOOLEAN,
        nmc : {a.hash : a \in AuxBlocks} \cup {NoHash},
        rsk : RskWork \cup {NoRsk}, clean : BOOLEAN, time : Time]

TypeOK ==
  /\ now \in Time
  /\ DOMAIN rawgbtMap \subseteq Nat /\ \A k \in DOMAIN rawgbtMap : rawgbtMap[k] \in Templates
  /\ lastestGbtHash \in Seq({g.hash : g \in Templates})
  /\ Len(lastestGbtHash) <= MaxGbtHashes
  /\ currBestHeight \in Heights \cup {0}
  /\ lastJobSendTime \in Time
  /\ isLastJobEmptyBlock \in BOOLEAN
  /\ latestNmcAuxBlockJson \in AuxJson \cup {NoAux}
  /\ previousRskWork \in RskWork \cup {NoRsk}
  /\ currentRskWork \in RskWork \cup {NoRsk}
  /\ isMergedMiningUpdate \in BOOLEAN
  /\ mpc \in {"idle", "found", "read"}
  /\ bestRawGbt \in Templates \cup {NoGbt}
  /\ lastJob \in Job \cup {NoJob}
  /\ coinbaseScriptLen \in CoinbaseScriptLens

-----------------------------------------------------------------------------
(* Properties.                                                              *)

(* Spec 3/5: each published job has a jobId greater than the previous     *)
(* one (makeStratumJob / initFromGbt line 274).                            *)
JobIdIncreasing ==
  [][makeStratumJob /\ lastJob # NoJob => lastJob'.jobId > lastJob.jobId]_vars

(* Spec 4.1 (c), policy 2: a change of the AuxPow block hash is published. *)
(* When the timer thread is idle and no update is pending, the last job   *)
(* carries the latest aux block, unless that block is too old to use.     *)
MergedMiningUpdateNotLost ==
  (mpc = "idle" /\ ~isMergedMiningUpdate /\ lastJob # NoJob
     /\ AuxFresh(latestNmcAuxBlockJson, now))
    => lastJob.nmc = latestNmcAuxBlockHash

(* clearTimeoutGw is meant to drop RSK work older than 120 s: a published *)
(* job never carries RSK work that was already expired when it was built. *)
PublishedRskWorkFresh ==
  lastJob # NoJob /\ lastJob.rsk # NoRsk
    => lastJob.rsk.createdAt + RskWorkLifeTime >= lastJob.time

(* Spec 4.1 / 8, height monotonicity with grace: a template T2 accepted   *)
(* while a non-empty template T1 of greater height, less than two job     *)
(* intervals older, is in the cache does not become the selected best.    *)
LowHeightGraceHonoured ==
  [][\A g \in Templates, t \in MsgTime :
       addRawGbt(g, t) /\ makeGbtKey(t, g.empty, g.height) \notin DOMAIN rawgbtMap
         /\ BestKey(rawgbtMap') = makeGbtKey(t, g.empty, g.height)
       => ~\E k \in DOMAIN rawgbtMap :
              /\ g.height < gbtKeyGetHeight(k)
              /\ ~gbtKeyIsEmptyBlock(k)
              /\ t - gbtKeyGetTime(k) < 2 * JobInterval]_vars

(* Spec 4.1 (c): a pending merged-mining update makes the timer thread    *)
(* publish a job (which clears the flag) while the cache holds a template. *)
MergedMiningUpdateConsumed ==
  (isMergedMiningUpdate /\ DOMAIN rawgbtMap # {}) ~> ~isMergedMiningUpdate

(* Spec 4.1 (a): a best template of a new height leads to a job of that   *)
(* height, unless a later template or an eviction replaces it first.      *)
NewHeightPublished ==
  \A h \in Heights :
    (DOMAIN rawgbtMap # {} /\ gbtKeyGetHeight(BestKey(rawgbtMap)) = h
       /\ h > currBestHeight)
    ~> (currBestHeight >= h
        \/ DOMAIN rawgbtMap = {} \/ gbtKeyGetHeight(BestKey(rawgbtMap)) # h)

(* Spec 4.1 (b): after an empty-block job, a non-empty best template of   *)
(* the same height leads to a non-empty job, unless it is replaced first. *)
EmptyBlockJobReplacedOnce ==
  LET Pending == /\ lastJob # NoJob /\ lastJob.empty
                 /\ DOMAIN rawgbtMap # {}
                 /\ ~gbtKeyIsEmptyBlock(BestKey(rawgbtMap))
                 /\ gbtKeyGetHeight(BestKey(rawgbtMap)) = lastJob.height
  IN  Pending ~> ~Pending

(* Spec 6, round-trip law: the JSON serializeToJson puts on the job topic *)
(* parses back (unserializeFromJson, as the job repository does) into the *)
(* job that was published, optional merged-mining fields included.        *)
JobTopicRoundTrip ==
  lastJob # NoJob
    => unserializeFromJson(serializeToJson(lastJob)) = JobFields(lastJob)

(* JobMakerBitcoin.cc:315 "The height cannot reduce in normal": the timer *)
(* thread selects a lower height than the last one only for a template   *)
(* that arrived no earlier than the last job was sent (an upstream       *)
(* reorganisation), never by falling back to an older cached template.   *)
HeightFallsOnlyForNewerTemplate ==
  [][findBestRawGbt /\ mpc' = "found" /\ currBestHeight' < currBestHeight
       => gbtKeyGetTime(BestKey(rawgbtMap')) >= lastJobSendTime]_vars

=============================================================================
