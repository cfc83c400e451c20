----------------------- MODULE StratumSessionBitcoin -----------------------
(***************************************************************************)
(* One SHA256 Stratum session of the sserver                              *)
(* (src/src/bitcoin/StratumSessionBitcoin.cc) and the job fan-out of the   *)
(* repository that feeds it.  Handlers run to completion on the session's *)
(* reactor thread, so each is one action.  Submit is handled by the miner  *)
(* dispatcher, which is not under src/: it is modelled from spec.md 4.3    *)
(* ("Submit (generic SHA256)"), as are checkUserAndPwd, addLocalJob,       *)
(* findLocalJob and clearLocalJobs.                                        *)
(***************************************************************************)
EXTENDS Naturals, Sequences, FiniteSets, FiniteSetsExt, Bags, BagsExt

CONSTANTS
    MaxJobs,         \* job ids the repository publishes: 1..MaxJobs
    Nonces,          \* share tuples (extraNonce2, nTime, versionMask) a miner submits
    MinDiffs,        \* minimum-difficulty values a miner may suggest
    Masks,           \* version-rolling masks a miner may request
    NoValue,         \* absent option / unset field
    MaxLocalJobs,    \* K: clearLocalJobs keeps the last K LocalJobs
    MaxSubmits       \* bound on the number of submits

\* allocShortJobId cycles through 0..ShortJobIdCycle-1 (line 440).
ShortJobIdCycle == 10

Rank == [s \in {"CONNECTED", "SUBSCRIBED", "AUTHENTICATED"} |->
            IF s = "CONNECTED" THEN 1 ELSE IF s = "SUBSCRIBED" THEN 2 ELSE 3]

VARIABLES
    state,             \* state_
    shortJobIdIdx,     \* shortJobIdIdx_
    localJobs,         \* localJobs_: <<[jobId, shortJobId, shares]>>, oldest first
    latestJob,         \* jobRepository_->getLatestStratumJobEx()
    versionMask,       \* versionMask_
    suggestedMinDiff,  \* suggestedMinDiff_
    minerMinDiff,      \* the min difficulty of the StratumMiner the dispatcher built
    published,         \* bag of shares sent to the share topic
    lastReply,         \* the last response or error sent to the miner
    submits            \* submits handled so far

vars == <<state, shortJobIdIdx, localJobs, latestJob, versionMask,
          suggestedMinDiff, minerMinDiff, published, lastReply, submits>>

ShareRec == [job : 1..MaxJobs, nonce : Nonces]

\* allocShortJobId wrapping one id early: the comment's "range [0, 9]"
\* taken as the bound of the index test.
allocShortJobId_wrapEarly(idx) ==
    LET cur == IF idx >= ShortJobIdCycle - 1 THEN 0 ELSE idx
    IN  <<cur, cur + 1>>

\* allocShortJobId: <<the short id handed out, shortJobIdIdx_ after>>.
allocShortJobId(idx) ==
    LET cur == IF idx >= ShortJobIdCycle THEN 0 ELSE idx
    IN  <<cur, cur + 1>>

\* clearLocalJobs with an off-by-one: keeps one LocalJob too many.
clearLocalJobs_keepOneMore(ljs) ==
    IF Len(ljs) > MaxLocalJobs + 1
    THEN SubSeq(ljs, Len(ljs) - MaxLocalJobs, Len(ljs))
    ELSE ljs

\* clearLocalJobs: keep the newest MaxLocalJobs entries (spec.md 3, 9).
clearLocalJobs(ljs) ==
    IF Len(ljs) > MaxLocalJobs
    THEN SubSeq(ljs, Len(ljs) - MaxLocalJobs + 1, Len(ljs))
    ELSE ljs

\* findLocalJob(shortJobId): index of the newest LocalJob with that short
\* id, 0 when there is none.
findLocalJob(ljs, sid) ==
    LET idx == {i \in DOMAIN ljs : ljs[i].shortJobId = sid}
    IN  IF idx = {} THEN 0 ELSE Max(idx)

\* sendMiningNotify(job): nothing below AUTHENTICATED; otherwise
\* addLocalJob(jobId, allocShortJobId()) and then clearLocalJobs.
\* Sets localJobs' and shortJobIdIdx'.
sendMiningNotify(st, j) ==
    IF Rank[st] < Rank["AUTHENTICATED"]
    THEN UNCHANGED <<localJobs, shortJobIdIdx>>
    ELSE LET a == allocShortJobId(shortJobIdIdx)
         IN  /\ shortJobIdIdx' = a[2]
             /\ localJobs' = clearLocalJobs(Append(localJobs,
                                 [jobId |-> j, shortJobId |-> a[1], shares |-> {}]))

Init ==
    /\ state = "CONNECTED"
    /\ shortJobIdIdx = 0
    /\ localJobs = << >>
    /\ latestJob = 1
    /\ versionMask = NoValue
    /\ suggestedMinDiff = NoValue
    /\ minerMinDiff = NoValue
    /\ published = EmptyBag
    /\ lastReply = "none"
    /\ submits = 0

\* The repository publishes the next job and fans it out to this session.
NewJob == /\ latestJob < MaxJobs
          /\ latestJob' = latestJob + 1
          /\ sendMiningNotify(state, latestJob + 1)
          /\ UNCHANGED <<state, versionMask, suggestedMinDiff, minerMinDiff,
                         published, lastReply, submits>>

\* A subscribe handler that forgets its CONNECTED check.
Subscribe_noStateCheck ==
    /\ state' = "SUBSCRIBED"
    /\ lastReply' = "subscribed"
    /\ UNCHANGED <<shortJobIdIdx, localJobs, latestJob, versionMask,
                   suggestedMinDiff, minerMinDiff, published, submits>>

\* handleRequest_Subscribe (build without WORK_WITH_STRATUM_SWITCHER).
Subscribe ==
    /\ IF state # "CONNECTED"
       THEN /\ lastReply' = "UNKNOWN"
            /\ UNCHANGED state
       ELSE /\ state' = "SUBSCRIBED"
            /\ lastReply' = "subscribed"
    /\ UNCHANGED <<shortJobIdIdx, localJobs, latestJob, versionMask,
                   suggestedMinDiff, minerMinDiff, published, submits>>

\* handleRequest_Authorize with a missing, rejected or accepted username.
\* On success checkUserAndPwd authenticates, builds the dispatcher, whose
\* miner takes suggestedMinDiff_ (createMiner), and sends the latest job.
Authorize(cred) ==
    /\ IF state # "SUBSCRIBED" \/ cred # "good"
       THEN /\ lastReply' = CASE state # "SUBSCRIBED" -> "NOT_SUBSCRIBED"
                              [] cred = "missing"    -> "INVALID_USERNAME"
                              [] OTHER               -> "UNAUTHORIZED"
            /\ UNCHANGED <<state, minerMinDiff, localJobs, shortJobIdIdx>>
       ELSE /\ state' = "AUTHENTICATED"
            /\ minerMinDiff' = suggestedMinDiff
            /\ lastReply' = "authorized"
            /\ sendMiningNotify("AUTHENTICATED", latestJob)
    /\ UNCHANGED <<latestJob, versionMask, suggestedMinDiff, published, submits>>

\* handleRequest_MiningConfigure: ok is the params shape check; md and m
\* are the minimum-difficulty and version-rolling options (NoValue: absent
\* or of the wrong type, answered "false").
MiningConfigure(ok, md, m) ==
    /\ IF ~ok
       THEN /\ lastReply' = "ILLEGAL_PARARMS"
            /\ UNCHANGED <<suggestedMinDiff, versionMask>>
       ELSE /\ suggestedMinDiff' = IF md # NoValue THEN md ELSE suggestedMinDiff
            /\ versionMask' = IF m # NoValue THEN m ELSE versionMask
            /\ lastReply' = "configured"
    /\ UNCHANGED <<state, shortJobIdIdx, localJobs, latestJob, minerMinDiff,
                   published, submits>>

\* A submit handler that does not look in the seen-set.
submitOutcome_noDupCheck(i, n) ==
    IF i = 0 THEN "JOB_NOT_FOUND"
    ELSE "checked"

\* The rejections of a submit (spec.md 4.3) for the LocalJob at index i
\* (0: none) and share n; "checked" when none applies.
submitOutcome(i, n) ==
    IF i = 0 THEN "JOB_NOT_FOUND"
    ELSE IF n \in localJobs[i].shares THEN "DUPLICATE_SHARE"
    ELSE "checked"

\* mining.submit naming short job id sid and share n, handled by the
\* dispatcher: a new share is added to the LocalJob's seen-set, validated
\* and published.
Submit(sid, n) ==
    LET i == findLocalJob(localJobs, sid)
        outcome == submitOutcome(i, n)
    IN
    /\ submits < MaxSubmits
    /\ submits' = submits + 1
    /\ lastReply' = IF outcome = "checked" THEN "true" ELSE outcome
    /\ localJobs' = IF outcome = "checked"
                    THEN [localJobs EXCEPT ![i].shares = @ \cup {n}]
                    ELSE localJobs
    /\ published' = IF outcome = "checked"
                    THEN BagAdd(published, [job |-> localJobs[i].jobId, nonce |-> n])
                    ELSE published
    /\ UNCHANGED <<state, shortJobIdIdx, latestJob, versionMask,
                   suggestedMinDiff, minerMinDiff>>

\* handleRequest: subscribe, authorize and configure are handled by the
\* session; any other method goes to dispatcher_, which exists only once an
\* authorize has succeeded, and is dropped without a reply before that.
\* handleRequest_AgentGetCapabilities: the agent protocol's capabilities
\* are sent back, whatever the session's state; nothing else changes.
AgentGetCapabilities ==
    /\ lastReply' = "capabilities"
    /\ UNCHANGED <<state, shortJobIdIdx, localJobs, latestJob, versionMask,
                   suggestedMinDiff, minerMinDiff, published, submits>>

Next ==
    \/ NewJob
    \/ AgentGetCapabilities
    \/ Subscribe
    \/ \E c \in {"missing", "bad", "good"} : Authorize(c)
    \/ \E ok \in BOOLEAN, md \in MinDiffs \cup {NoValue}, m \in Masks \cup {NoValue} :
          MiningConfigure(ok, md, m)
    \/ /\ state = "AUTHENTICATED"
       /\ \E sid \in 0..(ShortJobIdCycle - 1), n \in Nonces : Submit(sid, n)

\* The reactor handles whatever the miner sends; nothing is assumed fair.
Spec == Init /\ [][Next]_vars

-----------------------------------------------------------------------------
TypeOK ==
    /\ state \in DOMAIN Rank
    /\ shortJobIdIdx \in 0..ShortJobIdCycle
    /\ localJobs \in Seq([jobId : 1..MaxJobs, shortJobId : 0..(ShortJobIdCycle - 1),
                          shares : SUBSET Nonces])
    /\ Len(localJobs) <= MaxLocalJobs
    /\ latestJob \in 1..MaxJobs
    /\ versionMask \in Masks \cup {NoValue}
    /\ suggestedMinDiff \in MinDiffs \cup {NoValue}
    /\ minerMinDiff \in MinDiffs \cup {NoValue}
    /\ IsABag(published) /\ BagToSet(published) \subseteq ShareRec
    /\ submits \in 0..MaxSubmits

\* The Session Engine's state promise (spec.md 4.3 "States"), the SHA256
\* session as an implementation of SessionStates: subscribe and authorize
\* guard on the exact state they leave, so the state never falls.
Abstract == INSTANCE SessionStates WITH Shares <- ShareRec,
                                         published <- BagToSet(published)
SessionStatesRefined == Abstract!Spec

\* Every LocalJob still held is the one a submit naming its shortJobId is
\* matched to: allocShortJobId's cycle of ten outlasts the LocalJob window.
ShortJobIdResolves ==
    \A i \in DOMAIN localJobs : findLocalJob(localJobs, localJobs[i].shortJobId) = i

\* Dedup soundness (spec.md 8): no share of a job is accepted twice.
NoDuplicateAccepted ==
    \A s \in BagToSet(published) : CopiesIn(s, published) = 1

\* Spec.md 5: the difficulty controller honours the floor a miner suggests
\* with mining.configure (minimum-difficulty).  An authenticated session's
\* miner runs with the last floor handleRequest_MiningConfigure accepted,
\* although createMiner (StratumSessionBitcoin.cc:455) read it only once.
MinDiffHonoured ==
    state = "AUTHENTICATED" => minerMinDiff = suggestedMinDiff
=============================================================================
