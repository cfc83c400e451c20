------------------------- MODULE StratumSessionEth -------------------------
(***************************************************************************)
(* One Ethereum Stratum session of the sserver (src/src/StratumSessionEth.cc) *)
(* talking to one miner, together with the part of the job repository the  *)
(* session reads (the latest job) and its fan-out of new jobs.             *)
(*                                                                         *)
(* Every request is handled to completion on the session's reactor thread *)
(* (spec.md 5), so each handler is one atomic action.  Strings are        *)
(* abstracted: a job id is a number of 1..MaxJobs in publication order, a  *)
(* nonce a model value, a credential one of three outcomes.  The code not *)
(* under src/ that the handlers call (checkUserAndPwd, findLocalJob,       *)
(* clearLocalJobs, ServerEth::checkShare) is modelled from spec.md.        *)
(***************************************************************************)
EXTENDS Naturals, Sequences, FiniteSets, FiniteSetsExt, Bags, BagsExt

CONSTANTS
    MaxJobs,          \* job ids the repository publishes: 1..MaxJobs
    Nonces,           \* nonces a miner submits
    CheckShare,       \* [1..MaxJobs \X Nonces -> Statuses]: checkShare's verdict
    MaxLocalJobs,     \* K: clearLocalJobs keeps the last K LocalJobs
    InvalidWindow,    \* INVALID_SHARE_SLIDING_WINDOWS_SIZE, in ticks
    InvalidLimit,     \* INVALID_SHARE_SLIDING_WINDOWS_MAX_LIMIT
    MaxTime,          \* bound on the clock
    MaxSubmits        \* bound on the number of submits

Statuses == {"ACCEPT", "SOLVED", "REJECT"}
Protocols == {"STRATUM", "ETHPROXY", "NICEHASH_STRATUM"}
Rank == [s \in {"CONNECTED", "SUBSCRIBED", "AUTHENTICATED"} |->
            IF s = "CONNECTED" THEN 1 ELSE IF s = "SUBSCRIBED" THEN 2 ELSE 3]

ASSUME CheckShare \in [(1..MaxJobs) \X Nonces -> Statuses]
ASSUME MaxLocalJobs \in Nat \ {0} /\ InvalidWindow \in Nat \ {0}

VARIABLES
    now,             \* time(nullptr), in ticks
    state,           \* state_
    ethProtocol,     \* ethProtocol_
    latestJob,       \* jobRepository_->getLatestStratumJobEx()
    localJobs,       \* localJobs_: <<[jobId, shares]>>, oldest first
    invalidShares,   \* invalidSharesCounter_: tick -> invalid shares
    published,       \* bag of the ShareEth records sent to the share topic
    lastReply,       \* the last response or error sent to the miner
    submits          \* submits handled so far (bounded by MaxSubmits)

vars == <<now, state, ethProtocol, latestJob, localJobs, invalidShares,
          published, lastReply, submits>>

Time == 0..MaxTime
ShareRec == [job : 1..MaxJobs, nonce : Nonces, status : Statuses, time : Time]

IsAccepted(st) == st \in {"ACCEPT", "SOLVED"}

\* clearLocalJobs with an off-by-one: keeps one LocalJob too many.
clearLocalJobs_keepOneMore(ljs) ==
    IF Len(ljs) > MaxLocalJobs + 1
    THEN SubSeq(ljs, Len(ljs) - MaxLocalJobs, Len(ljs))
    ELSE ljs

\* clearLocalJobs: keep the newest MaxLocalJobs entries (spec.md 3, 9).
clearLocalJobs(ljs) ==
    IF Len(ljs) > MaxLocalJobs
    THEN SubSeq(ljs, Len(ljs) - MaxLocalJobs + 1, Len(ljs))
    ELSE ljs

\* findLocalJob(jobId): the index of the newest LocalJob with that job id,
\* or 0 when there is none.
findLocalJob(ljs, j) ==
    LET idx == {i \in DOMAIN ljs : ljs[i].jobId = j}
    IN  IF idx = {} THEN 0 ELSE Max(idx)

\* sendMiningNotifyWithId: nothing below AUTHENTICATED; otherwise push a
\* LocalJob for the job and then clearLocalJobs.
sendMiningNotify(st, ljs, j) ==
    IF Rank[st] < Rank["AUTHENTICATED"]
    THEN ljs
    ELSE clearLocalJobs(Append(ljs, [jobId |-> j, shares |-> {}]))

\* invalidSharesCounter_.sum(t, INVALID_SHARE_SLIDING_WINDOWS_SIZE)
WindowSum(c, t) ==
    MapThenSumSet(LAMBDA u : c[u], {u \in DOMAIN c : t - InvalidWindow < u /\ u <= t})

AddInvalid(c) == [c EXCEPT ![now] = @ + 1]

Init ==
    /\ now = 0
    /\ state = "CONNECTED"
    /\ ethProtocol = "ETHPROXY"
    /\ latestJob = 1
    /\ localJobs = << >>
    /\ invalidShares = [t \in Time |-> 0]
    /\ published = EmptyBag
    /\ lastReply = "none"
    /\ submits = 0

Tick == /\ now < MaxTime
        /\ now' = now + 1
        /\ UNCHANGED <<state, ethProtocol, latestJob, localJobs, invalidShares,
                       published, lastReply, submits>>

\* The repository publishes the next job and fans it out to this session.
NewJob == /\ latestJob < MaxJobs
          /\ latestJob' = latestJob + 1
          /\ localJobs' = sendMiningNotify(state, localJobs, latestJob + 1)
          /\ UNCHANGED <<now, state, ethProtocol, invalidShares, published,
                         lastReply, submits>>

\* handleRequest_Subscribe; isNiceHash: params[1] starts "ethereumstratum/".
Subscribe(isNiceHash) ==
    /\ IF state # "CONNECTED"
       THEN /\ lastReply' = "UNKNOWN"
            /\ UNCHANGED <<state, ethProtocol>>
       ELSE /\ state' = "SUBSCRIBED"
            /\ ethProtocol' = IF isNiceHash THEN "NICEHASH_STRATUM" ELSE "STRATUM"
            /\ lastReply' = "subscribed"
    /\ UNCHANGED <<now, latestJob, localJobs, invalidShares, published, submits>>

\* handleRequest_Authorize: state_ = SUBSCRIBED first, then the username
\* check and checkUserAndPwd, which on success authenticates and sends the
\* latest job (spec.md 4.3 "Authorize").
Authorize(cred) ==
    /\ CASE cred = "missing" ->
              /\ state' = "SUBSCRIBED"
              /\ lastReply' = "INVALID_USERNAME"
              /\ UNCHANGED localJobs
         [] cred = "bad" ->
              /\ state' = "SUBSCRIBED"
              /\ lastReply' = "UNAUTHORIZED"
              /\ UNCHANGED localJobs
         [] cred = "good" ->
              /\ state' = "AUTHENTICATED"
              /\ lastReply' = "authorized"
              /\ localJobs' = sendMiningNotify("AUTHENTICATED", localJobs, latestJob)
    /\ UNCHANGED <<now, ethProtocol, latestJob, invalidShares, published, submits>>

\* handleRequest_GetWork: sendMiningNotifyWithId(latest job).  Below
\* AUTHENTICATED it changes nothing.
GetWork ==
    /\ state = "AUTHENTICATED"
    /\ localJobs' = sendMiningNotify(state, localJobs, latestJob)
    /\ UNCHANGED <<now, state, ethProtocol, latestJob, invalidShares, published,
                   lastReply, submits>>

\* The early returns of handleRequest_Submit, in the code's order, for the
\* LocalJob at index i (0: none) and nonce n; "checked" when none applies.
submitOutcome(i, n, paramsOk) ==
    IF state # "AUTHENTICATED" THEN "UNAUTHORIZED"
    ELSE IF ~paramsOk THEN "ILLEGAL_PARARMS"
    ELSE IF i = 0 THEN "JOB_NOT_FOUND"
    ELSE IF n \in localJobs[i].shares THEN "DUPLICATE_SHARE"
    ELSE "checked"

\* Mutant: the cut-off taken literally as "exceeds" the limit.
isSpam_exceeds(st, c) == ~IsAccepted(st) /\ WindowSum(c, now) > InvalidLimit

\* The spam check after the counter update: an invalid share is dropped
\* when the window sum, which already counts it, reaches the limit.
isSpam(st, c) == ~IsAccepted(st) /\ WindowSum(c, now) >= InvalidLimit

\* handleRequest_Submit for job j and nonce n; paramsOk says whether the
\* dialect's parameter count check passes.  After the early returns the
\* nonce is recorded in the LocalJob (addLocalShare), checkShare classifies
\* the share, the counter and the reply follow, and the share is sent to the
\* share topic unless it is invalid and the window sum is at the limit.
Submit(j, n, paramsOk) ==
    LET i == findLocalJob(localJobs, j)
        st == CheckShare[j, n]
        outcome == submitOutcome(i, n, paramsOk)
        inv2 == IF IsAccepted(st) THEN invalidShares ELSE AddInvalid(invalidShares)
        spam == isSpam(st, inv2)
    IN
    /\ submits < MaxSubmits
    /\ submits' = submits + 1
    /\ lastReply' = IF outcome # "checked" THEN outcome
                    ELSE IF IsAccepted(st) THEN "true" ELSE st
    /\ localJobs' = IF outcome = "checked"
                    THEN [localJobs EXCEPT ![i].shares = @ \cup {n}]
                    ELSE localJobs
    /\ invalidShares' = CASE outcome = "DUPLICATE_SHARE" -> AddInvalid(invalidShares)
                          [] outcome = "checked"         -> inv2
                          [] OTHER                       -> invalidShares
    /\ published' = IF outcome = "checked" /\ ~spam
                    THEN BagAdd(published, [job |-> j, nonce |-> n, status |-> st, time |-> now])
                    ELSE published
    /\ UNCHANGED <<now, state, ethProtocol, latestJob>>

\* handleRequest_SubmitHashrate: the reported hashrate is acknowledged
\* with true and dropped; nothing else changes.
SubmitHashrate ==
    /\ lastReply' = "true"
    /\ UNCHANGED <<now, state, ethProtocol, latestJob, localJobs, invalidShares,
                   published, submits>>

Next ==
    \/ Tick
    \/ SubmitHashrate
    \/ NewJob
    \/ \E b \in BOOLEAN : Subscribe(b)
    \/ \E c \in {"missing", "bad", "good"} : Authorize(c)
    \/ GetWork
    \/ \E j \in 1..MaxJobs, n \in Nonces, ok \in BOOLEAN : Submit(j, n, ok)

\* The reactor handles whatever the miner sends; nothing is assumed fair.
Spec == Init /\ [][Next]_vars

-----------------------------------------------------------------------------
TypeOK ==
    /\ now \in Time
    /\ state \in DOMAIN Rank
    /\ ethProtocol \in Protocols
    /\ latestJob \in 1..MaxJobs
    /\ localJobs \in Seq([jobId : 1..MaxJobs, shares : SUBSET Nonces])
    /\ Len(localJobs) <= MaxLocalJobs
    /\ invalidShares \in [Time -> 0..MaxSubmits]
    /\ IsABag(published) /\ BagToSet(published) \subseteq ShareRec
    /\ submits \in 0..MaxSubmits

\* The state the Session Engine promises (spec.md 4.3 "States"): the
\* session's state never falls and only an authenticated session publishes.
\* handleRequest_Authorize sets state_ = SUBSCRIBED before it checks anything.
Abstract == INSTANCE SessionStates WITH Shares <- ShareRec,
                                         published <- BagToSet(published)
SessionStatesRefined == Abstract!Spec

\* Dedup soundness (spec.md 8) at the level of the pool: one session never
\* gets the same nonce of the same job accepted and published twice.  Every
\* eth_getWork poll pushes a fresh LocalJob with an empty seen-set.
NoDuplicateAccepted ==
    \A s \in BagToSet(published) : IsAccepted(s.status) => CopiesIn(s, published) = 1

\* Invalid-share spam suppression (handleRequest_Submit, lines 462-472):
\* within any sliding window fewer than InvalidLimit invalid shares reach
\* the share topic, however the miner interleaves duplicates, rejected
\* shares and job polls.
InvalidSharesPublishedBelowLimit ==
    \A t \in Time :
        LET inWindow == {s \in BagToSet(published) :
                           ~IsAccepted(s.status) /\ t - InvalidWindow < s.time /\ s.time <= t}
        IN  MapThenSumSet(LAMBDA s : CopiesIn(s, published), inWindow) < InvalidLimit
=============================================================================
