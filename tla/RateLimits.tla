----------------------------- MODULE RateLimits ------------------------------
(***************************************************************************)
(* The limits on one agent: the sliding window for its messages            *)
(* (RateLimiter), the token buckets for its language model calls           *)
(* (TokenBucket, TokenRateLimiter), the warnings (ws_rate_limit.py), the   *)
(* REST routes (rate_limit_router.py, rate_limit_router2.py), the rows     *)
(* that the flush task writes, and the bucket the client keeps             *)
(* (agent_client/rate_limit.py).                                           *)
(*                                                                         *)
(* There are two TokenRateLimiters: the REST routes and the flush task use *)
(* the one main.py makes, the WebSocket endpoint one of its own.           *)
(* Time is a number of ticks; a limit per minute is one per Minute ticks.  *)
(***************************************************************************)
EXTENDS Integers, FiniteSetsExt

CONSTANTS
    Minute,       \* ticks
    Day,          \* ticks for which the flush task keeps rows
    Tpms,         \* tokens per minute an administrator may set, multiples of Minute; 0 is no limit
    Bursts,       \* burst factors, in halves
    Amounts,      \* tokens a call may have used
    SpeakLimit,   \* messages per minute
    MaxTime, MaxReports,
    NoBucket, NoBurst

DefaultBurst == 3

ASSUME RateAssumption ==
    /\ Minute \in Nat \ {0} /\ Day \in Nat /\ MaxTime \in Nat /\ MaxReports \in Nat
    /\ IsFiniteSet(Tpms) /\ IsFiniteSet(Bursts)
    /\ Tpms \subseteq Nat /\ Bursts \subseteq Nat \ {0} /\ DefaultBurst \in Bursts
    /\ Amounts \subseteq Nat /\ SpeakLimit \in Nat

Ticks == 0..MaxTime

VARIABLES
    now,
    recent,    \* [Ticks -> Nat]: the timestamps RateLimiter keeps, counted by time
    spoken,    \* [Ticks -> Nat]: history: the messages it let through
    limits,       \* the limit in the agent's row: [tpm, burst]
    patch,     \* what a PATCH has put in memory and not yet in the row, or NoBurst
    rest, ws,  \* the agent's bucket in either limiter
    told,      \* _warning_state
    usage,     \* [window start -> tokens]: the rows of rate_limit_usage
    client,    \* the client's RateLimitTracker
    reports    \* reports made

rateVars == <<now, recent, spoken, limits, patch, rest, ws, told, usage, client, reports>>

-----------------------------------------------------------------------------
(* TokenBucket. born and spent are history: when it was made, what was taken. *)

Capacity(tpm, burst) == (tpm * burst) \div 2
Rate(tpm) == tpm \div Minute

FullBucket(tpm, burst) ==
    [cap |-> Capacity(tpm, burst), rate |-> Rate(tpm), tokens |-> Capacity(tpm, burst),
     last |-> now, born |-> now, spent |-> 0]

\* MUTANT of Refill: the time of the refill is not kept.
RefillAgain(b) == [b EXCEPT !.tokens = Min({b.cap, b.tokens + (now - b.last) * b.rate})]

\* _refill.
Refill(b) ==
    [b EXCEPT !.tokens = Min({b.cap, b.tokens + (now - b.last) * b.rate}), !.last = now]

\* MUTANT of Consume: what was used is taken, there or not.
ConsumeAnyway(b, n) ==
    IF b = NoBucket THEN NoBucket ELSE [Refill(b) EXCEPT !.tokens = @ - n, !.spent = @ + n]

\* consume: all or nothing.
Consume(b, n) ==
    IF b = NoBucket THEN NoBucket
    ELSE LET r == Refill(b) IN
         IF r.tokens >= n THEN [r EXCEPT !.tokens = @ - n, !.spent = @ + n] ELSE r

\* TokenRateLimiter.configure: no limit, no bucket; a bucket that exists keeps its tokens, and what it
\* has not been refilled for yet comes at the new rate.
Configure(b, tpm, burst) ==
    IF tpm <= 0 THEN NoBucket
    ELSE IF b = NoBucket THEN FullBucket(tpm, burst)
    ELSE [b EXCEPT !.cap = Capacity(tpm, burst), !.rate = Rate(tpm)]

\* get_status, of which the flush task writes the tokens used.
UsedNow(b) == IF b = NoBucket THEN 0 ELSE b.cap - Refill(b).tokens

\* usage_ratio >= percent / 100.
UsedAtLeast(b, percent) ==
    IF b.cap <= 0 THEN percent <= 0 ELSE 100 * (b.cap - Refill(b).tokens) >= percent * b.cap

(* The client's RateLimitTracker: the same bucket, which never refuses.       *)

FullTracker(tpm, burst) == [tpm |-> tpm, burst |-> burst, last |-> now, tokens |-> Capacity(tpm, burst)]

\* _refill, _on_welcome's update_config, and consume, which stops at zero.
Refilled(k) ==
    [k EXCEPT !.tokens = Min({Capacity(k.tpm, k.burst), k.tokens + (now - k.last) * Rate(k.tpm)}),
              !.last = now]
UpdateConfig(k, limit) == [k EXCEPT !.tpm = limit.tpm, !.burst = limit.burst]
Deducted(k, n) == IF k.tpm <= 0 THEN k ELSE [Refilled(k) EXCEPT !.tokens = Max({0, @ - n})]

RateInit ==
    /\ now = 0
    /\ recent = [t \in Ticks |-> 0] /\ spoken = recent
    /\ limits \in [tpm : Tpms, burst : Bursts]
    /\ patch = NoBurst
    /\ rest = NoBucket /\ ws = NoBucket
    /\ told = "ok"
    /\ usage = [w \in {} |-> 0]
    /\ client = FullTracker(Max(Tpms), DefaultBurst)
    /\ reports = 0

Tick ==
    /\ now < MaxTime
    /\ now' = now + 1
    /\ UNCHANGED <<recent, spoken, limits, patch, rest, ws, told, usage, client, reports>>

-----------------------------------------------------------------------------
(* RateLimiter.check_rate.                                                   *)

Kept == [t \in Ticks |-> IF t > now - Minute THEN recent[t] ELSE 0]

Total(counts) == MapThenSumSet(LAMBDA t : counts[t], Ticks)

CheckRate ==
    /\ LET allowed == Total(Kept) < SpeakLimit IN
       /\ recent' = IF allowed THEN [Kept EXCEPT ![now] = @ + 1] ELSE Kept
       /\ spoken' = IF allowed THEN [spoken EXCEPT ![now] = @ + 1] ELSE spoken
    /\ UNCHANGED <<now, limits, patch, rest, ws, told, usage, client, reports>>

-----------------------------------------------------------------------------
(* The agent's WebSocket.                                                    *)

\* The client takes the limits from the WELCOME and keeps its tokens.
Connect ==
    /\ ws' = Configure(ws, limits.tpm, limits.burst)
    /\ client' = UpdateConfig(client, limits)
    /\ UNCHANGED <<now, recent, spoken, limits, patch, rest, told, usage, reports>>

\* on_agent_disconnect, of any endpoint of the agent.
Disconnect ==
    /\ ws' = NoBucket /\ told' = "ok"
    /\ UNCHANGED <<now, recent, spoken, limits, patch, rest, usage, client, reports>>

\* The thresholds upwards: the first that is reached and was not the last one told.
Tiers == <<[at |-> 80, name |-> "warning"], [at |-> 95, name |-> "critical"],
           [at |-> 100, name |-> "limited"]>>

\* check_and_warn.
Warned(b) ==
    LET due == {k \in DOMAIN Tiers : UsedAtLeast(b, Tiers[k].at) /\ told # Tiers[k].name}
    IN IF due # {} THEN Tiers[Min(due)].name
       ELSE IF ~ UsedAtLeast(b, 80) THEN "ok" ELSE told

\* RATE_LIMIT_REPORT: the answer of consume is not looked at.
ReportOnSocket(n) ==
    /\ reports < MaxReports
    /\ reports' = reports + 1
    /\ ws' = Consume(ws, n)
    /\ told' = IF ws' = NoBucket THEN told ELSE Warned(ws')
    /\ UNCHANGED <<now, recent, spoken, limits, patch, rest, usage, client>>

-----------------------------------------------------------------------------
(* The REST routes.                                                          *)

\* report_token_usage of the client: its own bucket, never below zero, then the POST, which may be lost.
ReportByPost(n) ==
    /\ reports < MaxReports
    /\ reports' = reports + 1
    /\ client' = Deducted(client, n)
    /\ rest' = Consume(rest, n) \/ rest' = rest
    /\ UNCHANGED <<now, recent, spoken, limits, patch, ws, told, usage>>

\* check, and each turn of wait_until_available: the answer is a Boolean, the refill stays.
WaitUntilAvailable ==
    /\ client.tpm > 0
    /\ client' = Refilled(client)
    /\ UNCHANGED <<now, recent, spoken, limits, patch, rest, ws, told, usage, reports>>

\* PATCH config: in memory, with the default for a factor that is not given ...
Patch(tpm, burst) ==
    /\ patch = NoBurst
    /\ rest' = Configure(rest, tpm, IF burst = NoBurst THEN DefaultBurst ELSE burst)
    /\ patch' = [tpm |-> tpm, burst |-> burst]
    /\ UNCHANGED <<now, recent, spoken, limits, ws, told, usage, client, reports>>

\* ... then in the row, which keeps its factor.
StorePatch ==
    /\ patch # NoBurst
    /\ limits' = [tpm |-> patch.tpm, burst |-> IF patch.burst = NoBurst THEN limits.burst ELSE patch.burst]
    /\ patch' = NoBurst
    /\ UNCHANGED <<now, recent, spoken, rest, ws, told, usage, client, reports>>

\* _flush: one row for each minute; rows of more than a day ago go.
Flush ==
    LET start == now - (now % Minute)
        kept == {w \in DOMAIN usage : w >= now - Day}
    IN /\ usage' = IF rest = NoBucket THEN [w \in kept |-> usage[w]]
                   ELSE [w \in {v \in kept \cup {start} : v >= now - Day} |->
                             IF w = start THEN UsedNow(rest) ELSE usage[w]]
       /\ rest' = IF rest = NoBucket THEN rest ELSE Refill(rest)
       /\ UNCHANGED <<now, recent, spoken, limits, patch, ws, told, client, reports>>

\* The buckets, the window and the warnings are in memory only.
RestartLimits ==
    /\ recent' = [t \in Ticks |-> 0] /\ spoken' = recent'
    /\ rest' = NoBucket /\ ws' = NoBucket /\ told' = "ok" /\ patch' = NoBurst
    /\ UNCHANGED <<now, limits, usage, client, reports>>

MessageNext == Tick \/ CheckRate \/ RestartLimits

SocketNext ==
    \/ Tick \/ Connect \/ Disconnect \/ StorePatch \/ RestartLimits
    \/ \E n \in Amounts : ReportOnSocket(n)
    \/ \E tpm \in Tpms, burst \in Bursts \cup {NoBurst} : Patch(tpm, burst)

RestNext ==
    \/ Tick \/ StorePatch \/ Flush \/ RestartLimits \/ WaitUntilAvailable
    \/ \E n \in Amounts : ReportByPost(n)
    \/ \E tpm \in Tpms, burst \in Bursts \cup {NoBurst} : Patch(tpm, burst)

RateNext == MessageNext \/ SocketNext \/ RestNext

RateSpec == RateInit /\ [][RateNext]_rateVars

-----------------------------------------------------------------------------
Buckets == [cap : Nat, rate : Nat, tokens : Nat, last : Ticks, born : Ticks, spent : Nat]

RateTypes ==
    /\ now \in Ticks /\ recent \in [Ticks -> Nat] /\ spoken \in [Ticks -> Nat]
    /\ limits \in [tpm : Tpms, burst : Bursts]
    /\ patch \in {NoBurst} \cup [tpm : Tpms, burst : Bursts \cup {NoBurst}]
    /\ rest \in Buckets \cup {NoBucket} /\ ws \in Buckets \cup {NoBucket}
    /\ told \in {"ok", "warning", "critical", "limited"}
    /\ client \in [tpm : Tpms, burst : Bursts, last : Ticks, tokens : Nat]
    /\ reports \in 0..MaxReports

\* Whatever the messages and the pauses between them, no minute sees more of
\* them than the limit, wherever it begins (check_rate cuts its list at each call).
MinuteHolds ==
    \A t \in Ticks :
        MapThenSumSet(LAMBDA s : spoken[s], {s \in Ticks : t - Minute < s /\ s <= t}) <= SpeakLimit

MaxCapacity == Capacity(Max(Tpms), Max(Bursts))

\* What a bucket has let through since it was made is no more than the largest
\* burst and the largest rate allow for that time, through any refills, refusals
\* and reconfigurations, which keep the tokens (configure, _refill).
BudgetHolds ==
    \A b \in {rest, ws} \ {NoBucket} :
        /\ 0 <= b.tokens
        /\ b.spent + b.tokens <= MaxCapacity + Rate(Max(Tpms)) * (now - b.born)

\* Neither limit is ever exceeded: messages by the window, tokens by the bucket.
LimitsHold == MinuteHolds /\ BudgetHolds
=============================================================================
