------------------------------ MODULE QuotaReset ------------------------------
(***************************************************************************)
(* What the worker believes of its daily quota (services/scheduler.py and  *)
(* client/football.py): three readings of the vendor's counter, one kept   *)
(* by the client, one by the scheduler, and the last answer of /status.    *)
(* The vendor's counter starts anew at UTC midnight, but /status and the   *)
(* headers of other answers may go on reporting yesterday's count, and a   *)
(* call past the cap is answered by an error whose headers show the whole  *)
(* plan.                                                                   *)
(*                                                                         *)
(* Handlers take no time; time is in units.  A reading keeps the calls     *)
(* left; `current' is the limit less those, as the vendor sends it.        *)
(***************************************************************************)
EXTENDS Integers

CONSTANTS
    DayLength,    \* units in a day
    Days,         \* bound on the days
    Probe,        \* RESET_PROBE_SECONDS
    Refresh,      \* STATUS_REFRESH_SECONDS
    IdleCap,      \* idle_cap_seconds
    Limit,        \* limit_day
    Buffer,       \* safety_buffer_requests
    MaxCalls,     \* bound on the calls between two ticks
    Lags          \* the counters that may lag after midnight

\* The calls of one probe fit into a day's plan: ticks are a unit apart at least,
\* and the client paces the calls (quota_requests_per_minute).
ConstantsOK ==
    /\ {DayLength, Probe, IdleCap} \subseteq Nat \ {0}
    /\ {Days, Limit, Buffer, MaxCalls} \subseteq Nat
    /\ Lags \subseteq {"none", "header", "both"}
    /\ MaxCalls * Probe <= Limit

VARIABLES
    now,       \* the instant
    used,      \* calls the vendor has counted today
    carried,   \* calls it had counted when the day began
    lag,       \* what still reports `carried': "none", "header" or "both"
    client,    \* FootballClient._quota
    quota,     \* Scheduler._quota
    status,    \* Scheduler._status_quota
    calls,     \* calls_made since _calls_baseline
    clock,     \* when the next tick is due
    pc,        \* "idle", "status", "plan" or "work"
    started,   \* _work_started
    made,      \* calls since the last tick began
    refused    \* instant of the last call that was answered with the cap

vars == <<now, used, carried, lag, client, quota, status, calls, clock, pc,
          started, made, refused>>

Never == -1 - DayLength
None  == [at |-> Never, left |-> 0, kind |-> "none"]
Readings == [at : {Never} \cup 0 .. Days * DayLength, left : 0 .. Limit,
             kind : {"none", "status", "header", "unknown"}]

TypeOK ==
    /\ now \in 0 .. Days * DayLength
    /\ used \in 0 .. Limit /\ carried \in 0 .. Limit
    /\ lag \in {"none", "header", "both"}
    /\ {client, quota, status} \subseteq Readings
    /\ calls \in 0 .. MaxCalls /\ made \in 0 .. MaxCalls
    /\ clock \in Nat /\ pc \in {"idle", "status", "plan", "work"}
    /\ started \in BOOLEAN
    /\ refused \in {Never} \cup 0 .. Days * DayLength

-----------------------------------------------------------------------------
(* Readings.                                                               *)

Day(t) == t \div DayLength
UntilMidnight == DayLength - (now % DayLength)
Least(a, b) == IF a < b THEN a ELSE b
IsApi(r)   == r.kind \in {"status", "header"}
IsToday(r) == IsApi(r) /\ Day(r.at) = Day(now)

\* _inside_buffer
InsideBuffer(r) == r.left <= Buffer

\* _quota_reading_stale
IsStale(r) == now - r.at >= (IF InsideBuffer(r) THEN Probe ELSE Refresh)

\* _remember_status
Remembered(r) == IF r.kind = "status" THEN r ELSE status

\* _status_is_spent_today
SpentToday(s) == s.kind = "status" /\ IsToday(s) /\ InsideBuffer(s)

\* _probing_reset
Probing(s) == SpentToday(s) /\ now % DayLength < Probe

\* _status_confirms_buffer
ConfirmsBuffer(s) == SpentToday(s) /\ ~Probing(s)

\* _blocks_until_reset, and _daily_quota_blocked of the client
Blocks(r) == IsToday(r) /\ r.left = 0

\* _prefer_observed
PreferObserved(q) ==
    IF IsToday(client) /\ client.at >= q.at /\ q.left - client.left <= calls
    THEN client ELSE q

\* What _ensure_quota serves without a request: the client's spent reading, or
\* its own of today.
ServesClient == Blocks(client) /\ ~IsStale(client)
ServesOwn ==
    /\ IsToday(quota)
    /\ ~(InsideBuffer(quota) /\ ~ConfirmsBuffer(status))
    /\ ~IsStale(quota)

-----------------------------------------------------------------------------
(* The vendor.                                                             *)

ReportedUsed(source) ==
    IF lag = "both" \/ (lag = "header" /\ source = "header") THEN carried ELSE used
Reading(source) == [at |-> now, left |-> Limit - ReportedUsed(source), kind |-> source]
Refuses == ReportedUsed("status") = Limit \/ used = Limit

\* Mutant: the headers of the refusal are believed.
ExhaustedByHeader == [at |-> now, left |-> Limit, kind |-> "header"]

\* _exhaust_daily_quota
Exhausted == [at |-> now, left |-> 0, kind |-> "status"]

Init ==
    /\ now = 0 /\ used = 0 /\ carried \in 0 .. Limit
    /\ lag \in Lags
    /\ client = None /\ quota = None /\ status = None
    /\ calls = 0 /\ made = 0 /\ clock = 0 /\ pc = "idle"
    /\ started = FALSE
    /\ refused = Never

\* A counter of the vendor catches up with the new day.
CatchUp ==
    /\ lag # "none"
    /\ lag' \in IF lag = "both" THEN {"header", "none"} ELSE {"none"}
    /\ UNCHANGED <<now, used, carried, client, quota, status, calls, clock, pc,
                   started, made, refused>>

Pass ==
    /\ pc = "idle" /\ now < clock /\ now < Days * DayLength
    /\ now' = now + 1
    /\ IF Day(now') > Day(now)
       THEN /\ used' = 0 /\ carried' = used /\ lag' \in Lags
       ELSE UNCHANGED <<used, carried, lag>>
    /\ UNCHANGED <<client, quota, status, calls, clock, pc, started, made, refused>>

-----------------------------------------------------------------------------
(* A tick.                                                                 *)

\* _ensure_quota up to the request of /status
BeginTick ==
    /\ pc = "idle" /\ now >= clock /\ now < Days * DayLength
    /\ made' = 0
    /\ CASE ~Probing(status) /\ ServesClient ->
              /\ quota' = client /\ status' = Remembered(client)
              /\ pc' = "plan" /\ calls' = 0
         [] ~Probing(status) /\ ~ServesClient /\ ServesOwn ->
              /\ quota' = IF quota.left > 0 /\ ConfirmsBuffer(status)
                          THEN status ELSE quota
              /\ status' = IF quota.left > 0 /\ ConfirmsBuffer(status)
                           THEN status ELSE Remembered(quota)
              /\ pc' = "plan" /\ calls' = 0
         [] OTHER -> pc' = "status" /\ UNCHANGED <<quota, status, calls>>
    /\ started' = FALSE
    /\ UNCHANGED <<now, used, carried, lag, client, clock, refused>>

\* _fetch_status is answered, with the cap if it is spent (quota_from_http).
StatusAnswered ==
    /\ pc = "status"
    /\ client' = IF Refuses THEN Exhausted ELSE Reading("status")
    /\ quota' = client' /\ status' = client'
    /\ calls' = 0 /\ pc' = "plan"
    /\ UNCHANGED <<now, used, carried, lag, clock, started, made, refused>>

\* _fetch_status fails: the scheduler goes on with what it has.
StatusFailed ==
    /\ pc = "status"
    /\ quota' = IF quota = None THEN [at |-> now, left |-> 0, kind |-> "unknown"]
                ELSE quota
    /\ calls' = 0 /\ pc' = "plan"
    /\ UNCHANGED <<now, used, carried, lag, client, status, clock, started, made, refused>>

\* _sleep_seconds; the plan of n calls above the buffer stretches the pause over
\* the rest of the day (plan_live_budget).
SleepAfter(q) ==
    CASE Probing(status)        -> Least(IdleCap, UntilMidnight)
      [] ConfirmsBuffer(status) -> Least(Probe, UntilMidnight)
      [] ~SpentToday(status) /\ InsideBuffer(q) -> Least(IdleCap, UntilMidnight)
      [] OTHER -> (UntilMidnight + q.left - Buffer - 1) \div (q.left - Buffer)

\* _tick after _ensure_quota: nothing is done while /status may lag, or when the
\* calls are spent, or when /status has confirmed the buffer.
PlanTick ==
    /\ pc = "plan"
    /\ LET q == PreferObserved(quota)
       IN  /\ quota' = q
           /\ IF Probing(status) \/ (IsApi(q) /\ q.left = 0) \/ ConfirmsBuffer(status)
              THEN pc' = "idle" /\ clock' = now + SleepAfter(q) /\ UNCHANGED started
              ELSE pc' = "work" /\ started' = TRUE /\ UNCHANGED clock
    /\ UNCHANGED <<now, used, carried, lag, client, status, calls, made, refused>>

EndTick ==
    /\ pc = "work"
    /\ pc' = "idle" /\ clock' = now + SleepAfter(quota)
    /\ UNCHANGED <<now, used, carried, lag, client, quota, status, calls, started,
                   made, refused>>

-----------------------------------------------------------------------------
(* One request of a handler.                                               *)

\* request, _send_once, _note_quota_headers: the answer brings the headers, the
\* cap, or is lost on the way back.
Send ==
    /\ made < MaxCalls
    /\ made' = made + 1 /\ calls' = calls + 1
    /\ \/ /\ Refuses
          /\ client' = Exhausted /\ refused' = now
          /\ UNCHANGED used
       \/ /\ ~Refuses
          /\ used' = used + 1
          /\ \/ client' = [Reading("header") EXCEPT
                             !.left = Limit - (IF lag = "none" THEN used' ELSE carried)]
             \/ UNCHANGED client
          /\ UNCHANGED refused

\* A handler of the tick, admitted above the buffer (quota_allows): a request
\* that is blocked or refused ends the tick with the client's reading.
CallInTick ==
    /\ pc = "work"
    /\ LET q == PreferObserved(quota)
       IN  /\ ~InsideBuffer(q)
           /\ IF Blocks(client)
              THEN /\ quota' = client /\ pc' = "idle" /\ clock' = now + SleepAfter(client)
                   /\ UNCHANGED <<used, client, calls, made, refused>>
              ELSE /\ Send
                   /\ IF Refuses
                      THEN quota' = client' /\ pc' = "idle" /\ clock' = now + SleepAfter(client')
                      ELSE quota' = q /\ UNCHANGED <<pc, clock>>
    /\ UNCHANGED <<now, carried, lag, status, started>>

\* A handler of the history window, admitted in the same way.
CallInWindow ==
    /\ pc = "idle" /\ started /\ now < clock
    /\ LET q == PreferObserved(quota)
       IN  /\ ~InsideBuffer(q) /\ ~Blocks(client)
           /\ Send
           /\ quota' = IF Refuses THEN client' ELSE q
    /\ UNCHANGED <<now, carried, lag, status, clock, pc, started>>

\* The drain of odds requests, woken by one or at the head of a tick.
CallInDrain ==
    /\ pc = "idle" /\ ~Blocks(client)
    /\ Send
    /\ UNCHANGED <<now, carried, lag, quota, status, clock, pc, started>>

Next ==
    \/ CatchUp \/ Pass
    \/ BeginTick \/ StatusAnswered \/ StatusFailed \/ PlanTick \/ EndTick
    \/ CallInTick \/ CallInWindow \/ CallInDrain

Spec == Init /\ [][Next]_vars

-----------------------------------------------------------------------------
\* After the vendor has refused a call for the cap, it is asked again only a
\* probe later or on another day: the error, whose headers show the whole plan,
\* is not taken for calls to spend (_body_says_daily_limit, _exhaust_daily_quota,
\* _daily_quota_blocked).
RefusedOncePerProbe ==
    [][refused' # refused /\ refused # Never =>
          refused' - refused >= Probe \/ Day(refused') > Day(refused)]_vars

===============================================================================
