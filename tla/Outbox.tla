-------------------------------- MODULE Outbox --------------------------------
(***************************************************************************)
(* The advisor's two outboxes.  Notices (advisor/telegram.py) are posted   *)
(* inside the transaction that marks them, so a crash forgets the attempt; *)
(* traces of model calls (advisor/langfuse.py) are claimed in one          *)
(* transaction, sent outside any, and marked in another, so a crash        *)
(* between the two leaves the claim.  One process serves both, in turn.    *)
(***************************************************************************)
EXTENDS Naturals, FiniteSets, FiniteSetsExt

CONSTANTS
    Notices,       \* ids of notices, in the order they are written
    Traces,        \* model calls to export
    MaxAttempts,   \* _MAX and MAX_EXPORT_ATTEMPTS
    Batch,         \* notices one pass takes
    MaxCrashes     \* bound on the crashes of the process

\* Ids are numbers, and everything is tried once at least.
ConstantsOK ==
    /\ Notices \subseteq Nat /\ MaxAttempts \in Nat \ {0} /\ MaxCrashes \in Nat

VARIABLES
    notice,     \* committed notices: status and attempts
    pass,       \* the open transaction: its notices, with what it set
    posted,     \* how often each notice has reached Telegram
    trace,      \* export rows: status and attempts
    exported,   \* how often each trace has reached Langfuse
    claim,      \* the trace being sent: {} or a singleton
    answer,     \* what sending it returned: "none", "ok" or "error"
    orphans,    \* traces a crash has left claimed
    crashes

vars == <<notice, pass, posted, trace, exported, claim, answer, orphans, crashes>>

Row(status, attempts) == [status |-> status, attempts |-> attempts]
Absent == Row("absent", 0)
Rows == [status : {"absent", "pending", "sending", "sent", "abandoned"},
         attempts : 0 .. MaxAttempts]

TypeOK ==
    /\ notice \in [Notices -> Rows] /\ trace \in [Traces -> Rows]
    /\ \E taken \in SUBSET Notices : pass \in [taken -> Rows]
    /\ posted \in [Notices -> Nat] /\ exported \in [Traces -> Nat]
    /\ claim \subseteq Traces /\ Cardinality(claim) <= 1
    /\ answer \in {"none", "ok", "error"}
    /\ orphans \subseteq Traces /\ crashes \in 0 .. MaxCrashes

NoPass == [n \in {} |-> Absent]

Init ==
    /\ notice = [n \in Notices |-> Absent] /\ pass = NoPass
    /\ posted = [n \in Notices |-> 0]
    /\ trace = [t \in Traces |-> Absent] /\ exported = [t \in Traces |-> 0]
    /\ claim = {} /\ answer = "none" /\ orphans = {} /\ crashes = 0

Idle == pass = NoPass /\ claim = {}

-----------------------------------------------------------------------------
(* Notices.                                                                *)

Fresh == {n \in Notices : notice[n].status = "absent"}

\* enqueue, in the transaction of an offer or of a withdrawal.
Enqueue ==
    /\ Idle /\ Fresh # {}
    /\ notice' = [notice EXCEPT ![Min(Fresh)] = Row("pending", 0)]
    /\ UNCHANGED <<pass, posted, trace, exported, claim, answer, orphans, crashes>>

\* The first Batch of a set of notices, in the order of their ids.
FirstOf(due) == {n \in due : Cardinality({m \in due : m < n}) < Batch}

\* deliver_pending opens its transaction: every notice it takes is counted.
\* store_summary has enqueued its own notice in the same transaction.
BeginPass(added) ==
    /\ Idle
    /\ LET due == added \cup {n \in Notices : notice[n].status = "pending"
                                              /\ notice[n].attempts < MaxAttempts}
       IN  /\ due # {}
           /\ pass' = [n \in FirstOf(due) |->
                          Row("sending", notice[n].attempts + 1)]
    /\ UNCHANGED <<notice, posted, trace, exported, claim, answer, orphans, crashes>>
DeliverPending == BeginPass({})
SummaryAndDeliver == Fresh # {} /\ BeginPass({Min(Fresh)})

Sending == {n \in DOMAIN pass : pass[n].status = "sending"}

\* Mutant: an attempt that fails is not counted.
AfterFailureUncounted(row) == Row("pending", row.attempts - 1)

\* What a failed attempt leaves.
AfterFailure(row) ==
    Row(IF row.attempts >= MaxAttempts THEN "abandoned" ELSE "pending", row.attempts)

\* post: it arrives and is acknowledged, arrives and the answer is lost, or
\* does not arrive.
PostOne ==
    /\ Sending # {}
    /\ LET n == Min(Sending)
       IN  \/ /\ pass' = [pass EXCEPT ![n] = Row("sent", @.attempts)]
              /\ posted' = [posted EXCEPT ![n] = @ + 1]
           \/ /\ pass' = [pass EXCEPT ![n] = AfterFailure(@)]
              /\ posted' \in {posted, [posted EXCEPT ![n] = @ + 1]}
    /\ UNCHANGED <<notice, trace, exported, claim, answer, orphans, crashes>>

\* The transaction commits.
EndPass ==
    /\ pass # NoPass /\ Sending = {}
    /\ notice' = [n \in Notices |-> IF n \in DOMAIN pass THEN pass[n] ELSE notice[n]]
    /\ pass' = NoPass
    /\ UNCHANGED <<posted, trace, exported, claim, answer, orphans, crashes>>

-----------------------------------------------------------------------------
(* Traces.                                                                 *)

\* A model call is booked with its trace row.
BookCall(t) ==
    /\ Idle /\ trace[t] = Absent
    /\ trace' = [trace EXCEPT ![t] = Row("pending", 0)]
    /\ UNCHANGED <<notice, pass, posted, exported, claim, answer, orphans, crashes>>

\* Mutant: the attempt is counted when it has been marked.
ClaimUncounted(t) ==
    /\ Idle
    /\ trace[t].status = "pending" /\ trace[t].attempts < MaxAttempts
    /\ trace' = [trace EXCEPT ![t] = Row("sending", @.attempts)]
    /\ claim' = {t}
    /\ UNCHANGED <<notice, pass, posted, exported, answer, orphans, crashes>>

\* _deliver, from deliver_trace and retry_pending: the claim is committed.
Claim(t) ==
    /\ Idle
    /\ trace[t].status = "pending" /\ trace[t].attempts < MaxAttempts
    /\ trace' = [trace EXCEPT ![t] = Row("sending", @.attempts + 1)]
    /\ claim' = {t}
    /\ UNCHANGED <<notice, pass, posted, exported, answer, orphans, crashes>>

\* _send swallows every failure.
Send(t) ==
    /\ t \in claim /\ answer = "none"
    /\ \/ answer' = "ok" /\ exported' = [exported EXCEPT ![t] = @ + 1]
       \/ answer' = "error" /\ exported' \in {exported, [exported EXCEPT ![t] = @ + 1]}
    /\ UNCHANGED <<notice, pass, posted, trace, claim, orphans, crashes>>

\* Mutant: only a success is marked.
MarkSuccessOnly(t) ==
    /\ t \in claim /\ answer # "none"
    /\ trace' = [trace EXCEPT ![t] = IF answer = "ok" THEN Row("sent", @.attempts) ELSE @]
    /\ claim' = {} /\ answer' = "none"
    /\ UNCHANGED <<notice, pass, posted, exported, orphans, crashes>>

\* The second transaction of _deliver.
Mark(t) ==
    /\ t \in claim /\ answer # "none"
    /\ trace' = [trace EXCEPT ![t] = IF answer = "ok" THEN Row("sent", @.attempts)
                                     ELSE AfterFailure(@)]
    /\ claim' = {} /\ answer' = "none"
    /\ UNCHANGED <<notice, pass, posted, exported, orphans, crashes>>

-----------------------------------------------------------------------------
\* The process dies and is started again: the open transaction is rolled back.
Crash ==
    /\ crashes < MaxCrashes
    /\ crashes' = crashes + 1
    /\ pass' = NoPass
    /\ orphans' = orphans \cup claim
    /\ claim' = {} /\ answer' = "none"
    /\ UNCHANGED <<notice, posted, trace, exported>>

Next ==
    \/ Enqueue \/ DeliverPending \/ SummaryAndDeliver \/ PostOne \/ EndPass
    \/ \E t \in Traces : BookCall(t) \/ Claim(t) \/ Send(t) \/ Mark(t)
    \/ Crash

\* The advisor's loop comes back to both outboxes.
Fairness ==
    /\ SF_vars(DeliverPending) /\ WF_vars(PostOne) /\ WF_vars(EndPass)
    /\ \A t \in Traces : SF_vars(Claim(t)) /\ WF_vars(Send(t)) /\ WF_vars(Mark(t))

Spec == Init /\ [][Next]_vars /\ Fairness

-----------------------------------------------------------------------------
\* A notice reaches the operator at most once for each attempt on record and
\* once more for each crash, which forgets the attempts of its pass
\* (deliver_pending posts before its transaction commits).
RepeatsNeedACrash ==
    \A n \in Notices : posted[n] <= notice[n].attempts + crashes
                                    + (IF n \in DOMAIN pass THEN 1 ELSE 0)

\* A trace is exported at most once for each attempt on record, crash or not
\* (_deliver commits the claim before it sends).
ExportsAreOnRecord == \A t \in Traces : exported[t] <= trace[t].attempts

\* Every notice on record is sent or given up, and so is every trace that no
\* crash has orphaned: an orphan stays "sending" and nothing takes it up again.
OutboxesDrain ==
    /\ \A n \in Notices : notice[n].status = "pending"
                             ~> notice[n].status \in {"sent", "abandoned"}
    /\ \A t \in Traces : trace[t].status = "pending"
                            ~> trace[t].status \in {"sent", "abandoned"} \/ t \in orphans

\* No message goes out more often than what is on record allows for.
SendingsAreCounted == RepeatsNeedACrash /\ ExportsAreOnRecord
===============================================================================
