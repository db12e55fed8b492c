--------------------------- MODULE SaramaxConsumer ---------------------------
(***************************************************************************)
(* The consumer of common/pkg/saramax on one partition: messages are       *)
(* handled in batches, a batch with a message that can never be handled is *)
(* taken apart, and such a message is dropped once it has failed often     *)
(* enough, so that it cannot block the partition for ever.                 *)
(*                                                                         *)
(* The processes of a consumer group share the partition; one owns it, but *)
(* a process that was thrown out may go on working for a while.  An offset *)
(* is acknowledged in two steps: the consumer marks it, the session        *)
(* commits what is marked, if its process still owns the partition.        *)
(* Partition, group and commits (Assign to Release) are those of sarama    *)
(* and Kafka, as far as the consumer relies on them.                       *)
(***************************************************************************)
EXTENDS Integers, FiniteSets

CONSTANTS
  Procs,
  ConsumeNum, RetryAttempts, SkipAttempts, MaxSkipEntries,
  MaxOffset,  \* bound: messages of the partition
  MaxFaults   \* bound: unlucky answers, rebalances, crashes

ASSUME ConstantsAssumption ==
  /\ ConsumeNum \in Nat \ {0} /\ RetryAttempts \in Nat \ {0}
  /\ SkipAttempts \in Int /\ MaxSkipEntries \in Nat \ {0}
  /\ MaxOffset \in Nat /\ MaxFaults \in Nat

VARIABLES
  (* the partition: what its messages are, the committed offset, its owner *)
  kind, committed, owner,
  (* a process: its session ("closed" if no more messages come in it) and *)
  (* the offset marked in it                                              *)
  session, marked,
  (* its consumeClaim: where it is, the buffer lo..hi-1, whether the message *)
  (* at hi has been received and cannot be decoded, calls made for the       *)
  (* batch, the answers of the handler                                       *)
  pc, lo, hi, bad, tries, answer,
  failures,  \* its Skipper
  (* messages handled and dropped, and how often one was refused for good *)
  handled, dropped, refusals,
  faults

partitionVars == <<kind, committed, owner>>
claimVars     == <<pc, lo, hi, bad, tries, answer>>
fateVars      == <<handled, dropped, refusals>>
vars == <<partitionVars, session, marked, claimVars, failures, fateVars, faults>>

Offsets == 1..MaxOffset
NextOffset   == 1..(MaxOffset + 1)
NoOwner == "none"

(* A handler succeeds with a good message; a poisonous one is refused with *)
(* Permanent; a garbled one cannot be decoded.                             *)
Kinds   == {"good", "poison", "garbled"}
Answers == {"ok", "transient", "permanent"}

TypeOK ==
  /\ kind \in [Offsets -> Kinds]
  /\ committed \in NextOffset
  /\ owner \in Procs \cup {NoOwner}
  /\ session \in [Procs -> {"none", "live", "closed", "ended"}]
  /\ marked \in [Procs -> NextOffset]
  /\ pc \in [Procs -> {"idle", "read", "batch", "decide", "one", "settle", "decode", "returned"}]
  /\ lo \in [Procs -> NextOffset] /\ hi \in [Procs -> NextOffset]
  /\ bad \in [Procs -> BOOLEAN]
  /\ tries \in [Procs -> Nat]
  /\ answer \in [Procs -> [Offsets -> Answers \cup {"none"}]]
  /\ failures \in [Procs -> [Offsets -> Nat]]
  /\ handled \in SUBSET Offsets /\ dropped \in SUBSET Offsets
  /\ refusals \in [Offsets -> Nat]
  /\ faults \in Nat

NoAnswers  == [m \in Offsets |-> "none"]
NoFailures == [m \in Offsets |-> 0]

Init ==
  /\ kind \in [Offsets -> Kinds]
  /\ committed = 1 /\ owner = NoOwner
  /\ session = [p \in Procs |-> "none"] /\ marked = [p \in Procs |-> 1]
  /\ pc = [p \in Procs |-> "idle"]
  /\ lo = [p \in Procs |-> 1] /\ hi = [p \in Procs |-> 1]
  /\ bad = [p \in Procs |-> FALSE] /\ tries = [p \in Procs |-> 0]
  /\ answer = [p \in Procs |-> NoAnswers]
  /\ failures = [p \in Procs |-> NoFailures]
  /\ handled = {} /\ dropped = {} /\ refusals = NoFailures
  /\ faults = 0

Fault == faults < MaxFaults /\ faults' = faults + 1

-----------------------------------------------------------------------------
(* The group *)

(* The variables of a session and of consumeClaim start at an offset; with *)
(* the session they are gone.                                              *)
Locals(p, offset) ==
  /\ marked' = [marked EXCEPT ![p] = offset]
  /\ lo' = [lo EXCEPT ![p] = offset] /\ hi' = [hi EXCEPT ![p] = offset]
  /\ bad' = [bad EXCEPT ![p] = FALSE] /\ tries' = [tries EXCEPT ![p] = 0]
  /\ answer' = [answer EXCEPT ![p] = NoAnswers]

(* RunConsumer calls Consume again and is given the partition. *)
Assign(p) ==
  /\ owner = NoOwner /\ session[p] = "none"
  /\ owner' = p
  /\ session' = [session EXCEPT ![p] = "live"]
  /\ pc' = [pc EXCEPT ![p] = "read"]
  /\ Locals(p, committed)
  /\ UNCHANGED <<kind, committed, failures, fateVars, faults>>

(* The channel of the messages is closed while the session goes on.  What *)
(* is in it already can still be received.                                *)
CloseClaim(p) ==
  /\ session[p] = "live" /\ Fault
  /\ session' = [session EXCEPT ![p] = "closed"]
  /\ UNCHANGED <<partitionVars, marked, claimVars, failures, fateVars>>

Alive(p) == session[p] \in {"live", "closed"}

Rebalance(p) ==
  /\ Alive(p) /\ owner = p /\ Fault
  /\ session' = [session EXCEPT ![p] = "ended"]
  /\ UNCHANGED <<partitionVars, marked, claimVars, failures, fateVars>>

(* The process has not answered for too long.  It hears of it later. *)
Evict(p) ==
  /\ owner = p /\ Fault
  /\ owner' = NoOwner
  /\ UNCHANGED <<kind, committed, session, marked, claimVars, failures, fateVars>>

HearsOfEviction(p) ==
  /\ Alive(p) /\ owner # p
  /\ session' = [session EXCEPT ![p] = "ended"]
  /\ UNCHANGED <<partitionVars, marked, claimVars, failures, fateVars, faults>>

AutoCommit(p) ==
  /\ owner = p /\ committed # marked[p]
  /\ committed' = marked[p]
  /\ UNCHANGED <<kind, owner, session, marked, claimVars, failures, fateVars, faults>>

(* The session is over; what it has marked is committed. *)
Release(p) ==
  /\ pc[p] = "returned"
  /\ pc' = [pc EXCEPT ![p] = "idle"]
  /\ session' = [session EXCEPT ![p] = "none"]
  /\ IF owner = p THEN committed' = marked[p] /\ owner' = NoOwner
                  ELSE UNCHANGED <<committed, owner>>
  /\ Locals(p, 1)
  /\ UNCHANGED <<kind, failures, fateVars, faults>>

(* What is marked but not committed and the counts of the Skipper are lost. *)
Crash(p) ==
  /\ session[p] # "none" \/ failures[p] # NoFailures
  /\ Fault
  /\ session' = [session EXCEPT ![p] = "none"]
  /\ pc' = [pc EXCEPT ![p] = "idle"]
  /\ owner' = IF owner = p THEN NoOwner ELSE owner
  /\ failures' = [failures EXCEPT ![p] = NoFailures]
  /\ Locals(p, 1)
  /\ UNCHANGED <<kind, committed, fateVars>>

-----------------------------------------------------------------------------
(* Marks and the Skipper *)

(* Mutation of Mark: the offset of the next message is marked. *)
(* sarama only moves a mark forward. *)
Mark(p, m) == marked' = [marked EXCEPT ![p] = IF m + 1 > @ THEN m + 1 ELSE @]

DefaultSkipAttempts == 5

Threshold == IF SkipAttempts = 0 THEN DefaultSkipAttempts ELSE SkipAttempts

Counted(p) == {m \in Offsets : failures[p][m] # 0}

(* Mutation of Failed: every new failure starts over. *)
Failed_Fresh(p, m) == [NoFailures EXCEPT ![m] = 1]

(* Skipper.Fail: the counts of process p after one more failure of m.  A   *)
(* negative SkipAttempts turns the Skipper off.                            *)
Failed(p, m) ==
  IF SkipAttempts < 0 THEN failures[p]
  ELSE IF Cardinality(Counted(p)) >= MaxSkipEntries /\ failures[p][m] = 0
  THEN [NoFailures EXCEPT ![m] = 1]
  ELSE [failures[p] EXCEPT ![m] = @ + 1]

(* Mutation of Reached: the failure before the threshold is enough. *)
Reached_OneLess(p, m) == SkipAttempts >= 0 /\ Failed(p, m)[m] + 1 >= Threshold

Reached(p, m) == SkipAttempts >= 0 /\ Failed(p, m)[m] >= Threshold

(* How often m was refused, as far as the threshold. *)
Refuse(m) == refusals' = [refusals EXCEPT ![m] = IF @ < Threshold THEN @ + 1 ELSE @]

(* Skipper.Forget *)
Forget(p, M) ==
  failures' = [failures EXCEPT ![p] = [m \in Offsets |-> IF m \in M THEN 0 ELSE @[m]]]

Returns(p) ==
  /\ pc' = [pc EXCEPT ![p] = "returned"]
  /\ session' = [session EXCEPT ![p] = "ended"]
  /\ answer' = [answer EXCEPT ![p] = NoAnswers]

(* Steps of consumeClaim that find the session over return at once. *)
Abandon(p) ==
  /\ pc[p] \in {"read", "batch", "decide", "one", "settle"} /\ session[p] = "ended"
  /\ Returns(p)
  /\ UNCHANGED <<partitionVars, marked, lo, hi, bad, tries, failures, fateVars, faults>>

-----------------------------------------------------------------------------
(* consumeClaim *)

Batch(p) == lo[p]..(hi[p] - 1)

At(p, step) == pc[p] = step /\ Alive(p)

GoTo(p, step) == pc' = [pc EXCEPT ![p] = step]

(* A message comes in.  The batch before a garbled one is consumed first.  *)
Receive(p) ==
  /\ At(p, "read") /\ hi[p] \in Offsets
  /\ \/ /\ kind[hi[p]] = "garbled"
        /\ bad' = [bad EXCEPT ![p] = TRUE]
        /\ GoTo(p, IF lo[p] < hi[p] THEN "batch" ELSE "decode")
        /\ UNCHANGED hi
     \/ /\ kind[hi[p]] # "garbled"
        /\ hi' = [hi EXCEPT ![p] = @ + 1]
        /\ GoTo(p, IF hi'[p] - lo[p] >= ConsumeNum THEN "batch" ELSE "read")
        /\ UNCHANGED bad
  /\ UNCHANGED <<partitionVars, session, marked, lo, tries, answer, failures, fateVars, faults>>

Timeout(p) ==
  /\ At(p, "read") /\ lo[p] < hi[p]
  /\ GoTo(p, "batch")
  /\ UNCHANGED <<partitionVars, session, marked, lo, hi, bad, tries, answer, failures, fateVars, faults>>

(* No more messages: the batch is consumed and consumeClaim returns. *)
Flush(p) ==
  /\ At(p, "read") /\ session[p] = "closed"
  /\ \/ /\ lo[p] < hi[p]
        /\ GoTo(p, "batch") /\ UNCHANGED <<session, answer>>
     \/ lo[p] = hi[p] /\ Returns(p)
  /\ UNCHANGED <<partitionVars, marked, lo, hi, bad, tries, failures, fateVars, faults>>

Natural(m) == IF kind[m] = "poison" THEN "permanent" ELSE "ok"

(* The handler answers for the messages of M: as it is in the nature of    *)
(* the messages, or as a dependency lets it.                               *)
Handle(p, M, answers) ==
  /\ IF \A m \in M : answers[m] = Natural(m) THEN UNCHANGED faults ELSE Fault
  /\ answer' = [answer EXCEPT ![p] = [m \in Offsets |-> IF m \in M THEN answers[m] ELSE @[m]]]
  /\ handled' = handled \cup {m \in M : answers[m] = "ok"}

(* One call of the handler by Retry. *)
CallBatch(p) ==
  /\ At(p, "batch")
  /\ \E answers \in [Batch(p) -> Answers] : Handle(p, Batch(p), answers)
  /\ tries' = [tries EXCEPT ![p] = @ + 1]
  /\ GoTo(p, "decide")
  /\ UNCHANGED <<partitionVars, session, marked, lo, hi, bad, failures, dropped, refusals>>

AnswerOf(p, a) == \E m \in Batch(p) : answer[p][m] = a

Succeeded(p) == \A m \in Batch(p) : answer[p][m] = "ok"

(* After a batch: the garbled message that ended it, or the next message. *)
GoOn(p) == GoTo(p, IF bad[p] THEN "decode" ELSE "read")

NoAnswersLeft(p) == answer' = [answer EXCEPT ![p] = NoAnswers]

(* ConsumeEvents, once Retry has an answer or tries again. *)
Decide(p) ==
  /\ At(p, "decide")
  /\ \/ /\ Succeeded(p)
        /\ Mark(p, hi[p] - 1) /\ Forget(p, Batch(p))
        /\ lo' = [lo EXCEPT ![p] = hi[p]]
        /\ tries' = [tries EXCEPT ![p] = 0]
        /\ GoOn(p) /\ NoAnswersLeft(p)
        /\ UNCHANGED session
     \/ /\ AnswerOf(p, "permanent")
        /\ GoTo(p, "one") /\ NoAnswersLeft(p)
        /\ tries' = [tries EXCEPT ![p] = 0]
        /\ UNCHANGED <<session, marked, lo, failures>>
     \/ /\ AnswerOf(p, "transient") /\ ~AnswerOf(p, "permanent")
        /\ IF tries[p] < RetryAttempts
           THEN GoTo(p, "batch") /\ NoAnswersLeft(p) /\ UNCHANGED session
           ELSE Returns(p)
        /\ UNCHANGED <<marked, lo, tries, failures>>
  /\ UNCHANGED <<partitionVars, hi, bad, fateVars, faults>>

(* consumeOneByOne, first loop: every message is handled once more. *)
Unanswered(p) == {m \in Batch(p) : answer[p][m] = "none"}

ConsumeOne(p) ==
  /\ At(p, "one")
  /\ \E m \in Unanswered(p), a \in Answers :
       /\ \A n \in Unanswered(p) : m <= n
       /\ Handle(p, {m}, [n \in {m} |-> a])
       /\ IF a = "permanent" THEN Refuse(m) ELSE UNCHANGED refusals
  /\ GoTo(p, IF Cardinality(Unanswered(p)) = 1 THEN "settle" ELSE "one")
  /\ UNCHANGED <<partitionVars, session, marked, lo, hi, bad, tries, failures, dropped>>

(* Mutation of Settle: a blocked message does not stop the loop. *)
Settle_NoBreak(p) ==
  /\ At(p, "settle")
  /\ LET m == lo[p]
         a == answer[p][m]
         skip == a = "permanent" /\ Reached(p, m)
     IN /\ IF a = "ok" \/ skip THEN Mark(p, m) ELSE UNCHANGED marked
        /\ IF a = "ok" \/ skip THEN Forget(p, {m})
           ELSE failures' = IF a = "permanent" THEN [failures EXCEPT ![p] = Failed(p, m)] ELSE failures
        /\ dropped' = IF skip THEN dropped \cup {m} ELSE dropped
        /\ lo' = [lo EXCEPT ![p] = m + 1]
        /\ answer' = [answer EXCEPT ![p][m] = "none"]
        /\ IF m + 1 = hi[p] THEN GoOn(p) ELSE UNCHANGED pc
        /\ UNCHANGED session
  /\ UNCHANGED <<partitionVars, hi, bad, tries, handled, refusals, faults>>

(* Second loop: marks go on to the first message that blocks. *)
Settle(p) ==
  /\ At(p, "settle")
  /\ LET m == lo[p]
         a == answer[p][m]
         skip == a = "permanent" /\ Reached(p, m)
     IN \/ /\ a = "ok" \/ skip
           /\ Mark(p, m) /\ Forget(p, {m})
           /\ dropped' = IF skip THEN dropped \cup {m} ELSE dropped
           /\ lo' = [lo EXCEPT ![p] = m + 1]
           /\ answer' = [answer EXCEPT ![p][m] = "none"]
           /\ IF m + 1 = hi[p] THEN GoOn(p) ELSE UNCHANGED pc
           /\ UNCHANGED session
        \/ /\ a # "ok" /\ ~skip
           /\ failures' = IF a = "permanent" THEN [failures EXCEPT ![p] = Failed(p, m)] ELSE failures
           /\ Returns(p)
           /\ UNCHANGED <<marked, dropped, lo>>
  /\ UNCHANGED <<partitionVars, hi, bad, tries, handled, refusals, faults>>

(* dropDecodeFailure: the failure counts even if the session is over.      *)
DropDecodeFailure(p) ==
  /\ pc[p] = "decode"
  /\ LET m == hi[p]
     IN /\ Refuse(m)
        /\ \/ /\ Reached(p, m) /\ Alive(p)
              /\ Mark(p, m) /\ Forget(p, {m})
              /\ dropped' = dropped \cup {m}
              /\ lo' = [lo EXCEPT ![p] = m + 1] /\ hi' = [hi EXCEPT ![p] = m + 1]
              /\ bad' = [bad EXCEPT ![p] = FALSE]
              /\ GoTo(p, "read")
              /\ UNCHANGED <<session, answer>>
           \/ /\ ~Reached(p, m) \/ session[p] = "ended"
              /\ failures' = [failures EXCEPT ![p] = Failed(p, m)]
              /\ Returns(p)
              /\ UNCHANGED <<marked, dropped, lo, hi, bad>>
  /\ UNCHANGED <<partitionVars, tries, handled, faults>>

-----------------------------------------------------------------------------
ConsumeClaim(p) ==
  Receive(p) \/ Timeout(p) \/ Flush(p) \/ CallBatch(p) \/ Decide(p) \/ ConsumeOne(p) \/ Settle(p)
    \/ DropDecodeFailure(p) \/ Abandon(p)

Group(p) ==
  Assign(p) \/ CloseClaim(p) \/ Rebalance(p) \/ Evict(p) \/ HearsOfEviction(p)
    \/ AutoCommit(p) \/ Release(p) \/ Crash(p)

Next == \E p \in Procs : ConsumeClaim(p) \/ Group(p)

Spec == Init /\ [][Next]_vars

-----------------------------------------------------------------------------
(* Properties *)

(* No message is passed over.  Every message before a mark or before the   *)
(* committed offset was handled or dropped: the batch before a garbled     *)
(* message is consumed first, and the marks of consumeOneByOne stop at the *)
(* first message that blocks, although later ones have succeeded.          *)
NoMessagePassedOver ==
  \A m \in Offsets :
    m < committed \/ (\E p \in Procs : session[p] # "none" /\ m < marked[p]) =>
      m \in handled \cup dropped

(* A message is only dropped after it has been refused for good            *)
(* SkipAttempts times, by the same process in different sessions: neither  *)
(* transient failures nor sessions that end count.                         *)
DropsAreEarned == \A m \in dropped : SkipAttempts >= 0 /\ refusals[m] >= Threshold

FairSpec ==
  /\ Spec
  /\ \A p \in Procs :
       /\ WF_vars(ConsumeClaim(p)) /\ WF_vars(Assign(p))
       /\ WF_vars(HearsOfEviction(p)) /\ WF_vars(AutoCommit(p)) /\ WF_vars(Release(p))

(* The partition goes on.  Whatever messages it holds, in the end all are  *)
(* committed: no poisonous or garbled message blocks it for ever.          *)
PartitionDrains == <>[](committed = MaxOffset + 1)
=============================================================================
