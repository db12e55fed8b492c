------------------------ MODULE SaramaxConsumer_proof ------------------------
(***************************************************************************)
(* Proofs about SaramaxConsumer, for any processes, batch size, attempts,  *)
(* threshold, partition and number of faults: the variables keep their     *)
(* types, no message is passed over, and drops are earned.                 *)
(***************************************************************************)
EXTENDS SaramaxConsumer, TLAPS

(* Where consumeClaim is with its buffer. *)
BufferInv(p) ==
  /\ lo[p] <= hi[p]
  /\ pc[p] \in {"batch", "decide", "one", "settle"} => lo[p] < hi[p]
  /\ bad[p] => hi[p] \in Offsets
  /\ pc[p] = "decode" => bad[p] /\ lo[p] = hi[p]
  /\ pc[p] = "read" => ~bad[p]

Resolved == handled \cup dropped

(* What lies behind the buffer and the mark is resolved. *)
BehindInv(p) ==
  /\ \A m \in Offsets : m < lo[p] \/ m < marked[p] => m \in Resolved
  /\ \A m \in Offsets : answer[p][m] = "ok" => m \in handled

(* A message was refused at least as often as a Skipper has counted or is *)
(* about to count.                                                        *)
CountInv(p) ==
  \A m \in Offsets :
    \/ refusals[m] >= Threshold
    \/ /\ failures[p][m] <= refusals[m]
       /\ (pc[p] \in {"one", "settle"} /\ answer[p][m] = "permanent") =>
            failures[p][m] + 1 <= refusals[m]

ProcInv(p) == BufferInv(p) /\ BehindInv(p) /\ CountInv(p)

IInv ==
  /\ TypeOK
  /\ \A m \in Offsets : m < committed => m \in Resolved
  /\ \A p \in Procs : ProcInv(p)
  /\ DropsAreEarned

-----------------------------------------------------------------------------
(* A step of one process *)

OthersStay(p) ==
  \A q \in Procs \ {p} :
    /\ marked'[q] = marked[q] /\ pc'[q] = pc[q]
    /\ lo'[q] = lo[q] /\ hi'[q] = hi[q] /\ bad'[q] = bad[q]
    /\ answer'[q] = answer[q] /\ failures'[q] = failures[q]

(* What is known of messages only grows. *)
FateGrows ==
  /\ handled \subseteq handled' /\ dropped \subseteq dropped'
  /\ \A m \in Offsets : refusals'[m] >= refusals[m]

(* The invariant of a process survives the steps of the others. *)
LEMMA OtherProcInv ==
  ASSUME IInv, TypeOK', NEW p \in Procs, OthersStay(p), FateGrows, NEW q \in Procs \ {p}
  PROVE  ProcInv(q)'
<1>0. ProcInv(q) BY DEF IInv
<1>1. /\ marked'[q] = marked[q] /\ pc'[q] = pc[q]
      /\ lo'[q] = lo[q] /\ hi'[q] = hi[q] /\ bad'[q] = bad[q]
      /\ answer'[q] = answer[q] /\ failures'[q] = failures[q]
  BY DEF OthersStay
<1>2. BufferInv(q)'
  BY <1>0, <1>1 DEF ProcInv, BufferInv
<1>3. BehindInv(q)'
  BY <1>0, <1>1 DEF ProcInv, BehindInv, Resolved, FateGrows
<1>4. CountInv(q)'
  <2> SUFFICES ASSUME NEW m \in Offsets, ~(refusals'[m] >= Threshold)
               PROVE  /\ failures'[q][m] <= refusals'[m]
                      /\ (pc'[q] \in {"one", "settle"} /\ answer'[q][m] = "permanent") =>
                           failures'[q][m] + 1 <= refusals'[m]
    BY DEF CountInv
  <2>1. /\ refusals[m] \in Nat /\ refusals'[m] \in Nat /\ failures[q][m] \in Nat
        /\ Threshold \in Int
    BY ConstantsAssumption DEF IInv, TypeOK, Threshold, DefaultSkipAttempts
  <2>2. refusals'[m] >= refusals[m] BY DEF FateGrows
  <2>3. /\ failures[q][m] <= refusals[m]
        /\ (pc[q] \in {"one", "settle"} /\ answer[q][m] = "permanent") =>
             failures[q][m] + 1 <= refusals[m]
    BY <1>0, <2>1, <2>2 DEF ProcInv, CountInv
  <2>4. QED BY <1>1, <2>1, <2>2, <2>3
<1>5. QED BY <1>2, <1>3, <1>4 DEF ProcInv

LEMMA ProcStep ==
  ASSUME IInv, TypeOK', NEW p \in Procs, OthersStay(p), FateGrows,
         ProcInv(p)', committed' = committed \/ committed' = marked[p], DropsAreEarned'
  PROVE  IInv'
<1>1. ASSUME NEW q \in Procs PROVE ProcInv(q)'
  <2>1. CASE q = p BY <2>1
  <2>2. CASE q # p
    <3>1. q \in Procs \ {p} BY <2>2
    <3>2. QED BY <3>1, OtherProcInv
  <2>3. QED BY <2>1, <2>2
<1>2. ASSUME NEW m \in Offsets, m < committed' PROVE m \in Resolved'
  BY <1>2 DEF IInv, ProcInv, BehindInv, Resolved, FateGrows
<1>3. QED BY <1>1, <1>2 DEF IInv

-----------------------------------------------------------------------------
(* Operators *)

(* A failure raises the count of its message by one, or sets it to one,    *)
(* and no other count.                                                     *)
LEMMA FailedCounts ==
  ASSUME TypeOK, NEW p \in Procs, NEW m \in Offsets
  PROVE  /\ Failed(p, m) \in [Offsets -> Nat]
         /\ \A n \in Offsets \ {m} : Failed(p, m)[n] <= failures[p][n]
         /\ Failed(p, m)[m] <= failures[p][m] + 1
<1>1. failures[p] \in [Offsets -> Nat] BY DEF TypeOK
<1>2. NoFailures \in [Offsets -> Nat] /\ \A n \in Offsets : NoFailures[n] = 0 BY DEF NoFailures
<1>3. \/ Failed(p, m) = failures[p]
      \/ Failed(p, m) = [NoFailures EXCEPT ![m] = 1]
      \/ Failed(p, m) = [failures[p] EXCEPT ![m] = @ + 1]
  BY DEF Failed
<1>4. QED BY <1>1, <1>2, <1>3

LEMMA ThresholdType == Threshold \in Int
BY ConstantsAssumption DEF Threshold, DefaultSkipAttempts

(* One refusal more. *)
LEMMA RefuseCounts ==
  ASSUME TypeOK, NEW m \in Offsets, Refuse(m)
  PROVE  /\ refusals' \in [Offsets -> Nat]
         /\ \A n \in Offsets : refusals'[n] >= refusals[n]
         /\ refusals'[m] >= Threshold \/ refusals'[m] = refusals[m] + 1
<1>1. refusals \in [Offsets -> Nat] BY DEF TypeOK
<1>2. refusals' = [refusals EXCEPT ![m] = IF refusals[m] < Threshold THEN refusals[m] + 1 ELSE refusals[m]]
  BY DEF Refuse
<1>3. QED BY <1>1, <1>2, ThresholdType

-----------------------------------------------------------------------------
LEMMA InitIInv == Init => IInv
<1> SUFFICES ASSUME Init PROVE IInv
  OBVIOUS
<1> USE ConstantsAssumption
<1>1. TypeOK
  BY DEF Init, TypeOK, Offsets, NextOffset, Kinds, Answers, NoOwner, NoAnswers, NoFailures
<1>2. \A m \in Offsets : m \in Int /\ ~(m < 1)
  BY DEF Offsets
<1>3. ASSUME NEW p \in Procs PROVE ProcInv(p)
  <2>1. BufferInv(p) BY DEF Init, BufferInv
  <2>2. BehindInv(p) BY <1>2 DEF Init, BehindInv, NoAnswers
  <2>3. CountInv(p) BY DEF Init, CountInv, NoFailures, NoAnswers
  <2>4. QED BY <2>1, <2>2, <2>3 DEF ProcInv
<1>4. QED BY <1>1, <1>2, <1>3 DEF Init, IInv, DropsAreEarned, Resolved

(* Steps of the group leave messages alone. *)
LEMMA DropsKept ==
  ASSUME IInv, TypeOK', dropped' = dropped, FateGrows
  PROVE  DropsAreEarned'
<1>1. \A m \in Offsets : refusals[m] \in Nat /\ refusals'[m] \in Nat BY DEF IInv, TypeOK
<1>2. dropped \subseteq Offsets BY DEF IInv, TypeOK
<1>3. Threshold' = Threshold BY DEF Threshold, DefaultSkipAttempts
<1>4. QED BY <1>1, <1>2, <1>3, ThresholdType DEF IInv, DropsAreEarned, FateGrows

(* The buffer, the mark and the answers start at an offset up to which     *)
(* everything is resolved.                                                 *)
LEMMA LocalsStep ==
  ASSUME IInv, TypeOK', NEW p \in Procs, NEW o \in NextOffset, Locals(p, o),
         \A m \in Offsets : m < o => m \in Resolved,
         pc' \in {[pc EXCEPT ![p] = "read"], [pc EXCEPT ![p] = "idle"]},
         failures' \in {failures, [failures EXCEPT ![p] = NoFailures]},
         committed' = committed \/ committed' = marked[p], UNCHANGED fateVars
  PROVE  IInv'
<1> USE DEF Locals
<1>1. /\ marked'[p] = o /\ lo'[p] = o /\ hi'[p] = o /\ bad'[p] = FALSE
      /\ answer'[p] = NoAnswers /\ pc'[p] \in {"read", "idle"}
  BY DEF IInv, TypeOK
<1>2. failures'[p] = failures[p] \/ failures'[p] = NoFailures
  BY DEF IInv, TypeOK
<1>3. OthersStay(p)
  BY DEF OthersStay, IInv, TypeOK
<1>4. FateGrows
  BY DEF FateGrows, fateVars, IInv, TypeOK
<1>5. BufferInv(p)'
  BY <1>1 DEF BufferInv, NextOffset
<1>6. BehindInv(p)'
  BY <1>1 DEF BehindInv, Resolved, NoAnswers, fateVars
<1>7. CountInv(p)'
  <2>1. \A m \in Offsets : refusals[m] \in Nat BY DEF IInv, TypeOK
  <2>2. QED BY <1>1, <1>2, <2>1 DEF CountInv, IInv, ProcInv, NoFailures, fateVars, Threshold, DefaultSkipAttempts
<1>8. DropsAreEarned'
  BY <1>4, DropsKept DEF fateVars
<1>9. QED BY <1>3, <1>4, <1>5, <1>6, <1>7, <1>8, ProcStep DEF ProcInv

(* A step that changes nothing the invariant of a process speaks of. *)
LEMMA QuietStep ==
  ASSUME IInv, TypeOK', NEW p \in Procs, UNCHANGED <<marked, claimVars, failures, fateVars>>,
         committed' = committed \/ committed' = marked[p]
  PROVE  IInv'
<1>1. OthersStay(p)
  BY DEF OthersStay, claimVars
<1>2. FateGrows
  BY DEF FateGrows, fateVars, IInv, TypeOK
<1>3. ProcInv(p)'
  BY DEF IInv, ProcInv, BufferInv, BehindInv, CountInv, Resolved, Threshold, DefaultSkipAttempts,
         claimVars, fateVars
<1>4. DropsAreEarned'
  BY <1>2, DropsKept DEF fateVars
<1>5. QED BY <1>1, <1>2, <1>3, <1>4, ProcStep

LEMMA GroupStep ==
  ASSUME IInv, NEW p \in Procs, Group(p)
  PROVE  IInv'
<1> USE ConstantsAssumption DEF NoOwner
<1>0. TypeOK /\ ProcInv(p)
  BY DEF IInv
<1>1. CASE Assign(p)
  <2>1. TypeOK'
    BY <1>0, <1>1 DEF Assign, Locals, TypeOK, NoAnswers, fateVars
  <2>2. \A m \in Offsets : m < committed => m \in Resolved
    BY DEF IInv
  <2>3. committed \in NextOffset BY <1>0 DEF TypeOK
  <2>4. QED BY <1>1, <2>1, <2>2, <2>3, LocalsStep DEF Assign
<1>2. CASE CloseClaim(p)
  <2>1. TypeOK'
    BY <1>0, <1>2 DEF CloseClaim, Fault, TypeOK, partitionVars, claimVars, fateVars
  <2>2. QED BY <1>2, <2>1, QuietStep DEF CloseClaim, partitionVars
<1>3. CASE Rebalance(p)
  <2>1. TypeOK'
    BY <1>0, <1>3 DEF Rebalance, Fault, TypeOK, partitionVars, claimVars, fateVars
  <2>2. QED BY <1>3, <2>1, QuietStep DEF Rebalance, partitionVars
<1>4. CASE Evict(p)
  <2>1. TypeOK'
    BY <1>0, <1>4 DEF Evict, Fault, TypeOK, claimVars, fateVars
  <2>2. QED BY <1>4, <2>1, QuietStep DEF Evict
<1>5. CASE HearsOfEviction(p)
  <2>1. TypeOK'
    BY <1>0, <1>5 DEF HearsOfEviction, TypeOK, partitionVars, claimVars, fateVars
  <2>2. QED BY <1>5, <2>1, QuietStep DEF HearsOfEviction, partitionVars
<1>6. CASE AutoCommit(p)
  <2>1. TypeOK'
    BY <1>0, <1>6 DEF AutoCommit, TypeOK, claimVars, fateVars
  <2>2. QED BY <1>6, <2>1, QuietStep DEF AutoCommit
<1>7. \A m \in Offsets : m < 1 => m \in Resolved
  BY DEF Offsets
<1>8. 1 \in NextOffset
  BY DEF NextOffset
<1>9. CASE Release(p)
  <2>1. TypeOK'
    BY <1>0, <1>8, <1>9 DEF Release, Locals, TypeOK, NoAnswers, fateVars
  <2>2. QED BY <1>7, <1>8, <1>9, <2>1, LocalsStep DEF Release
<1>10. CASE Crash(p)
  <2>1. TypeOK'
    BY <1>0, <1>8, <1>10 DEF Crash, Fault, Locals, TypeOK, NoAnswers, NoFailures, fateVars
  <2>2. QED BY <1>7, <1>8, <1>10, <2>1, LocalsStep DEF Crash
<1>11. QED BY <1>1, <1>2, <1>3, <1>4, <1>5, <1>6, <1>9, <1>10 DEF Group

(* Forgetting lowers counts. *)
LEMMA ForgetCounts ==
  ASSUME TypeOK, NEW p \in Procs, NEW M, Forget(p, M)
  PROVE  /\ failures' \in [Procs -> [Offsets -> Nat]]
         /\ \A q \in Procs \ {p} : failures'[q] = failures[q]
         /\ \A m \in Offsets : failures'[p][m] <= failures[p][m]
<1> DEFINE row == [m \in Offsets |-> IF m \in M THEN 0 ELSE failures[p][m]]
<1>1. failures' = [failures EXCEPT ![p] = row]
  BY DEF Forget
<1>2. row \in [Offsets -> Nat] /\ \A m \in Offsets : row[m] <= failures[p][m]
  BY DEF TypeOK
<1>3. QED BY <1>1, <1>2 DEF TypeOK

LEMMA MarkStep ==
  ASSUME TypeOK, NEW p \in Procs, NEW m \in Offsets, Mark(p, m)
  PROVE  /\ marked' \in [Procs -> NextOffset]
         /\ \A q \in Procs \ {p} : marked'[q] = marked[q]
         /\ \A n \in Offsets : n < marked'[p] => n < marked[p] \/ n <= m
<1>1. /\ marked' = [marked EXCEPT ![p] = IF m + 1 > marked[p] THEN m + 1 ELSE marked[p]]
      /\ m \in Int /\ marked[p] \in NextOffset /\ m + 1 \in NextOffset
  BY ConstantsAssumption DEF TypeOK, Mark, Offsets, NextOffset
<1>2. marked'[p] = m + 1 \/ marked'[p] = marked[p]
  BY <1>1 DEF TypeOK
<1>3. marked' \in [Procs -> NextOffset] /\ \A q \in Procs \ {p} : marked'[q] = marked[q]
  BY <1>1 DEF TypeOK
<1>4. QED BY <1>1, <1>2, <1>3 DEF Offsets

(* A step that counts nothing new. *)
LEMMA LessCounted ==
  ASSUME IInv, TypeOK', NEW p \in Procs, UNCHANGED refusals,
         \A m \in Offsets : failures'[p][m] <= failures[p][m],
         \A m \in Offsets : (pc'[p] \in {"one", "settle"} /\ answer'[p][m] = "permanent") =>
           (pc[p] \in {"one", "settle"} /\ answer[p][m] = "permanent")
  PROVE  CountInv(p)'
<1> SUFFICES ASSUME NEW m \in Offsets, ~(refusals[m] >= Threshold)
             PROVE  /\ failures'[p][m] <= refusals[m]
                    /\ (pc'[p] \in {"one", "settle"} /\ answer'[p][m] = "permanent") =>
                         failures'[p][m] + 1 <= refusals[m]
  BY DEF CountInv, Threshold, DefaultSkipAttempts
<1>1. /\ failures[p][m] <= refusals[m]
      /\ (pc[p] \in {"one", "settle"} /\ answer[p][m] = "permanent") =>
           failures[p][m] + 1 <= refusals[m]
  BY DEF IInv, ProcInv, CountInv
<1>2. refusals[m] \in Nat /\ failures[p][m] \in Nat /\ failures'[p][m] \in Nat
  BY DEF IInv, TypeOK
<1>3. failures'[p][m] <= failures[p][m]
  OBVIOUS
<1>4. QED BY <1>1, <1>2, <1>3

-----------------------------------------------------------------------------
(* Steps of consumeClaim *)

(* A step that neither answers nor counts.  Its buffer may lose what is    *)
(* resolved, its mark may come as far.                                     *)
LEMMA WalkStep ==
  ASSUME IInv, TypeOK', NEW p \in Procs, OthersStay(p), BufferInv(p)',
         UNCHANGED <<committed, fateVars>>,
         \A m \in Offsets : failures'[p][m] <= failures[p][m],
         answer'[p] = answer[p] \/ answer'[p] = NoAnswers,
         pc'[p] \in {"one", "settle"} => pc[p] = pc'[p] \/ answer'[p] = NoAnswers,
         \A m \in Offsets : m < lo'[p] \/ m < marked'[p] => m \in Resolved
  PROVE  IInv'
<1>0. ProcInv(p)
  BY DEF IInv
<1>1. FateGrows
  BY DEF FateGrows, fateVars, IInv, TypeOK
<1>2. BehindInv(p)'
  BY <1>0 DEF ProcInv, BehindInv, Resolved, NoAnswers, fateVars
<1>3. CountInv(p)'
  <2>1. \A m \in Offsets : (pc'[p] \in {"one", "settle"} /\ answer'[p][m] = "permanent") =>
          (pc[p] \in {"one", "settle"} /\ answer[p][m] = "permanent")
    BY DEF NoAnswers
  <2>2. UNCHANGED refusals BY DEF fateVars
  <2>3. QED BY <2>1, <2>2, LessCounted
<1>4. DropsAreEarned'
  BY <1>1, DropsKept DEF fateVars
<1>5. QED BY <1>1, <1>2, <1>3, <1>4, ProcStep DEF ProcInv

LEMMA ReadStep ==
  ASSUME IInv, NEW p \in Procs, Receive(p) \/ Timeout(p) \/ Flush(p) \/ Abandon(p)
  PROVE  IInv'
<1> USE ConstantsAssumption DEF At, GoTo
<1>0. TypeOK /\ ProcInv(p)
  BY DEF IInv
<1>1. \A m \in Offsets : m < lo[p] \/ m < marked[p] => m \in Resolved
  BY <1>0 DEF ProcInv, BehindInv
<1>2. NoAnswers \in [Offsets -> Answers \cup {"none"}]
  BY DEF NoAnswers
<1>3. /\ lo[p] \in Int /\ hi[p] \in Int /\ lo[p] <= hi[p]
      /\ pc[p] = "read" => bad[p] = FALSE
  BY <1>0 DEF TypeOK, ProcInv, BufferInv, NextOffset
<1>f. failures' = failures => \A m \in Offsets : failures'[p][m] <= failures[p][m]
  BY <1>0 DEF TypeOK
<1>4. CASE Receive(p)
  <2>0. UNCHANGED <<partitionVars, session, marked, lo, tries, answer, failures, fateVars, faults>>
        /\ pc[p] = "read"
    BY <1>4 DEF Receive
  <2>1. CASE /\ hi[p] \in Offsets
             /\ bad' = [bad EXCEPT ![p] = TRUE]
             /\ pc' = [pc EXCEPT ![p] = IF lo[p] < hi[p] THEN "batch" ELSE "decode"]
             /\ UNCHANGED hi
    <3>1. TypeOK'
      BY <1>0, <2>0, <2>1 DEF TypeOK, partitionVars, fateVars
    <3>2. /\ bad'[p] = TRUE /\ hi'[p] = hi[p] /\ lo'[p] = lo[p]
          /\ lo[p] < hi[p] => pc'[p] = "batch"
          /\ ~(lo[p] < hi[p]) => pc'[p] = "decode"
      BY <1>0, <2>0, <2>1 DEF TypeOK
    <3>3. BufferInv(p)'
      BY <1>3, <2>1, <3>2 DEF BufferInv
    <3>4. OthersStay(p)
      BY <1>0, <2>0, <2>1 DEF OthersStay, TypeOK
    <3>5. QED BY <1>1, <2>0, <3>1, <3>2, <3>3, <3>4, <1>f, WalkStep DEF partitionVars
  <2>2. CASE /\ hi[p] \in Offsets
             /\ hi' = [hi EXCEPT ![p] = @ + 1]
             /\ pc' = [pc EXCEPT ![p] = IF hi'[p] - lo[p] >= ConsumeNum THEN "batch" ELSE "read"]
             /\ UNCHANGED bad
    <3>1. /\ hi'[p] = hi[p] + 1 /\ hi'[p] \in NextOffset /\ lo'[p] = lo[p]
          /\ bad'[p] = FALSE /\ pc'[p] \in {"batch", "read"}
      <4>1. /\ hi \in [Procs -> NextOffset] /\ pc[p] = "read"
            /\ \E s \in {"batch", "read"} : pc' = [pc EXCEPT ![p] = s]
        BY <1>0, <2>0, <2>2 DEF TypeOK
      <4>2. hi'[p] = hi[p] + 1 /\ hi[p] \in 1 .. MaxOffset
        BY <2>2, <4>1 DEF Offsets
      <4>3. hi'[p] \in NextOffset
        BY <4>2, ConstantsAssumption DEF NextOffset
      <4>4. UNCHANGED <<lo, bad>> /\ bad[p] = FALSE
        BY <1>3, <2>0, <2>2
      <4>5. pc'[p] \in {"batch", "read"}
        BY <1>0, <4>1 DEF TypeOK
      <4>6. QED BY <4>2, <4>3, <4>4, <4>5
    <3>2. TypeOK'
      BY <1>0, <2>0, <2>2, <3>1 DEF TypeOK, partitionVars, fateVars
    <3>3. BufferInv(p)'
      BY <1>3, <3>1 DEF BufferInv
    <3>4. OthersStay(p)
      BY <1>0, <2>0, <2>2 DEF OthersStay, TypeOK
    <3>5. QED BY <1>1, <2>0, <3>1, <3>2, <3>3, <3>4, <1>f, WalkStep DEF partitionVars
  <2>3. QED BY <1>4, <2>1, <2>2 DEF Receive
<1>5. CASE Timeout(p)
  <2>1. TypeOK'
    BY <1>0, <1>5 DEF Timeout, TypeOK, partitionVars, fateVars
  <2>2. /\ pc'[p] = "batch" /\ pc[p] = "read" /\ UNCHANGED <<lo, hi, bad, marked, answer>>
        /\ lo[p] < hi[p]
    BY <1>0, <1>5 DEF Timeout, TypeOK
  <2>3. BufferInv(p)'
    BY <1>3, <2>2 DEF BufferInv
  <2>4. OthersStay(p)
    BY <1>0, <1>5 DEF Timeout, OthersStay, TypeOK
  <2>5. QED BY <1>1, <1>5, <2>1, <2>2, <2>3, <2>4, <1>f, WalkStep DEF Timeout, partitionVars
<1>6. CASE Flush(p) \/ Abandon(p)
  <2>1. TypeOK'
    <3>1. CASE Flush(p)
      <4>1. CASE pc' = [pc EXCEPT ![p] = "batch"] /\ UNCHANGED <<session, answer>>
        BY <1>0, <3>1, <4>1 DEF Flush, TypeOK, partitionVars, fateVars
      <4>2. CASE Returns(p)
        BY <1>0, <1>2, <3>1, <4>2 DEF Flush, Returns, TypeOK, partitionVars, fateVars
      <4>3. QED BY <3>1, <4>1, <4>2 DEF Flush
    <3>2. CASE Abandon(p)
      BY <1>0, <1>2, <3>2 DEF Abandon, Returns, TypeOK, partitionVars, fateVars
    <3>3. QED BY <1>6, <3>1, <3>2
  <2>2. /\ UNCHANGED <<lo, hi, bad, marked>>
        /\ \/ pc'[p] = "batch" /\ pc[p] = "read" /\ lo[p] < hi[p] /\ answer' = answer
           \/ pc'[p] = "returned" /\ answer'[p] = NoAnswers
    BY <1>0, <1>6 DEF Flush, Abandon, Returns, TypeOK
  <2>3. BufferInv(p)'
    <3>1. BufferInv(p) BY <1>0 DEF ProcInv
    <3>2. QED BY <1>3, <2>2, <3>1 DEF BufferInv
  <2>4. OthersStay(p)
    BY <1>0, <1>6 DEF Flush, Abandon, Returns, OthersStay, TypeOK
  <2>5. QED BY <1>1, <1>6, <2>1, <2>2, <2>3, <2>4, <1>f, WalkStep DEF Flush, Abandon, partitionVars
<1>7. QED BY <1>4, <1>5, <1>6

AnswersFor(M) == [M -> Answers]

(* The handler answers for messages of the batch and handles those it     *)
(* answers "ok" for.                                                       *)
LEMMA HandleStep ==
  ASSUME TypeOK, NEW p \in Procs, NEW M \in SUBSET Offsets, NEW answers \in AnswersFor(M),
         Handle(p, M, answers)
  PROVE  /\ answer' \in [Procs -> [Offsets -> Answers \cup {"none"}]]
         /\ handled' \in SUBSET Offsets /\ handled \subseteq handled'
         /\ faults' \in Nat
         /\ \A q \in Procs \ {p} : answer'[q] = answer[q]
         /\ \A m \in Offsets : m \notin M => answer'[p][m] = answer[p][m]
         /\ \A m \in M : answer'[p][m] = answers[m] /\ (answers[m] = "ok" => m \in handled')
<1> DEFINE row == [m \in Offsets |-> IF m \in M THEN answers[m] ELSE answer[p][m]]
<1>1. answer' = [answer EXCEPT ![p] = row]
  BY DEF Handle
<1>2. row \in [Offsets -> Answers \cup {"none"}]
  BY DEF TypeOK, AnswersFor
<1>3. /\ handled' = handled \cup {m \in M : answers[m] = "ok"}
      /\ faults' = faults \/ faults' = faults + 1
  BY DEF Handle, Fault
<1>4. answer'[p] = row /\ \A q \in Procs \ {p} : answer'[q] = answer[q]
  BY <1>1 DEF TypeOK
<1>5. answer' \in [Procs -> [Offsets -> Answers \cup {"none"}]]
  BY <1>1, <1>2 DEF TypeOK
<1>6. QED BY <1>3, <1>4, <1>5 DEF TypeOK, AnswersFor

LEMMA BatchType ==
  ASSUME TypeOK, NEW p \in Procs
  PROVE  Batch(p) \in SUBSET Offsets
<1> SUFFICES ASSUME NEW m \in Batch(p) PROVE m \in Offsets
  OBVIOUS
<1>1. lo[p] \in NextOffset /\ hi[p] \in NextOffset
  BY DEF TypeOK
<1>2. QED BY <1>1, ConstantsAssumption DEF Batch, Offsets, NextOffset

LEMMA CallBatchStep ==
  ASSUME IInv, NEW p \in Procs, CallBatch(p)
  PROVE  IInv'
<1> USE ConstantsAssumption DEF At, GoTo
<1>0. TypeOK /\ ProcInv(p)
  BY DEF IInv
<1>1. PICK answers \in AnswersFor(Batch(p)) : Handle(p, Batch(p), answers)
  BY DEF CallBatch, AnswersFor
<1>2. /\ answer' \in [Procs -> [Offsets -> Answers \cup {"none"}]]
      /\ handled' \in SUBSET Offsets /\ handled \subseteq handled'
      /\ faults' \in Nat
      /\ \A q \in Procs \ {p} : answer'[q] = answer[q]
      /\ \A m \in Offsets : m \notin Batch(p) => answer'[p][m] = answer[p][m]
      /\ \A m \in Batch(p) : answer'[p][m] = answers[m] /\ (answers[m] = "ok" => m \in handled')
  <2>1. Batch(p) \in SUBSET Offsets BY <1>0, BatchType
  <2>2. QED BY <1>0, <1>1, <2>1, HandleStep
<1>3. TypeOK'
  BY <1>0, <1>2 DEF CallBatch, TypeOK, partitionVars
<1>4. /\ pc[p] = "batch" /\ pc'[p] = "decide"
      /\ UNCHANGED <<committed, marked, lo, hi, bad, failures, dropped, refusals>>
  BY <1>0 DEF CallBatch, TypeOK, partitionVars
<1>5. OthersStay(p)
  BY <1>0, <1>2 DEF CallBatch, OthersStay, TypeOK
<1>6. FateGrows
  BY <1>0, <1>2, <1>4 DEF FateGrows, TypeOK
<1>7. BufferInv(p)'
  BY <1>0, <1>4 DEF ProcInv, BufferInv
<1>8. BehindInv(p)'
  BY <1>0, <1>2, <1>4 DEF ProcInv, BehindInv, Resolved
<1>9. CountInv(p)'
  BY <1>0, <1>4 DEF ProcInv, CountInv, Threshold, DefaultSkipAttempts
<1>10. DropsAreEarned'
  BY <1>3, <1>4, <1>6, DropsKept
<1>11. QED BY <1>3, <1>4, <1>5, <1>6, <1>7, <1>8, <1>9, <1>10, ProcStep DEF ProcInv

LEMMA DecideStep ==
  ASSUME IInv, NEW p \in Procs, Decide(p)
  PROVE  IInv'
<1> USE ConstantsAssumption DEF At, GoTo, GoOn, NoAnswersLeft
<1>0. TypeOK /\ ProcInv(p)
  BY DEF IInv
<1>1. /\ pc[p] = "decide" /\ UNCHANGED <<partitionVars, hi, bad, fateVars, faults>>
  BY DEF Decide
<1>2. NoAnswers \in [Offsets -> Answers \cup {"none"}]
  BY DEF NoAnswers
<1>3. /\ lo[p] \in Int /\ hi[p] \in Int /\ lo[p] < hi[p]
      /\ hi[p] - 1 \in Offsets /\ hi[p] \in NextOffset /\ hi[p] <= MaxOffset + 1
      /\ bad[p] => hi[p] \in Offsets
  <2>1. lo[p] \in NextOffset /\ hi[p] \in NextOffset
    BY <1>0 DEF TypeOK
  <2>2. lo[p] < hi[p] /\ (bad[p] => hi[p] \in Offsets)
    BY <1>0, <1>1 DEF ProcInv, BufferInv
  <2>3. QED BY <2>1, <2>2 DEF NextOffset, Offsets
<1>4. \A m \in Offsets : m < lo[p] \/ m < marked[p] => m \in Resolved
  BY <1>0 DEF ProcInv, BehindInv
<1>5. CASE /\ Succeeded(p) /\ Mark(p, hi[p] - 1) /\ Forget(p, Batch(p))
           /\ lo' = [lo EXCEPT ![p] = hi[p]]
           /\ tries' = [tries EXCEPT ![p] = 0]
           /\ GoOn(p) /\ NoAnswersLeft(p)
           /\ UNCHANGED session
  <2>1. /\ marked' \in [Procs -> NextOffset]
        /\ \A q \in Procs \ {p} : marked'[q] = marked[q]
        /\ \A n \in Offsets : n < marked'[p] => n < marked[p] \/ n <= hi[p] - 1
    BY <1>0, <1>3, <1>5, MarkStep
  <2>2. /\ failures' \in [Procs -> [Offsets -> Nat]]
        /\ \A q \in Procs \ {p} : failures'[q] = failures[q]
        /\ \A m \in Offsets : failures'[p][m] <= failures[p][m]
    BY <1>0, <1>5, ForgetCounts
  <2>3. TypeOK'
    BY <1>0, <1>1, <1>2, <1>3, <1>5, <2>1, <2>2 DEF TypeOK, partitionVars, fateVars
  <2>4. /\ lo'[p] = hi[p] /\ hi'[p] = hi[p] /\ bad'[p] = bad[p] /\ answer'[p] = NoAnswers
        /\ bad[p] => pc'[p] = "decode"
        /\ ~bad[p] => pc'[p] = "read"
    BY <1>0, <1>1, <1>5 DEF TypeOK
  <2>5. BufferInv(p)'
    BY <1>3, <2>4 DEF BufferInv
  <2>6. OthersStay(p)
    BY <1>0, <1>1, <1>5, <2>1, <2>2 DEF OthersStay, TypeOK
  <2>7. ASSUME NEW m \in Offsets, m < hi[p] PROVE m \in Resolved
    <3>1. CASE m < lo[p] BY <1>4, <3>1
    <3>2. CASE ~(m < lo[p])
      <4>1. m \in Batch(p) BY <1>3, <2>7, <3>2 DEF Batch, Offsets
      <4>2. answer[p][m] = "ok" BY <1>5, <4>1 DEF Succeeded
      <4>3. QED BY <1>0, <4>2 DEF ProcInv, BehindInv, Resolved
    <3>3. QED BY <3>1, <3>2
  <2>8. \A m \in Offsets : m < lo'[p] \/ m < marked'[p] => m \in Resolved
    <3>1. \A m \in Offsets : m <= hi[p] - 1 => m < hi[p] BY <1>3 DEF Offsets
    <3>2. QED BY <1>4, <2>1, <2>4, <2>7, <3>1
  <2>9. UNCHANGED <<committed, fateVars>>
    BY <1>1 DEF partitionVars
  <2>10. pc'[p] \notin {"one", "settle"}
    BY <2>4
  <2>11. QED BY <2>2, <2>3, <2>4, <2>5, <2>6, <2>8, <2>9, <2>10, WalkStep
<1>6. CASE /\ pc' \in {[pc EXCEPT ![p] = "one"], [pc EXCEPT ![p] = "batch"], [pc EXCEPT ![p] = "returned"]}
           /\ NoAnswersLeft(p)
           /\ tries' = [tries EXCEPT ![p] = 0] \/ tries' = tries
           /\ session' = session \/ session' = [session EXCEPT ![p] = "ended"]
           /\ UNCHANGED <<marked, lo, failures>>
  <2>0. /\ pc' \in [Procs -> {"idle", "read", "batch", "decide", "one", "settle", "decode", "returned"}]
        /\ session' \in [Procs -> {"none", "live", "closed", "ended"}]
        /\ tries' \in [Procs -> Nat]
        /\ answer' \in [Procs -> [Offsets -> Answers \cup {"none"}]]
    <3>1. pc' \in [Procs -> {"idle", "read", "batch", "decide", "one", "settle", "decode", "returned"}]
      BY <1>0, <1>6 DEF TypeOK
    <3>2. session' \in [Procs -> {"none", "live", "closed", "ended"}] /\ tries' \in [Procs -> Nat]
      <4>1. session \in [Procs -> {"none", "live", "closed", "ended"}] /\ tries \in [Procs -> Nat]
        BY <1>0 DEF TypeOK
      <4>2. session' = session \/ session' = [session EXCEPT ![p] = "ended"]
        BY <1>6
      <4>3. tries' = [tries EXCEPT ![p] = 0] \/ tries' = tries
        BY <1>6
      <4>4. QED BY <4>1, <4>2, <4>3
    <3>3. answer' \in [Procs -> [Offsets -> Answers \cup {"none"}]]
      BY <1>0, <1>2, <1>6 DEF TypeOK
    <3>4. QED BY <3>1, <3>2, <3>3
  <2>1. TypeOK'
    BY <1>0, <1>1, <1>6, <2>0 DEF TypeOK, partitionVars, fateVars
  <2>2. /\ pc'[p] \in {"one", "batch", "returned"} /\ answer'[p] = NoAnswers
        /\ UNCHANGED <<lo, hi, bad, marked>>
    BY <1>0, <1>1, <1>6 DEF TypeOK
  <2>3. BufferInv(p)'
    BY <1>3, <2>2 DEF BufferInv
  <2>4. OthersStay(p)
    BY <1>0, <1>1, <1>6 DEF OthersStay, TypeOK
  <2>5. \A m \in Offsets : failures'[p][m] <= failures[p][m]
    BY <1>0, <1>6 DEF TypeOK
  <2>6. QED BY <1>1, <1>4, <2>1, <2>2, <2>3, <2>4, <2>5, WalkStep DEF partitionVars
<1>7. QED BY <1>5, <1>6 DEF Decide, Returns

LEMMA ConsumeOneStep ==
  ASSUME IInv, NEW p \in Procs, ConsumeOne(p)
  PROVE  IInv'
<1> USE ConstantsAssumption DEF At, GoTo
<1>0. TypeOK /\ ProcInv(p)
  BY DEF IInv
<1>1. PICK m \in Unanswered(p), a \in Answers :
        /\ Handle(p, {m}, [n \in {m} |-> a])
        /\ IF a = "permanent" THEN Refuse(m) ELSE UNCHANGED refusals
  BY DEF ConsumeOne
<1>2. m \in Offsets /\ m \in Batch(p)
  BY <1>0, BatchType DEF Unanswered
<1>3. /\ answer' \in [Procs -> [Offsets -> Answers \cup {"none"}]]
      /\ handled' \in SUBSET Offsets /\ handled \subseteq handled'
      /\ faults' \in Nat
      /\ \A q \in Procs \ {p} : answer'[q] = answer[q]
      /\ \A n \in Offsets : n # m => answer'[p][n] = answer[p][n]
      /\ answer'[p][m] = a /\ (a = "ok" => m \in handled')
  <2> DEFINE M == {m}
             said == [n \in M |-> a]
  <2>1. M \in SUBSET Offsets /\ said \in AnswersFor(M) /\ said[m] = a
        /\ m \in M /\ \A n \in Offsets : n # m => n \notin M
    BY <1>2 DEF AnswersFor
  <2>2. Handle(p, M, said)
    BY <1>1
  <2> HIDE DEF said, M
  <2>3. /\ answer' \in [Procs -> [Offsets -> Answers \cup {"none"}]]
        /\ handled' \in SUBSET Offsets /\ handled \subseteq handled'
        /\ faults' \in Nat
        /\ \A q \in Procs \ {p} : answer'[q] = answer[q]
        /\ \A n \in Offsets : n \notin M => answer'[p][n] = answer[p][n]
        /\ \A n \in M : answer'[p][n] = said[n] /\ (said[n] = "ok" => n \in handled')
    BY <1>0, <2>1, <2>2, HandleStep
  <2>4. QED BY <2>1, <2>3
<1>4. /\ refusals' \in [Offsets -> Nat]
      /\ \A n \in Offsets : refusals'[n] >= refusals[n]
      /\ a = "permanent" => (refusals'[m] >= Threshold \/ refusals'[m] = refusals[m] + 1)
  <2>1. CASE a = "permanent"
    <3>1. Refuse(m) BY <1>1, <2>1
    <3>2. QED BY <1>0, <1>2, <3>1, RefuseCounts
  <2>2. CASE a # "permanent"
    BY <1>0, <1>1, <2>2 DEF TypeOK
  <2>3. QED BY <2>1, <2>2
<1>5. pc' \in [Procs -> {"idle", "read", "batch", "decide", "one", "settle", "decode", "returned"}]
      /\ pc[p] = "one" /\ pc'[p] \in {"one", "settle"}
      /\ \A q \in Procs \ {p} : pc'[q] = pc[q]
  BY <1>0 DEF ConsumeOne, TypeOK
<1>6. UNCHANGED <<partitionVars, session, marked, lo, hi, bad, tries, failures, dropped>>
  BY DEF ConsumeOne
<1>7. TypeOK'
  BY <1>0, <1>3, <1>4, <1>5, <1>6 DEF TypeOK, partitionVars
<1>8. OthersStay(p)
  BY <1>3, <1>5, <1>6 DEF OthersStay
<1>9. FateGrows
  BY <1>3, <1>4, <1>6 DEF FateGrows
<1>10. BufferInv(p)'
  BY <1>0, <1>5, <1>6 DEF ProcInv, BufferInv
<1>11. BehindInv(p)'
  BY <1>0, <1>3, <1>6 DEF ProcInv, BehindInv, Resolved
<1>12. CountInv(p)'
  <2> SUFFICES ASSUME NEW n \in Offsets, ~(refusals'[n] >= Threshold)
               PROVE  /\ failures[p][n] <= refusals'[n]
                      /\ answer'[p][n] = "permanent" => failures[p][n] + 1 <= refusals'[n]
    BY <1>6 DEF CountInv, Threshold, DefaultSkipAttempts
  <2>1. /\ refusals[n] \in Nat /\ refusals'[n] \in Nat /\ failures[p][n] \in Nat
        /\ refusals'[n] >= refusals[n]
    BY <1>0, <1>4 DEF TypeOK
  <2>2. /\ failures[p][n] <= refusals[n]
        /\ answer[p][n] = "permanent" => failures[p][n] + 1 <= refusals[n]
    BY <1>0, <1>5, <2>1, ThresholdType DEF ProcInv, CountInv
  <2>3. CASE n = m
    BY <1>3, <1>4, <2>1, <2>2, <2>3
  <2>4. CASE n # m
    BY <1>3, <2>1, <2>2, <2>4
  <2>5. QED BY <2>3, <2>4
<1>13. DropsAreEarned'
  BY <1>6, <1>7, <1>9, DropsKept
<1>14. QED BY <1>6, <1>7, <1>8, <1>9, <1>10, <1>11, <1>12, <1>13, ProcStep DEF ProcInv, partitionVars

(* A drop is earned if the refusals have reached the threshold. *)
LEMMA DropStep ==
  ASSUME IInv, TypeOK', FateGrows, NEW m \in Offsets, dropped' = dropped \cup {m},
         SkipAttempts >= 0, refusals'[m] >= Threshold
  PROVE  DropsAreEarned'
<1>1. \A n \in Offsets : refusals[n] \in Nat /\ refusals'[n] \in Nat BY DEF IInv, TypeOK
<1>2. dropped \subseteq Offsets BY DEF IInv, TypeOK
<1>3. Threshold' = Threshold BY DEF Threshold, DefaultSkipAttempts
<1>4. QED BY <1>1, <1>2, <1>3, ThresholdType DEF IInv, DropsAreEarned, FateGrows

LEMMA SettleStep ==
  ASSUME IInv, NEW p \in Procs, Settle(p)
  PROVE  IInv'
<1> USE ConstantsAssumption DEF At, GoTo, GoOn
<1> DEFINE m == lo[p]
           skip == answer[p][m] = "permanent" /\ Reached(p, m)
<1>0. TypeOK /\ ProcInv(p)
  BY DEF IInv
<1>1. /\ pc[p] = "settle" /\ UNCHANGED <<partitionVars, hi, bad, tries, handled, refusals, faults>>
  BY DEF Settle
<1>2. /\ m \in Int /\ hi[p] \in Int /\ m + 1 <= hi[p] /\ m \in Offsets /\ m + 1 \in NextOffset
      /\ bad[p] => hi[p] \in Offsets
  <2>1. lo[p] \in NextOffset /\ hi[p] \in NextOffset
    BY <1>0 DEF TypeOK
  <2>2. lo[p] < hi[p] /\ (bad[p] => hi[p] \in Offsets)
    BY <1>0, <1>1 DEF ProcInv, BufferInv
  <2>3. QED BY <2>1, <2>2 DEF NextOffset, Offsets
<1>3. \A n \in Offsets : n < lo[p] \/ n < marked[p] => n \in Resolved
  BY <1>0 DEF ProcInv, BehindInv
<1>4. CASE /\ answer[p][m] = "ok" \/ skip
           /\ Mark(p, m) /\ Forget(p, {m})
           /\ dropped' = IF skip THEN dropped \cup {m} ELSE dropped
           /\ lo' = [lo EXCEPT ![p] = m + 1]
           /\ answer' = [answer EXCEPT ![p][m] = "none"]
           /\ IF m + 1 = hi[p] THEN GoOn(p) ELSE UNCHANGED pc
           /\ UNCHANGED session
  <2>1. /\ marked' \in [Procs -> NextOffset]
        /\ \A q \in Procs \ {p} : marked'[q] = marked[q]
        /\ \A n \in Offsets : n < marked'[p] => n < marked[p] \/ n <= m
    BY <1>0, <1>2, <1>4, MarkStep
  <2>2. /\ failures' \in [Procs -> [Offsets -> Nat]]
        /\ \A q \in Procs \ {p} : failures'[q] = failures[q]
        /\ \A n \in Offsets : failures'[p][n] <= failures[p][n]
    BY <1>0, <1>4, ForgetCounts
  <2>3. /\ answer' \in [Procs -> [Offsets -> Answers \cup {"none"}]]
        /\ \A q \in Procs \ {p} : answer'[q] = answer[q]
        /\ \A n \in Offsets : answer'[p][n] = answer[p][n] \/ answer'[p][n] = "none"
    BY <1>0, <1>2, <1>4 DEF TypeOK
  <2>4. /\ pc' \in [Procs -> {"idle", "read", "batch", "decide", "one", "settle", "decode", "returned"}]
        /\ \A q \in Procs \ {p} : pc'[q] = pc[q]
        /\ m + 1 = hi[p] /\ bad[p] => pc'[p] = "decode"
        /\ m + 1 = hi[p] /\ ~bad[p] => pc'[p] = "read"
        /\ m + 1 # hi[p] => pc'[p] = "settle"
    BY <1>0, <1>1, <1>4 DEF TypeOK
  <2>5. dropped' \in SUBSET Offsets /\ dropped \subseteq dropped'
    BY <1>0, <1>2, <1>4 DEF TypeOK
  <2>6. /\ lo' \in [Procs -> NextOffset] /\ lo'[p] = m + 1
        /\ \A q \in Procs \ {p} : lo'[q] = lo[q]
    BY <1>0, <1>2, <1>4 DEF TypeOK
  <2>7. TypeOK'
    BY <1>0, <1>1, <1>4, <2>1, <2>2, <2>3, <2>4, <2>5, <2>6 DEF TypeOK, partitionVars
  <2>8. OthersStay(p)
    BY <1>1, <2>1, <2>2, <2>3, <2>4, <2>6 DEF OthersStay
  <2>9. FateGrows
    BY <1>0, <1>1, <2>5 DEF FateGrows, TypeOK
  <2>10. BufferInv(p)'
    BY <1>1, <1>2, <2>4, <2>6 DEF BufferInv
  <2>11. BehindInv(p)'
    <3>1. m \in Resolved'
      <4>1. CASE skip BY <1>4, <4>1 DEF Resolved
      <4>2. CASE ~skip BY <1>0, <1>1, <1>2, <1>4, <4>2 DEF ProcInv, BehindInv, Resolved
      <4>3. QED BY <4>1, <4>2
    <3>2. \A n \in Offsets : n < m + 1 \/ n <= m => n < m \/ n = m
      BY <1>2 DEF Offsets
    <3>3. \A n \in Offsets : n < lo'[p] \/ n < marked'[p] => n \in Resolved'
      BY <1>1, <1>3, <2>1, <2>5, <2>6, <3>1, <3>2 DEF Resolved
    <3>4. \A n \in Offsets : answer'[p][n] = "ok" => n \in handled'
      BY <1>0, <1>1, <2>3 DEF ProcInv, BehindInv
    <3>5. QED BY <3>3, <3>4 DEF BehindInv
  <2>12. CountInv(p)'
    <3>1. \A n \in Offsets : answer'[p][n] = "permanent" => answer[p][n] = "permanent"
      BY <2>3
    <3>2. QED BY <1>1, <2>2, <2>7, <3>1, LessCounted
  <2>13. DropsAreEarned'
    <3>1. CASE skip
      <4>1. /\ SkipAttempts >= 0 /\ Failed(p, m)[m] >= Threshold
            /\ Failed(p, m)[m] \in Nat /\ Failed(p, m)[m] <= failures[p][m] + 1
        BY <1>0, <1>2, <3>1, FailedCounts DEF Reached
      <4>2. refusals[m] >= Threshold \/ failures[p][m] + 1 <= refusals[m]
        BY <1>0, <1>1, <1>2, <3>1 DEF ProcInv, CountInv
      <4>3. refusals[m] \in Nat /\ failures[p][m] \in Nat
        BY <1>0, <1>2 DEF TypeOK
      <4>4. refusals[m] >= Threshold
        BY <4>1, <4>2, <4>3, ThresholdType
      <4>5. QED BY <1>1, <1>2, <1>4, <2>7, <2>9, <3>1, <4>1, <4>4, DropStep
    <3>2. CASE ~skip
      BY <1>4, <2>7, <2>9, <3>2, DropsKept
    <3>3. QED BY <3>1, <3>2
  <2>14. QED BY <1>1, <2>7, <2>8, <2>9, <2>10, <2>11, <2>12, <2>13, ProcStep DEF ProcInv, partitionVars
<1>5. CASE /\ failures' = IF answer[p][m] = "permanent" THEN [failures EXCEPT ![p] = Failed(p, m)] ELSE failures
           /\ Returns(p)
           /\ UNCHANGED <<marked, dropped, lo>>
  <2>0. NoAnswers \in [Offsets -> Answers \cup {"none"}]
    BY DEF NoAnswers
  <2>1. /\ failures' \in [Procs -> [Offsets -> Nat]]
        /\ \A q \in Procs \ {p} : failures'[q] = failures[q]
        /\ \A n \in Offsets \ {m} : failures'[p][n] <= failures[p][n]
        /\ answer[p][m] = "permanent" => failures'[p][m] <= failures[p][m] + 1
        /\ answer[p][m] # "permanent" => failures'[p][m] = failures[p][m]
    <3>1. CASE answer[p][m] = "permanent"
      BY <1>0, <1>2, <1>5, <3>1, FailedCounts DEF TypeOK
    <3>2. CASE answer[p][m] # "permanent"
      BY <1>0, <1>5, <3>2 DEF TypeOK
    <3>3. QED BY <3>1, <3>2
  <2>2. /\ answer' \in [Procs -> [Offsets -> Answers \cup {"none"}]]
        /\ answer'[p] = NoAnswers /\ \A q \in Procs \ {p} : answer'[q] = answer[q]
    BY <1>0, <1>5, <2>0 DEF Returns, TypeOK
  <2>3. /\ pc' \in [Procs -> {"idle", "read", "batch", "decide", "one", "settle", "decode", "returned"}]
        /\ session' \in [Procs -> {"none", "live", "closed", "ended"}]
        /\ pc'[p] = "returned" /\ \A q \in Procs \ {p} : pc'[q] = pc[q]
    BY <1>0, <1>5 DEF Returns, TypeOK
  <2>4. TypeOK'
    BY <1>0, <1>1, <1>5, <2>1, <2>2, <2>3 DEF TypeOK, partitionVars
  <2>5. OthersStay(p)
    BY <1>1, <1>5, <2>1, <2>2, <2>3 DEF OthersStay
  <2>6. FateGrows
    BY <1>0, <1>1, <1>5 DEF FateGrows, TypeOK
  <2>7. BufferInv(p)'
    BY <1>0, <1>1, <1>5, <2>3 DEF ProcInv, BufferInv
  <2>8. BehindInv(p)'
    BY <1>0, <1>1, <1>5, <2>2 DEF ProcInv, BehindInv, Resolved, NoAnswers
  <2>9. CountInv(p)'
    <3> SUFFICES ASSUME NEW n \in Offsets, ~(refusals[n] >= Threshold)
                 PROVE  failures'[p][n] <= refusals[n]
      BY <1>1, <2>3 DEF CountInv, Threshold, DefaultSkipAttempts
    <3>1. refusals[n] \in Nat /\ failures[p][n] \in Nat /\ failures'[p][n] \in Nat
      BY <1>0, <2>1 DEF TypeOK
    <3>2. /\ failures[p][n] <= refusals[n]
          /\ answer[p][n] = "permanent" => failures[p][n] + 1 <= refusals[n]
      BY <1>0, <1>1 DEF ProcInv, CountInv
    <3>3. CASE n = m BY <2>1, <3>1, <3>2, <3>3
    <3>4. CASE n # m BY <2>1, <3>1, <3>2, <3>4
    <3>5. QED BY <3>3, <3>4
  <2>10. DropsAreEarned'
    BY <1>5, <2>4, <2>6, DropsKept
  <2>11. QED BY <1>1, <2>4, <2>5, <2>6, <2>7, <2>8, <2>9, <2>10, ProcStep DEF ProcInv, partitionVars
<1>6. QED BY <1>4, <1>5 DEF Settle

LEMMA DropDecodeFailureStep ==
  ASSUME IInv, NEW p \in Procs, DropDecodeFailure(p)
  PROVE  IInv'
<1> USE ConstantsAssumption DEF GoTo
<1> DEFINE m == hi[p]
<1>0. TypeOK /\ ProcInv(p)
  BY DEF IInv
<1>1. /\ pc[p] = "decode" /\ Refuse(m)
      /\ UNCHANGED <<partitionVars, tries, handled, faults>>
  BY DEF DropDecodeFailure
<1>2. m \in Offsets /\ lo[p] = m /\ m \in Int /\ m + 1 \in NextOffset
  BY <1>0, <1>1 DEF ProcInv, BufferInv, Offsets, NextOffset
<1>3. /\ refusals' \in [Offsets -> Nat]
      /\ \A n \in Offsets : refusals'[n] >= refusals[n]
      /\ refusals'[m] >= Threshold \/ refusals'[m] = refusals[m] + 1
  BY <1>0, <1>1, <1>2, RefuseCounts
<1>4. /\ Failed(p, m) \in [Offsets -> Nat]
      /\ \A n \in Offsets \ {m} : Failed(p, m)[n] <= failures[p][n]
      /\ Failed(p, m)[m] <= failures[p][m] + 1
  BY <1>0, <1>2, FailedCounts
<1>5. \A n \in Offsets :
        /\ refusals[n] \in Nat /\ refusals'[n] \in Nat /\ failures[p][n] \in Nat
        /\ refusals[n] >= Threshold \/ failures[p][n] <= refusals[n]
  BY <1>0, <1>3 DEF TypeOK, ProcInv, CountInv
<1>6. \A n \in Offsets : n < lo[p] \/ n < marked[p] => n \in Resolved
  BY <1>0 DEF ProcInv, BehindInv
<1>7. CASE /\ Reached(p, m)
           /\ Mark(p, m) /\ Forget(p, {m})
           /\ dropped' = dropped \cup {m}
           /\ lo' = [lo EXCEPT ![p] = m + 1] /\ hi' = [hi EXCEPT ![p] = m + 1]
           /\ bad' = [bad EXCEPT ![p] = FALSE]
           /\ pc' = [pc EXCEPT ![p] = "read"]
           /\ UNCHANGED <<session, answer>>
  <2>1. /\ marked' \in [Procs -> NextOffset]
        /\ \A q \in Procs \ {p} : marked'[q] = marked[q]
        /\ \A n \in Offsets : n < marked'[p] => n < marked[p] \/ n <= m
    BY <1>0, <1>2, <1>7, MarkStep
  <2>2. /\ failures' \in [Procs -> [Offsets -> Nat]]
        /\ \A q \in Procs \ {p} : failures'[q] = failures[q]
        /\ \A n \in Offsets : failures'[p][n] <= failures[p][n]
    BY <1>0, <1>7, ForgetCounts
  <2>3. /\ lo'[p] = m + 1 /\ hi'[p] = m + 1 /\ bad'[p] = FALSE /\ pc'[p] = "read"
    BY <1>0, <1>7 DEF TypeOK
  <2>4. TypeOK'
    BY <1>0, <1>1, <1>2, <1>3, <1>7, <2>1, <2>2 DEF TypeOK, partitionVars
  <2>5. OthersStay(p)
    BY <1>0, <1>7, <2>1, <2>2 DEF OthersStay, TypeOK
  <2>6. FateGrows
    BY <1>0, <1>1, <1>3, <1>7 DEF FateGrows
  <2>7. BufferInv(p)'
    BY <1>2, <2>3 DEF BufferInv
  <2>8. BehindInv(p)'
    <3>1. m \in Resolved' /\ Resolved \subseteq Resolved'
      BY <1>1, <1>7 DEF Resolved
    <3>2. \A n \in Offsets : n < m + 1 \/ n <= m => n < m \/ n = m
      BY <1>2 DEF Offsets
    <3>3. \A n \in Offsets : n < lo'[p] \/ n < marked'[p] => n \in Resolved'
      BY <1>2, <1>6, <2>1, <2>3, <3>1, <3>2
    <3>4. \A n \in Offsets : answer'[p][n] = "ok" => n \in handled'
      BY <1>0, <1>1, <1>7 DEF ProcInv, BehindInv
    <3>5. QED BY <3>3, <3>4 DEF BehindInv
  <2>9. CountInv(p)'
    <3> SUFFICES ASSUME NEW n \in Offsets, ~(refusals'[n] >= Threshold)
                 PROVE  failures'[p][n] <= refusals'[n]
      BY <2>3 DEF CountInv, Threshold, DefaultSkipAttempts
    <3>1. failures'[p][n] \in Nat /\ failures'[p][n] <= failures[p][n] /\ refusals'[n] >= refusals[n]
      BY <1>3, <2>2
    <3>2. QED BY <1>5, <3>1, ThresholdType
  <2>10. DropsAreEarned'
    <3>1. SkipAttempts >= 0 /\ Failed(p, m)[m] >= Threshold /\ Failed(p, m)[m] \in Nat
      BY <1>2, <1>4, <1>7 DEF Reached
    <3>2. /\ refusals[m] \in Nat /\ refusals'[m] \in Nat /\ failures[p][m] \in Nat
          /\ refusals[m] >= Threshold \/ failures[p][m] <= refusals[m]
          /\ refusals'[m] >= refusals[m]
      BY <1>2, <1>3, <1>5
    <3>3. refusals'[m] >= Threshold
      BY <1>3, <1>4, <3>1, <3>2, ThresholdType
    <3>4. QED BY <1>2, <1>7, <2>4, <2>6, <3>1, <3>3, DropStep
  <2>11. QED BY <1>1, <2>4, <2>5, <2>6, <2>7, <2>8, <2>9, <2>10, ProcStep DEF ProcInv, partitionVars
<1>8. CASE /\ failures' = [failures EXCEPT ![p] = Failed(p, m)]
           /\ Returns(p)
           /\ UNCHANGED <<marked, dropped, lo, hi, bad>>
  <2>0. NoAnswers \in [Offsets -> Answers \cup {"none"}]
    BY DEF NoAnswers
  <2>1. /\ failures' \in [Procs -> [Offsets -> Nat]] /\ failures'[p] = Failed(p, m)
        /\ \A q \in Procs \ {p} : failures'[q] = failures[q]
    BY <1>0, <1>4, <1>8 DEF TypeOK
  <2>2. /\ answer' \in [Procs -> [Offsets -> Answers \cup {"none"}]]
        /\ answer'[p] = NoAnswers /\ \A q \in Procs \ {p} : answer'[q] = answer[q]
    BY <1>0, <1>8, <2>0 DEF Returns, TypeOK
  <2>3. /\ pc' \in [Procs -> {"idle", "read", "batch", "decide", "one", "settle", "decode", "returned"}]
        /\ session' \in [Procs -> {"none", "live", "closed", "ended"}]
        /\ pc'[p] = "returned" /\ \A q \in Procs \ {p} : pc'[q] = pc[q]
    BY <1>0, <1>8 DEF Returns, TypeOK
  <2>4. TypeOK'
    BY <1>0, <1>1, <1>3, <1>8, <2>1, <2>2, <2>3 DEF TypeOK, partitionVars
  <2>5. OthersStay(p)
    BY <1>8, <2>1, <2>2, <2>3 DEF OthersStay
  <2>6. FateGrows
    BY <1>0, <1>1, <1>3, <1>8 DEF FateGrows
  <2>7. BufferInv(p)'
    BY <1>0, <1>8, <2>3 DEF ProcInv, BufferInv
  <2>8. BehindInv(p)'
    BY <1>0, <1>1, <1>8, <2>2 DEF ProcInv, BehindInv, Resolved, NoAnswers
  <2>9. CountInv(p)'
    <3> SUFFICES ASSUME NEW n \in Offsets, ~(refusals'[n] >= Threshold)
                 PROVE  failures'[p][n] <= refusals'[n]
      BY <2>3 DEF CountInv, Threshold, DefaultSkipAttempts
    <3>1. /\ failures'[p][n] \in Nat /\ refusals'[n] >= refusals[n]
          /\ failures[p][n] <= refusals[n]
      BY <1>3, <1>5, <2>1, ThresholdType
    <3>2. CASE n = m BY <1>3, <1>4, <1>5, <2>1, <3>1, <3>2
    <3>3. CASE n # m BY <1>4, <1>5, <2>1, <3>1, <3>3
    <3>4. QED BY <3>2, <3>3
  <2>10. DropsAreEarned'
    BY <1>8, <2>4, <2>6, DropsKept
  <2>11. QED BY <1>1, <2>4, <2>5, <2>6, <2>7, <2>8, <2>9, <2>10, ProcStep DEF ProcInv, partitionVars
<1>9. QED BY <1>7, <1>8 DEF DropDecodeFailure

-----------------------------------------------------------------------------
LEMMA Invariance == Spec => []IInv
<1>1. Init => IInv
  BY InitIInv
<1>2. IInv /\ [Next]_vars => IInv'
  <2> SUFFICES ASSUME IInv, [Next]_vars PROVE IInv'
    OBVIOUS
  <2>1. ASSUME NEW p \in Procs, ConsumeClaim(p) PROVE IInv'
    BY <2>1, ReadStep, CallBatchStep, DecideStep, ConsumeOneStep, SettleStep,
       DropDecodeFailureStep DEF ConsumeClaim
  <2>2. ASSUME NEW p \in Procs, Group(p) PROVE IInv'
    BY <2>2, GroupStep
  <2>3. CASE UNCHANGED vars
    BY <2>3 DEF vars, partitionVars, claimVars, fateVars, IInv, TypeOK, ProcInv, BufferInv,
                BehindInv, CountInv, Resolved, DropsAreEarned, Threshold, DefaultSkipAttempts
  <2>4. QED BY <2>1, <2>2, <2>3 DEF Next
<1>3. QED BY <1>1, <1>2, PTL DEF Spec

(* The variables keep their types: in particular no mark, buffer or        *)
(* committed offset ever points beyond the next message.                   *)
THEOREM TypeCorrect == Spec => []TypeOK
<1>1. IInv => TypeOK BY DEF IInv
<1>2. QED BY <1>1, Invariance, PTL

(* No consumer of a group, however sessions end and processes crash,       *)
(* acknowledges a message that was neither handled nor dropped.            *)
THEOREM NothingPassedOver == Spec => []NoMessagePassedOver
<1>1. IInv => NoMessagePassedOver
  BY DEF IInv, ProcInv, BehindInv, Resolved, NoMessagePassedOver
<1>2. QED BY <1>1, Invariance, PTL

(* A message is only dropped after SkipAttempts refusals, although the     *)
(* counts of several processes are lost, cleared and started over.         *)
THEOREM OnlyEarnedDrops == Spec => []DropsAreEarned
<1>1. IInv => DropsAreEarned BY DEF IInv
<1>2. QED BY <1>1, Invariance, PTL
=============================================================================
