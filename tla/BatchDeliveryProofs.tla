-------------------------- MODULE BatchDeliveryProofs --------------------------
(* What a call of ConsumeMetrics does to its batch, for batches of every     *)
(* size, every distance between two looks at the context, and every moment   *)
(* the context may expire at.                                                *)
EXTENDS BatchDelivery, TLAPS

\* The resources of the first n positions that the filter lets pass.
PassesUpTo(n) == {i \in 1 .. n : fates[i] # "excluded"}

\* What the filtered metrics hold at every place of the call, and that the next
\* consumer has seen nothing before the call reaches it, except after the
\* fall-back, when the filtered metrics are empty.
Progress ==
  /\ place \in {"start", "filter", "validate", "error", "fallback"} =>
       handed = <<>> /\ result = "none"
  /\ place \in {"start", "filter"} => kept = PassesUpTo(judged)
  /\ place \in {"validate", "forward"} => Passes \subseteq kept
  /\ place = "fallback" => kept = {} /\ Passes = {}
  /\ place = "forward" =>
       /\ result = "none"
       /\ handed = <<>> \/ (kept = {} /\ Len(handed) = 1)

Settled ==
  /\ PassedResourcesAccepted
  /\ HandedOverOnce
  /\ ErrorMeansNotAccepted

IInv == TypeOK /\ Progress /\ (place = "done" => Settled)

\* Before the next consumer is called, nothing can have gone wrong.
LEMMA UnsettledFine ==
  ASSUME IInv
  PROVE  Settled
<1>1. CASE place = "done"
  BY <1>1 DEF IInv
<1>2. CASE place # "done" /\ place # "forward"
  <2>1. handed = <<>> /\ result = "none"
    BY <1>2 DEF IInv, TypeOK, Progress
  <2> QED
    BY <2>1 DEF Settled, PassedResourcesAccepted, HandedOverOnce, ErrorMeansNotAccepted
<1>3. CASE place = "forward"
  <2>1. result = "none" /\ Len(handed) \in {0, 1} /\ handed \in Seq(Handover)
    BY <1>3 DEF IInv, Progress, TypeOK
  <2> QED
    BY <2>1 DEF Settled, PassedResourcesAccepted, HandedOverOnce, ErrorMeansNotAccepted
<1> QED
  BY <1>1, <1>2, <1>3

LEMMA InitInv == Init => IInv
<1> SUFFICES ASSUME Init PROVE IInv
  OBVIOUS
<1>1. fates \in Seq(Fate) /\ Len(fates) \in Nat
  BY DEF Init, Batches
<1>2. <<>> \in Seq(Handover) /\ {} \in SUBSET Batch
  OBVIOUS
<1>3. original \in BOOLEAN /\ expired \in BOOLEAN
  BY DEF Init
<1>4. TypeOK
  BY <1>1, <1>2, <1>3 DEF Init, TypeOK
<1>5. Progress
  BY DEF Init, Progress, PassesUpTo
<1> QED
  BY <1>4, <1>5 DEF Init, IInv

LEMMA BeginInv ==
  ASSUME IInv, PassEmpty \/ Cancel \/ BeginFilter PROVE IInv'
<1>1. TypeOK'
  BY DEF IInv, TypeOK, PassEmpty, Cancel, BeginFilter, Batch, Handover
<1>2. Progress'
  BY DEF IInv, TypeOK, Progress, PassEmpty, Cancel, BeginFilter, Passes, PassesUpTo, Batch
<1> QED
  BY <1>1, <1>2 DEF IInv, PassEmpty, Cancel, BeginFilter

LEMMA JudgeInv == ASSUME IInv, Judge PROVE IInv'
<1> DEFINE i == judged + 1
<1>1. i \in Batch /\ judged \in Nat /\ judged' = i /\ place' = "filter" /\ place = "filter"
      /\ fates' = fates /\ handed' = handed /\ result' = result
  BY DEF IInv, TypeOK, Judge, Batch
<1>2. kept' = PassesUpTo(i)
  BY <1>1 DEF IInv, Progress, Judge, PassesUpTo
<1>3. TypeOK'
  BY <1>1 DEF IInv, TypeOK, Judge, Batch, Handover
<1>4. Progress'
  BY <1>1, <1>2 DEF IInv, Progress, PassesUpTo
<1> QED
  BY <1>1, <1>3, <1>4 DEF IInv

LEMMA EndInv == ASSUME IInv, Abandon \/ EndFilter \/ Validate PROVE IInv'
<1>1. TypeOK'
  BY DEF IInv, TypeOK, Abandon, EndFilter, Validate, Batch, Handover
<1>2. CASE Abandon
  BY <1>2 DEF IInv, TypeOK, Progress, Abandon, Passes, Batch
<1>3. CASE EndFilter
  BY <1>3 DEF IInv, TypeOK, Progress, EndFilter, Passes, PassesUpTo, Batch
<1>4. CASE Validate
  BY <1>4 DEF IInv, TypeOK, Progress, Validate, Passes, Batch
<1>5. place' # "done"
  BY DEF Abandon, EndFilter, Validate
<1>6. Progress' => IInv'
  BY <1>1, <1>5 DEF IInv
<1>7. Progress'
  BY <1>1, <1>2, <1>3, <1>4 DEF IInv
<1> QED
  BY <1>6, <1>7

\* Calling the next consumer keeps the types.
LEMMA HandOverType ==
  ASSUME TypeOK, NEW R \in SUBSET Batch, NEW M \in SUBSET Batch, NEW a \in BOOLEAN,
         HandOver(R, M, a), fates' = fates
  PROVE  /\ handed' \in Seq(Handover')
         /\ Len(handed') = Len(handed) + 1
         /\ \A k \in DOMAIN handed : handed'[k] = handed[k]
         /\ handed'[Len(handed')] = [resources |-> R, marked |-> M, accepted |-> a]
<1>1. [resources |-> R, marked |-> M, accepted |-> a] \in Handover
  BY DEF Handover
<1>2. Handover' = Handover
  BY DEF Handover, Batch
<1> QED
  BY <1>1, <1>2 DEF TypeOK, HandOver

LEMMA ErrorHandOverInv ==
  ASSUME IInv, NEW a \in BOOLEAN, HandOverAfterError(a) PROVE IInv'
<1>1. handed = <<>> /\ marked \subseteq Batch /\ fates' = fates
  BY DEF IInv, TypeOK, Progress, HandOverAfterError
<1>2. /\ handed' \in Seq(Handover') /\ Len(handed') = 1
      /\ handed'[1] = [resources |-> Batch, marked |-> marked, accepted |-> a]
  BY <1>1, HandOverType DEF IInv, HandOverAfterError
<1>3. TypeOK'
  BY <1>2 DEF IInv, TypeOK, HandOverAfterError, Return, Batch
<1>4. Progress'
  BY DEF Progress, HandOverAfterError, Return
<1>5. Settled'
  BY <1>1, <1>2 DEF Settled, PassedResourcesAccepted, HandedOverOnce,
     ErrorMeansNotAccepted, Passes, Accepted, Batch, HandOverAfterError, Return
<1> QED
  BY <1>3, <1>4, <1>5 DEF IInv

LEMMA FallBackInv ==
  ASSUME IInv, NEW a \in BOOLEAN, FallBack(a) PROVE IInv'
<1>1. /\ handed = <<>> /\ marked \subseteq Batch /\ fates' = fates
      /\ kept' = {} /\ Passes = {} /\ Passes' = {} /\ result = "none"
  BY DEF IInv, TypeOK, Progress, FallBack, Passes, Batch
<1>2. /\ handed' \in Seq(Handover') /\ Len(handed') = 1
      /\ handed'[1] = [resources |-> Batch, marked |-> marked, accepted |-> a]
  BY <1>1, HandOverType DEF IInv, FallBack
<1>3. TypeOK'
  BY <1>2 DEF IInv, TypeOK, FallBack, Return, Batch
<1>4. Progress'
  BY <1>1, <1>2 DEF Progress, FallBack, Return
<1>5. Settled'
  BY <1>1, <1>2 DEF Settled, PassedResourcesAccepted, HandedOverOnce, ErrorMeansNotAccepted
<1> QED
  BY <1>3, <1>4, <1>5 DEF IInv

LEMMA ForwardInv ==
  ASSUME IInv, NEW a \in BOOLEAN, Forward(a) PROVE IInv'
<1> DEFINE n == Len(handed)
<1>1. /\ place = "forward" /\ Passes \subseteq kept /\ Passes' = Passes
      /\ fates' = fates /\ kept \subseteq Batch /\ Attributed \subseteq Batch
      /\ n = 0 \/ (kept = {} /\ n = 1)
      /\ handed \in Seq(Handover)
  BY DEF IInv, TypeOK, Progress, Forward, Passes, Attributed, Batch
<1>2. /\ handed' \in Seq(Handover') /\ Len(handed') = n + 1
      /\ \A k \in DOMAIN handed : handed'[k] = handed[k]
      /\ handed'[n + 1] = [resources |-> kept, marked |-> Attributed, accepted |-> a]
  BY <1>1, HandOverType DEF IInv, Forward
<1>3. TypeOK'
  BY <1>2 DEF IInv, TypeOK, Forward, Return, Batch
<1>4. Progress'
  BY DEF Progress, Forward, Return
<1>5. result' = "ok" => a = TRUE
  BY DEF Forward, Return
<1>6. result' = "error" => a = FALSE
  BY DEF Forward, Return
<1>7. DOMAIN handed' = 1 .. n + 1 /\ n \in Nat /\ DOMAIN handed = 1 .. n
  BY <1>1, <1>2
<1>8. PassedResourcesAccepted'
  BY <1>1, <1>2, <1>5, <1>7 DEF PassedResourcesAccepted, Accepted
<1>9. HandedOverOnce'
  BY <1>1, <1>2, <1>7 DEF HandedOverOnce
<1>10. ErrorMeansNotAccepted'
  BY <1>1, <1>2, <1>6, <1>7 DEF ErrorMeansNotAccepted, Accepted
<1> QED
  BY <1>3, <1>4, <1>8, <1>9, <1>10 DEF IInv, Settled

-----------------------------------------------------------------------------
LEMMA NextInv == IInv /\ [Next]_vars => IInv'
<1> SUFFICES ASSUME IInv, [Next]_vars PROVE IInv'
  OBVIOUS
<1>1. CASE CallAgain
  <2>1. Init'
    BY <1>1 DEF CallAgain, Init
  <2> QED
    BY <2>1, InitInv, PTL
<1>2. CASE Expire
  BY <1>2 DEF Expire, IInv, TypeOK, Progress, Passes, PassesUpTo, Batch, Handover
<1>3. CASE UNCHANGED vars
  BY <1>3 DEF vars, IInv, TypeOK, Progress, Settled, Passes, PassesUpTo, Batch, Handover,
     PassedResourcesAccepted, HandedOverOnce, ErrorMeansNotAccepted, Accepted
<1> QED
  BY <1>1, <1>2, <1>3, BeginInv, JudgeInv, EndInv, ErrorHandOverInv, FallBackInv, ForwardInv
  DEF Next

LEMMA AlwaysInv == Spec => []IInv
  BY InitInv, NextInv, PTL DEF Spec

\* ConsumeMetrics fails open: a call that succeeds has had every resource the
\* filter lets pass accepted downstream.
THEOREM NothingLost == Spec => []PassedResourcesAccepted
  BY AlwaysInv, UnsettledFine, PTL DEF Settled

\* No resource of a batch is handed to the next consumer twice, even when the
\* fall-back and the forwarding both call it.
THEOREM NothingTwice == Spec => []HandedOverOnce
  BY AlwaysInv, UnsettledFine, PTL DEF Settled

\* A call that fails with something to deliver has had nothing accepted, so
\* sending the batch again duplicates nothing.
THEOREM RetryIsSafe == Spec => []ErrorMeansNotAccepted
  BY AlwaysInv, UnsettledFine, PTL DEF Settled

-----------------------------------------------------------------------------
(* Which resources carry the internal stage attribute.  The filter marks the *)
(* originals of what it keeps, and a fall-back hands those over only when    *)
(* nothing was kept, or the context is over.                                 *)
MarksInside ==
  /\ place \in {"start", "error"} => marked = {}
  /\ place = "start" => judged = 0
  /\ place \in {"filter", "validate", "fallback"} => marked = kept \/ expired
  /\ place \in {"start", "filter"} => ~original
  /\ original => marked = {} \/ expired
  /\ StageLeavesOnlyOnExpiry

LEMMA MarksKept ==
  ASSUME IInv, MarksInside, [Next]_vars
  PROVE  MarksInside'
<1> USE DEF MarksInside, StageLeavesOnlyOnExpiry
<1>1. ASSUME PassEmpty \/ Cancel \/ BeginFilter PROVE MarksInside'
  <2>1. place = "start" /\ kept = PassesUpTo(0) /\ marked = {}
    BY <1>1 DEF PassEmpty, Cancel, BeginFilter, IInv, Progress
  <2>2. kept = {}
    BY <2>1 DEF PassesUpTo
  <2>3. CASE PassEmpty
    BY <2>1, <2>2, <2>3 DEF PassEmpty
  <2>4. CASE Cancel
    BY <2>1, <2>4 DEF Cancel
  <2>5. CASE BeginFilter
    BY <2>1, <2>2, <2>5 DEF BeginFilter
  <2> QED
    BY <1>1, <2>3, <2>4, <2>5
<1>2. ASSUME Judge \/ Abandon \/ EndFilter \/ Validate PROVE MarksInside'
  <2>1. CASE Judge
    <3>1. place = "filter" /\ place' = "filter" /\ UNCHANGED <<original, expired, handed>>
      BY <2>1 DEF Judge
    <3>2. marked = kept => marked' = kept'
      BY <2>1 DEF Judge
    <3> QED
      BY <3>1, <3>2
  <2>2. CASE Abandon
    BY <2>2 DEF Abandon
  <2>3. CASE EndFilter
    BY <2>3 DEF EndFilter
  <2>4. CASE Validate
    BY <2>4 DEF Validate
  <2> QED
    BY <1>2, <2>1, <2>2, <2>3, <2>4
<1>3. ASSUME NEW R, NEW M, NEW a, HandOver(R, M, a), UNCHANGED <<marked, expired, original>>,
             ~Debug => M = {} \/ expired, place' \in {"forward", "done"}
      PROVE  MarksInside'
  <2>1. handed \in Seq(Handover)
    BY DEF IInv, TypeOK
  <2>2. \A k \in DOMAIN handed' :
          \/ k \in DOMAIN handed /\ handed'[k] = handed[k]
          \/ handed'[k].marked = M
    BY <1>3, <2>1 DEF HandOver
  <2> QED
    BY <1>3, <2>2
<1>4. ASSUME NEW a \in BOOLEAN, HandOverAfterError(a) PROVE MarksInside'
  BY <1>3, <1>4 DEF HandOverAfterError, Return
<1>5. ASSUME NEW a \in BOOLEAN, FallBack(a) PROVE MarksInside'
  <2>1. marked = {} \/ expired
    BY <1>5 DEF FallBack, IInv, Progress
  <2> QED
    BY <1>3, <1>5, <2>1 DEF FallBack, Return
<1>6. ASSUME NEW a \in BOOLEAN, Forward(a) PROVE MarksInside'
  BY <1>3, <1>6 DEF Forward, Return, Attributed
<1>7. ASSUME Expire \/ CallAgain \/ UNCHANGED vars PROVE MarksInside'
  BY <1>7 DEF Expire, CallAgain, vars
<1> QED
  BY <1>1, <1>2, <1>4, <1>5, <1>6, <1>7 DEF Next

\* The filter stage attribute is removed before export (constants.go:16), except
\* from the batch of a context that expired in the middle of the filter.
THEOREM StageStaysInside == Spec => []StageLeavesOnlyOnExpiry
<1>1. Init => MarksInside
  BY DEF Init, MarksInside, StageLeavesOnlyOnExpiry
<1>2. IInv /\ MarksInside /\ [Next]_vars => MarksInside'
  BY MarksKept
<1>3. MarksInside => StageLeavesOnlyOnExpiry
  BY DEF MarksInside
<1> QED
  BY <1>1, <1>2, <1>3, AlwaysInv, PTL DEF Spec

\* Every variable of the call stays in its type.
THEOREM DeliveryTypes == Spec => []TypeOK
<1>1. IInv => TypeOK
  BY DEF IInv
<1> QED
  BY <1>1, AlwaysInv, PTL

-----------------------------------------------------------------------------
(* Which resources the next consumer is handed.  The filtered metrics hold   *)
(* excluded ones only when they are the whole batch, its context being over. *)
KeptPass ==
  /\ kept \subseteq Passes \/ (expired /\ kept = Batch)
  /\ place = "error" => expired
  /\ ExcludedLeaveTogether

LEMMA PassKept ==
  ASSUME IInv, KeptPass, [Next]_vars
  PROVE  KeptPass'
<1> USE DEF KeptPass, ExcludedLeaveTogether
<1>1. ASSUME UNCHANGED <<fates, handed>>, expired => expired',
             kept' \subseteq Passes \/ (expired' /\ kept' = Batch),
             place' = "error" => expired'
      PROVE  KeptPass'
  BY <1>1 DEF Passes, Batch
<1>2. ASSUME PassEmpty \/ Cancel \/ BeginFilter PROVE KeptPass'
  <2>1. place = "start"
    BY <1>2 DEF PassEmpty, Cancel, BeginFilter
  <2> QED
    BY <1>1, <1>2, <2>1 DEF PassEmpty, Cancel, BeginFilter
<1>3. CASE Judge
  <2>1. judged + 1 \in Batch
    BY <1>3 DEF Judge, IInv, TypeOK, Batch
  <2>2. kept' \subseteq Passes
    <3>1. kept \subseteq Passes
      BY <1>3 DEF Judge, IInv, TypeOK, Progress, PassesUpTo, Passes, Batch
    <3> QED
      BY <1>3, <2>1, <3>1 DEF Judge, Passes
  <2>3. place = "filter" /\ place' = "filter" /\ UNCHANGED <<fates, handed, expired>>
    BY <1>3 DEF Judge
  <2> QED
    BY <1>1, <2>2, <2>3
<1>4. CASE Abandon \/ EndFilter \/ Validate
  BY <1>1, <1>4 DEF Abandon, EndFilter, Validate
<1>5. ASSUME NEW R, NEW M, NEW a, HandOver(R, M, a), UNCHANGED <<fates, kept, expired>>,
             R \subseteq Passes \/ (R = Batch /\ (expired \/ Passes = {})),
             place' # "error"
      PROVE  KeptPass'
  <2>1. handed \in Seq(Handover)
    BY DEF IInv, TypeOK
  <2>2. \A k \in DOMAIN handed' :
          \/ k \in DOMAIN handed /\ handed'[k] = handed[k]
          \/ handed'[k].resources = R
    BY <1>5, <2>1 DEF HandOver
  <2>3. Passes' = Passes /\ Batch' = Batch /\ kept' = kept /\ expired' = expired
    BY <1>5 DEF Passes, Batch
  <2>4. ASSUME NEW k \in DOMAIN handed'
        PROVE  \/ handed'[k].resources \subseteq Passes
               \/ handed'[k].resources = Batch /\ (expired \/ Passes = {})
    BY <1>5, <2>2
  <2>5. ExcludedLeaveTogether'
    BY <2>3, <2>4
  <2> QED
    BY <1>5, <2>3, <2>5
<1>6. ASSUME NEW a \in BOOLEAN, HandOverAfterError(a) PROVE KeptPass'
  BY <1>5, <1>6 DEF HandOverAfterError, Return
<1>7. ASSUME NEW a \in BOOLEAN, FallBack(a) PROVE KeptPass'
  <2>1. Passes = {}
    BY <1>7 DEF FallBack, IInv, Progress
  <2> QED
    BY <1>5, <1>7, <2>1 DEF FallBack, Return
<1>8. ASSUME NEW a \in BOOLEAN, Forward(a) PROVE KeptPass'
  BY <1>5, <1>8 DEF Forward, Return
<1>9. CASE Expire \/ UNCHANGED vars
  BY <1>1, <1>9 DEF Expire, vars
<1>10. CASE CallAgain
  BY <1>10 DEF CallAgain
<1> QED
  BY <1>2, <1>3, <1>4, <1>6, <1>7, <1>8, <1>9, <1>10 DEF Next

\* A resource that fails all checks is dropped (README.md:488), unless the whole
\* batch is handed over, because nothing of it passes or its context is over.
THEOREM ExcludedStay == Spec => []ExcludedLeaveTogether
<1>1. Init => KeptPass
  BY DEF Init, KeptPass, ExcludedLeaveTogether
<1>2. IInv /\ KeptPass /\ [Next]_vars => KeptPass'
  BY PassKept
<1>3. KeptPass => ExcludedLeaveTogether
  BY DEF KeptPass
<1> QED
  BY <1>1, <1>2, <1>3, AlwaysInv, PTL DEF Spec
=============================================================================
