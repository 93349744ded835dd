----------------------------- MODULE BatchDelivery -----------------------------
(***************************************************************************)
(* The way of one batch through ConsumeMetrics: the filter loop of         *)
(* processAllResources with its cancellation checks, the fall-backs to the *)
(* original batch, and the calls of the next consumer                      *)
(* (consume_metrics.go, process_metrics.go).                               *)
(*                                                                         *)
(* Abstractions.  What the filter decides of a resource is its fate, which *)
(* module EntityFilter explains.  The resources of a batch are its         *)
(* positions 1 .. Len(fates).  The 10 s limit and the caller's context are *)
(* one context that expires at any moment.  A batch comes in without the   *)
(* internal stage attribute: every call brings its own resources.          *)
(***************************************************************************)
EXTENDS Naturals, Sequences

CONSTANTS
  MaxResources, \* bound on the resources of a batch
  CheckEvery,   \* resources between two looks at the context (25 in the code)
  Debug         \* debug_show_all_filter_stages

ASSUME DeliveryAssumption ==
  /\ MaxResources \in Nat
  /\ CheckEvery \in Nat \ {0}
  /\ Debug \in BOOLEAN

VARIABLES
  fates,     \* fates[i] = what the filter decides of resource i
  place,     \* where the call is
  judged,    \* number of resources the filter has judged
  kept,      \* resources of the filtered metrics
  original,  \* the filtered metrics are the original ones, not copies
  marked,    \* original resources with the internal filter stage attribute
  expired,   \* the context is over
  handed,    \* the calls of the next consumer, in order
  result     \* what ConsumeMetrics returned

vars == <<fates, place, judged, kept, original, marked, expired, handed, result>>

Fate == {"default", "included", "excluded"}
Batch == 1 .. Len(fates)

Handover == [resources : SUBSET Batch, marked : SUBSET Batch, accepted : BOOLEAN]

TypeOK ==
  /\ fates \in Seq(Fate)
  /\ place \in {"start", "filter", "validate", "error", "fallback", "forward", "done"}
  /\ judged \in 0 .. Len(fates)
  /\ kept \subseteq Batch
  /\ original \in BOOLEAN
  /\ marked \subseteq Batch
  /\ expired \in BOOLEAN
  /\ handed \in Seq(Handover)
  /\ result \in {"none", "ok", "error"}

Batches == UNION {[1 .. n -> Fate] : n \in 0 .. MaxResources}

Init ==
  /\ fates \in Batches
  /\ place = "start"
  /\ judged = 0
  /\ kept = {}
  /\ original = FALSE
  /\ marked = {}
  /\ expired = FALSE
  /\ handed = <<>>
  /\ result = "none"

-----------------------------------------------------------------------------
\* processMetrics: an empty batch is its own result.
PassEmpty ==
  /\ place = "start"
  /\ fates = <<>>
  /\ original' = TRUE
  /\ place' = "validate"
  /\ UNCHANGED <<fates, judged, kept, marked, expired, handed, result>>

\* handleContextCancellation
Cancel ==
  /\ place = "start"
  /\ fates # <<>>
  /\ expired
  /\ place' = "error"
  /\ UNCHANGED <<fates, judged, kept, original, marked, expired, handed, result>>

BeginFilter ==
  /\ place = "start"
  /\ fates # <<>>
  /\ ~expired
  /\ place' = "filter"
  /\ UNCHANGED <<fates, judged, kept, original, marked, expired, handed, result>>

AtCheck == judged > 0 /\ judged % CheckEvery = 0

\* Mutant of Judge: resources are kept under their index in the slice.
JudgeByIndex ==
  /\ place = "filter"
  /\ judged < Len(fates)
  /\ ~(AtCheck /\ expired)
  /\ judged' = judged + 1
  /\ kept' = IF fates[judged + 1] # "excluded" THEN kept \cup {judged} ELSE kept
  /\ marked' = kept'
  /\ UNCHANGED <<fates, place, original, expired, handed, result>>

\* processingSingleResource: the stage is written on the original resource, and
\* a copy of an included one goes to the filtered metrics.
Judge ==
  /\ place = "filter"
  /\ judged < Len(fates)
  /\ ~(AtCheck /\ expired)
  /\ LET i == judged + 1
         passes == fates[i] # "excluded"
     IN  /\ judged' = i
         /\ kept' = IF passes THEN kept \cup {i} ELSE kept
         /\ marked' = IF passes THEN marked \cup {i} ELSE marked
  /\ UNCHANGED <<fates, place, original, expired, handed, result>>

\* Mutant of Abandon: what was filtered so far is the result.
AbandonFiltered ==
  /\ place = "filter"
  /\ judged < Len(fates)
  /\ AtCheck
  /\ expired
  /\ place' = "validate"
  /\ UNCHANGED <<fates, judged, kept, original, marked, expired, handed, result>>

\* The context is over in the middle of a batch: every resource is marked and
\* the original batch takes the place of the filtered one.
Abandon ==
  /\ place = "filter"
  /\ judged < Len(fates)
  /\ AtCheck
  /\ expired
  /\ marked' = Batch
  /\ kept' = Batch
  /\ original' = TRUE
  /\ place' = "validate"
  /\ UNCHANGED <<fates, judged, expired, handed, result>>

EndFilter ==
  /\ place = "filter"
  /\ judged = Len(fates)
  /\ place' = "validate"
  /\ UNCHANGED <<fates, judged, kept, original, marked, expired, handed, result>>

\* Mutant of Validate: falls back as soon as anything was excluded.
ValidateAll ==
  /\ place = "validate"
  /\ place' = IF kept # Batch THEN "fallback" ELSE "forward"
  /\ UNCHANGED <<fates, judged, kept, original, marked, expired, handed, result>>

\* validateProcessingResults
Validate ==
  /\ place = "validate"
  /\ place' = IF kept = {} /\ fates # <<>> THEN "fallback" ELSE "forward"
  /\ UNCHANGED <<fates, judged, kept, original, marked, expired, handed, result>>

-----------------------------------------------------------------------------
(* The next consumer takes what it is handed, or returns an error.         *)
HandOver(resources, attributed, accepted) ==
  handed' = Append(handed, [resources |-> resources, marked |-> attributed,
                            accepted |-> accepted])

Return(accepted) ==
  /\ result' = IF accepted THEN "ok" ELSE "error"
  /\ place' = "done"

\* handleProcessingError
HandOverAfterError(accepted) ==
  /\ place = "error"
  /\ HandOver(Batch, marked, accepted)
  /\ Return(accepted)
  /\ UNCHANGED <<fates, judged, kept, original, marked, expired>>

\* Mutant of FallBack: the original batch becomes the filtered one.
FallBackAndKeep(accepted) ==
  /\ place = "fallback"
  /\ HandOver(Batch, marked, accepted)
  /\ kept' = Batch
  /\ IF accepted THEN place' = "forward" /\ UNCHANGED result ELSE Return(accepted)
  /\ UNCHANGED <<fates, judged, original, marked, expired>>

\* validateProcessingResults falls back to the original batch; when that is
\* accepted, ConsumeMetrics goes on to forward the filtered one as well.
FallBack(accepted) ==
  /\ place = "fallback"
  /\ HandOver(Batch, marked, accepted)
  /\ IF accepted THEN place' = "forward" /\ UNCHANGED result ELSE Return(accepted)
  /\ UNCHANGED <<fates, judged, kept, original, marked, expired>>

\* Mutant of Attributed: the copies keep the attribute.
AttributedAlways == IF original THEN marked ELSE kept

\* handleIncludedResource removes the attribute from the copies.
Attributed ==
  IF original THEN marked ELSE IF Debug THEN kept ELSE {}

Forward(accepted) ==
  /\ place = "forward"
  /\ HandOver(kept, Attributed, accepted)
  /\ Return(accepted)
  /\ UNCHANGED <<fates, judged, kept, original, marked, expired>>

Expire ==
  /\ ~expired
  /\ place # "done"
  /\ expired' = TRUE
  /\ UNCHANGED <<fates, place, judged, kept, original, marked, handed, result>>

\* The next call.
CallAgain ==
  /\ place = "done"
  /\ \E f \in Batches : fates' = f
  /\ place' = "start"
  /\ judged' = 0
  /\ kept' = {}
  /\ original' = FALSE
  /\ marked' = {}
  /\ expired' = FALSE
  /\ handed' = <<>>
  /\ result' = "none"

Next ==
  \/ PassEmpty \/ Cancel \/ BeginFilter \/ Judge \/ Abandon \/ EndFilter \/ Validate
  \/ \E accepted \in BOOLEAN :
       HandOverAfterError(accepted) \/ FallBack(accepted) \/ Forward(accepted)
  \/ Expire
  \/ CallAgain

Spec == Init /\ [][Next]_vars

-----------------------------------------------------------------------------
Passes == {i \in Batch : fates[i] # "excluded"}
Accepted == {k \in DOMAIN handed : handed[k].accepted}

\* ConsumeMetrics fails open: whatever expires or falls back, a call that
\* succeeds has had every resource the filter lets pass accepted downstream.
PassedResourcesAccepted ==
  result = "ok" => \A i \in Passes : \E k \in Accepted : i \in handed[k].resources

\* Two calls of the next consumer for one batch never carry the same resource.
HandedOverOnce ==
  \A j, k \in DOMAIN handed : j # k => handed[j].resources \cap handed[k].resources = {}

\* An error tells the caller that it may send the batch again: nothing of it was
\* accepted, as long as the filter kept anything of it.
ErrorMeansNotAccepted ==
  result = "error" /\ Passes # {} => Accepted = {}

\* README.md:456 and 488: a resource below every limit is dropped.  It is, unless
\* the whole batch is handed over: one of which nothing passes, from which
\* validateProcessingResults falls back, or one whose context is over.
ExcludedLeaveTogether ==
  \A k \in DOMAIN handed :
    \/ handed[k].resources \subseteq Passes
    \/ handed[k].resources = Batch /\ (expired \/ Passes = {})

\* constants.go:16: the filter stage attribute is "removed before export".  It is,
\* from the copies and in every fall-back; only the batch whose context ended in
\* the middle leaves with it (process_metrics.go:150-157).
StageLeavesOnlyOnExpiry ==
  ~Debug => \A k \in DOMAIN handed : handed[k].marked # {} => expired
=============================================================================
