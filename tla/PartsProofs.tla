---------------------------- MODULE PartsProofs -----------------------------
(***************************************************************************)
(* The parts that share no state: the libraries of internal (the TTL map,  *)
(* the retrying consumer and the attribute actions), the license header    *)
(* tool, and the smaller parts of the adaptive telemetry processor.  Data  *)
(* points have a module of their own.                                      *)
(***************************************************************************)
EXTENDS TTLMap, RetryingConsumer, AttributeActions, LicenseFiles, EntityValues, ConfigNormalize,
        ResourceIdentity, FiniteSetTheorems, SequenceTheorems, WellFoundedInduction, TLAPS

-----------------------------------------------------------------------------
(***************************************************************************)
(* The TTL map: how long an entry can stay and has to stay, for every age, *)
(* every interval and every delay of the goroutines.                       *)
(***************************************************************************)

\* No sweep is more than an interval and the wait of a tick behind the tick
\* before it, whether that waits in the channel, is being handled or is to come.
BehindSweep ==
  ~shut => \A k \in Key :
    /\ sweeping # None => entries[k] <= MaxAge + sweeping + SweepInterval + MaxLag
    /\ sweeping = None /\ tick # None => entries[k] <= MaxAge + tick + SweepInterval + MaxLag
    /\ sweeping = None /\ tick = None => entries[k] <= MaxAge + SweepInterval + MaxLag - due

NextTick ==
  ~shut /\ sweeping # None =>
    /\ tick # None => sweeping <= tick + SweepInterval + MaxLag
    /\ tick = None => sweeping + due <= SweepInterval + MaxLag

\* The clock was read at most MaxLag before the lock was taken
StoredAfterRead ==
  \A k \in Key : entries[k] <= stored[k] + MaxLag

EndedIsShut == ended => shut

TTLInv == TTLTypeOK /\ EndedIsShut /\ BehindSweep /\ NextTick /\ StoredAfterRead

-----------------------------------------------------------------------------
LEMMA Bounds == Oldest \in Nat /\ Oldest > MaxAge + SweepInterval + 2 * MaxLag
  BY TTLAssumption DEF Oldest

LEMMA AgedType ==
  ASSUME NEW a \in Age \cup {None}
  PROVE  /\ Aged(a) \in Age \cup {None}
         /\ a # None => Aged(a) \in Age
         /\ Aged(a) <= a + 1 /\ Aged(a) >= a
         /\ a # None /\ a < Oldest => Aged(a) = a + 1
         /\ a = None => Aged(a) = None
  BY Bounds DEF Aged, Age, None

LEMMA TTLInitInv == TTLInit => TTLInv
<1> SUFFICES ASSUME TTLInit PROVE TTLInv
  OBVIOUS
<1> USE TTLAssumption DEF TTLInit
<1>1. ended \in BOOLEAN /\ shut \in BOOLEAN /\ EndedIsShut
  BY Zenon DEF EndedIsShut
<1>2. /\ entries \in [Key -> Age \cup {None}]
      /\ stored \in [Key -> Age]
  BY Bounds DEF Age
<1>3. puts \in [Writer -> {NoPut} \cup [key : Key, age : 0 .. MaxLag]]
  OBVIOUS
<1>4. due \in 1 .. SweepInterval /\ tick = None /\ sweeping = None
  OBVIOUS
<1>5. BehindSweep /\ NextTick /\ StoredAfterRead
  BY DEF BehindSweep, NextTick, StoredAfterRead, None
<1>6. TTLTypeOK
  BY <1>1, <1>2, <1>3, <1>4 DEF TTLTypeOK
<1> QED
  BY <1>1, <1>5, <1>6 DEF TTLInv

-----------------------------------------------------------------------------
LEMMA SecondTypes == ASSUME TTLInv, Second PROVE TTLTypeOK'
<1> USE TTLAssumption
<1>1. /\ entries \in [Key -> Age \cup {None}] /\ stored \in [Key -> Age]
      /\ puts \in [Writer -> {NoPut} \cup [key : Key, age : 0 .. MaxLag]]
      /\ due \in 1 .. SweepInterval /\ sweeping \in 0 .. MaxLag \cup {None}
      /\ tick \in 0 .. MaxLag \cup {None} \/ ended
  BY DEF TTLInv, TTLTypeOK
<1>2. entries' \in [Key -> Age \cup {None}]
  <2>1. entries' = [k \in Key |-> Aged(entries[k])]
    BY DEF Second
  <2> QED
    BY <1>1, <2>1, AgedType
<1>3. stored' \in [Key -> Age]
  <2>1. stored' = [k \in Key |-> Aged(stored[k])]
    BY DEF Second
  <2>2. ASSUME NEW k \in Key PROVE Aged(stored[k]) \in Age
    <3>1. stored[k] \in Age /\ stored[k] # None
      BY <1>1 DEF Age, None
    <3> QED
      BY <3>1, AgedType
  <2> QED
    BY <2>1, <2>2
<1>4. puts' \in [Writer -> {NoPut} \cup [key : Key, age : 0 .. MaxLag]]
  <2>1. ASSUME NEW w \in Writer, puts[w] # NoPut
        PROVE  [puts[w] EXCEPT !.age = @ + 1] \in [key : Key, age : 0 .. MaxLag]
    BY <1>1, <2>1 DEF Second, Prompt
  <2>2. puts' = [w \in Writer |-> IF puts[w] = NoPut THEN NoPut ELSE [puts[w] EXCEPT !.age = @ + 1]]
    BY DEF Second
  <2> QED
    BY <2>1, <2>2
<1>5. due' \in 1 .. SweepInterval
  BY <1>1 DEF Second
<1>6. sweeping' \in 0 .. MaxLag \cup {None}
  BY <1>1 DEF Second, Prompt, Aged, Oldest, None
<1>7. tick' \in 0 .. MaxLag \cup {None} \/ ended'
  BY <1>1 DEF Second, Prompt, Aged, Oldest, None
<1>8. UNCHANGED <<ended, shut>>
  BY DEF Second
<1> QED
  BY <1>2, <1>3, <1>4, <1>5, <1>6, <1>7, <1>8 DEF TTLInv, TTLTypeOK

\* A second passes: entries and ticks grow older together.
LEMMA SecondAges == ASSUME TTLInv, Second PROVE BehindSweep' /\ NextTick' /\ StoredAfterRead'
<1> USE TTLAssumption
<1>1. /\ entries \in [Key -> Age \cup {None}] /\ stored \in [Key -> Age]
      /\ due \in 1 .. SweepInterval /\ sweeping \in 0 .. MaxLag \cup {None}
  BY DEF TTLInv, TTLTypeOK
<1>2. ASSUME NEW k \in Key
      PROVE  /\ entries[k] \in Int /\ stored[k] \in Nat
             /\ entries'[k] \in Int /\ stored'[k] \in Nat
             /\ entries'[k] <= entries[k] + 1
             /\ entries'[k] <= Oldest
             /\ stored'[k] = stored[k] + 1 \/ stored'[k] = Oldest
             /\ entries[k] = None => entries'[k] = None
  BY <1>1, Bounds DEF Second, Aged, Age, None
<1>3. StoredAfterRead'
  <2>1. ASSUME NEW k \in Key PROVE entries'[k] <= stored'[k] + MaxLag
    BY <1>2, <2>1, Bounds DEF TTLInv, StoredAfterRead
  <2> QED
    BY <2>1 DEF StoredAfterRead
<1>4. CASE shut
  BY <1>3, <1>4 DEF Second, BehindSweep, NextTick
<1>5. CASE ~shut
  <2>1. tick \in 0 .. MaxLag \cup {None} /\ ~ended
    BY <1>5 DEF TTLInv, EndedIsShut, TTLTypeOK
  <2>2. sweeping' = (IF sweeping = None THEN None ELSE sweeping + 1)
    BY <1>1 DEF Second, Prompt, Aged, Oldest, None
  <2>3. Aged(tick) = (IF tick = None THEN None ELSE tick + 1)
    BY <2>1, Bounds DEF Aged, None
  <2>4. \/ due = 1 /\ due' = SweepInterval /\ tick' = (IF tick = None THEN 0 ELSE tick + 1)
        \/ due # 1 /\ due' = due - 1 /\ tick' = (IF tick = None THEN None ELSE tick + 1)
    BY <2>3 DEF Second
  <2>5. NextTick'
    BY <1>1, <1>5, <2>1, <2>2, <2>4 DEF TTLInv, NextTick, None
  <2>6. ASSUME NEW k \in Key
        PROVE  /\ sweeping' # None => entries'[k] <= MaxAge + sweeping' + SweepInterval + MaxLag
               /\ sweeping' = None /\ tick' # None =>
                    entries'[k] <= MaxAge + tick' + SweepInterval + MaxLag
               /\ sweeping' = None /\ tick' = None =>
                    entries'[k] <= MaxAge + SweepInterval + MaxLag - due'
    BY <1>1, <1>2, <1>5, <2>1, <2>2, <2>4, <2>6 DEF TTLInv, BehindSweep, None
  <2> QED
    BY <1>3, <2>5, <2>6 DEF BehindSweep
<1> QED
  BY <1>4, <1>5

LEMMA PutInv == ASSUME TTLInv, NEW w \in Writer, Put(w) PROVE TTLInv'
<1> USE TTLAssumption
<1> DEFINE p == puts[w]
<1>1. /\ p \in [key : Key, age : 0 .. MaxLag]
      /\ entries \in [Key -> Age \cup {None}] /\ stored \in [Key -> Age]
      /\ puts \in [Writer -> {NoPut} \cup [key : Key, age : 0 .. MaxLag]]
      /\ due \in 1 .. SweepInterval /\ sweeping \in 0 .. MaxLag \cup {None}
      /\ tick \in 0 .. MaxLag \cup {None} \/ ended
  BY DEF TTLInv, TTLTypeOK, Put
<1>2. /\ p.age \in Age /\ p.age \in 0 .. MaxLag /\ p.key \in Key /\ 0 \in Age
      /\ entries' = [entries EXCEPT ![p.key] = p.age]
      /\ stored' = [stored EXCEPT ![p.key] = 0]
      /\ puts' = [puts EXCEPT ![w] = NoPut]
      /\ UNCHANGED <<due, tick, sweeping, ended, shut>>
  BY <1>1, Bounds DEF Put, Age
<1>3. TTLTypeOK'
  BY <1>1, <1>2 DEF TTLInv, TTLTypeOK
<1>4. ASSUME NEW k \in Key
      PROVE  \/ entries'[k] = p.age /\ stored'[k] = 0
             \/ entries'[k] = entries[k] /\ stored'[k] = stored[k]
  BY <1>1, <1>2
<1>5. StoredAfterRead' /\ NextTick' /\ EndedIsShut'
  BY <1>2, <1>4 DEF TTLInv, StoredAfterRead, NextTick, EndedIsShut
<1>6. BehindSweep'
  <2> SUFFICES ASSUME ~shut, NEW k \in Key
      PROVE  /\ sweeping # None => entries'[k] <= MaxAge + sweeping + SweepInterval + MaxLag
             /\ sweeping = None /\ tick # None =>
                  entries'[k] <= MaxAge + tick + SweepInterval + MaxLag
             /\ sweeping = None /\ tick = None =>
                  entries'[k] <= MaxAge + SweepInterval + MaxLag - due
    BY <1>2 DEF BehindSweep
  <2>1. tick \in 0 .. MaxLag \cup {None}
    BY DEF TTLInv, TTLTypeOK, EndedIsShut
  <2> QED
    BY <1>1, <1>2, <1>4, <2>1 DEF TTLInv, BehindSweep, None
<1> QED
  BY <1>3, <1>5, <1>6 DEF TTLInv

LEMMA SweepInv == ASSUME TTLInv, Sweep PROVE TTLInv'
<1> USE TTLAssumption
<1>1. /\ entries \in [Key -> Age \cup {None}] /\ stored \in [Key -> Age]
      /\ due \in 1 .. SweepInterval /\ sweeping \in 0 .. MaxLag
      /\ tick \in 0 .. MaxLag \cup {None} \/ ended
  BY DEF TTLInv, TTLTypeOK, Sweep
<1>2. /\ entries' = [k \in Key |-> IF entries[k] - sweeping > MaxAge THEN None ELSE entries[k]]
      /\ sweeping' = None
      /\ UNCHANGED <<puts, due, tick, ended, shut, stored>>
  BY DEF Sweep
<1>3. ASSUME NEW k \in Key
      PROVE  /\ entries'[k] \in Age \cup {None}
             /\ entries'[k] <= entries[k] \/ entries'[k] = None
             /\ entries'[k] <= MaxAge + sweeping
             /\ stored[k] \in Nat
  BY <1>1, <1>2 DEF Age, None
<1>4. TTLTypeOK'
  BY <1>1, <1>2, <1>3 DEF TTLInv, TTLTypeOK
<1>5. StoredAfterRead'
  BY <1>2, <1>3 DEF TTLInv, StoredAfterRead, None
<1>6. NextTick' /\ EndedIsShut'
  BY <1>2 DEF TTLInv, NextTick, EndedIsShut
<1>7. BehindSweep'
  <2> SUFFICES ASSUME ~shut, NEW k \in Key
      PROVE  /\ tick # None => entries'[k] <= MaxAge + tick + SweepInterval + MaxLag
             /\ tick = None => entries'[k] <= MaxAge + SweepInterval + MaxLag - due
    BY <1>2 DEF BehindSweep
  <2>1. tick \in 0 .. MaxLag \cup {None} /\ sweeping # None
    BY <1>1 DEF TTLInv, TTLTypeOK, EndedIsShut, None
  <2> QED
    BY <1>1, <1>3, <2>1 DEF TTLInv, NextTick, Age, None
<1> QED
  BY <1>4, <1>5, <1>6, <1>7 DEF TTLInv

LEMMA ReceiveInv == ASSUME TTLInv, ReceiveTick PROVE TTLInv'
<1> USE TTLAssumption
<1>1. /\ due \in 1 .. SweepInterval /\ tick \in 0 .. MaxLag /\ sweeping = None
      /\ sweeping' = tick /\ tick' = None
      /\ UNCHANGED <<entries, puts, due, ended, shut, stored>>
  BY DEF TTLInv, TTLTypeOK, ReceiveTick
<1>2. TTLTypeOK'
  BY <1>1 DEF TTLInv, TTLTypeOK
<1> QED
  BY <1>1, <1>2 DEF TTLInv, EndedIsShut, BehindSweep, NextTick, StoredAfterRead, None

LEMMA OtherInv ==
  ASSUME TTLInv, \/ Shutdown \/ End \/ UNCHANGED ttlVars
               \/ \E w \in Writer, k \in Key : ReadClock(w, k)
  PROVE  TTLInv'
<1>1. UNCHANGED <<entries, due, tick, sweeping, stored>> /\ (shut => shut')
  BY DEF Shutdown, End, ReadClock, ttlVars
<1>2. EndedIsShut' /\ ended' \in BOOLEAN /\ shut' \in BOOLEAN /\ (ended => ended')
  <2>1. EndedIsShut /\ ended \in BOOLEAN /\ shut \in BOOLEAN
    BY DEF TTLInv, TTLTypeOK
  <2>2. CASE Shutdown
    BY <2>1, <2>2, Zenon DEF Shutdown, EndedIsShut
  <2>3. CASE End
    BY <2>1, <2>3, Zenon DEF End, EndedIsShut
  <2>4. UNCHANGED <<ended, shut>> \/ Shutdown \/ End
    BY DEF ReadClock, ttlVars
  <2>5. CASE UNCHANGED <<ended, shut>>
    <3>1. ended' = ended /\ shut' = shut
      BY <2>5
    <3> QED
      BY <2>1, <3>1, Zenon DEF EndedIsShut
  <2> QED
    BY <2>2, <2>3, <2>4, <2>5
<1>3. puts' \in [Writer -> {NoPut} \cup [key : Key, age : 0 .. MaxLag]]
  BY TTLAssumption DEF TTLInv, TTLTypeOK, Shutdown, End, ReadClock, ttlVars
<1>4. TTLTypeOK'
  BY <1>1, <1>2, <1>3 DEF TTLInv, TTLTypeOK
<1> QED
  BY <1>1, <1>2, <1>4 DEF TTLInv, BehindSweep, NextTick, StoredAfterRead

LEMMA TTLNextInv == TTLInv /\ [TTLNext]_ttlVars => TTLInv'
<1> SUFFICES ASSUME TTLInv, [TTLNext]_ttlVars PROVE TTLInv'
  OBVIOUS
<1>1. CASE Second
  <2>1. EndedIsShut'
    BY <1>1 DEF Second, TTLInv, EndedIsShut
  <2> QED
    BY <1>1, <2>1, SecondTypes, SecondAges DEF TTLInv
<1> QED
  BY <1>1, PutInv, SweepInv, ReceiveInv, OtherInv DEF TTLNext

LEMMA TTLAlwaysInv == TTLSpec => []TTLInv
  BY TTLInitInv, TTLNextInv, PTL DEF TTLSpec

\* Get may return what has expired (ttl_map.go:97-105), but nothing that is older
\* than the maximum age by more than an interval and two delays.
THEOREM StaleIsBounded == TTLSpec => []StaleBounded
<1>1. TTLInv => StaleBounded
  <2> SUFFICES ASSUME TTLInv, ~shut, NEW k \in Key
      PROVE  entries[k] <= MaxAge + SweepInterval + 2 * MaxLag
    BY DEF StaleBounded
  <2>1. /\ tick \in 0 .. MaxLag \cup {None} /\ sweeping \in 0 .. MaxLag \cup {None}
        /\ due \in 1 .. SweepInterval /\ entries[k] \in Age \cup {None}
    BY DEF TTLInv, TTLTypeOK, EndedIsShut
  <2> QED
    BY <2>1, TTLAssumption DEF TTLInv, BehindSweep, Age, None
<1> QED
  BY <1>1, TTLAlwaysInv, PTL

\* What a Put has stored stays for the maximum age, less the time between the
\* clock and the lock (ttl_map.go:57-59).
THEOREM StoredStays == TTLSpec => FreshStays
<1> DEFINE Fresh == \A k \in Key : entries[k] # None /\ entries'[k] = None =>
                      stored[k] > MaxAge - MaxLag
<1>1. ASSUME TTLInv, [TTLNext]_ttlVars PROVE Fresh
  <2> SUFFICES ASSUME NEW k \in Key, entries[k] # None, entries'[k] = None
      PROVE  stored[k] > MaxAge - MaxLag
    OBVIOUS
  <2>1. /\ entries[k] \in Age /\ stored[k] \in Nat /\ entries[k] <= stored[k] + MaxLag
        /\ entries \in [Key -> Age \cup {None}]
    BY <1>1 DEF TTLInv, TTLTypeOK, StoredAfterRead, Age
  <2>2. CASE Sweep
    <3>1. sweeping \in 0 .. MaxLag
      BY <1>1, <2>2 DEF TTLInv, TTLTypeOK, Sweep
    <3>2. entries[k] - sweeping > MaxAge
      BY <2>2 DEF Sweep
    <3> QED
      BY <2>1, <3>1, <3>2, TTLAssumption DEF Age
  <2>3. CASE Second
    BY <2>1, <2>3, Bounds DEF Second, Aged, Age, None
  <2>4. ASSUME NEW w \in Writer, Put(w) PROVE FALSE
    <3>1. puts[w] \in [key : Key, age : 0 .. MaxLag]
      BY <1>1, <2>4 DEF TTLInv, TTLTypeOK, Put
    <3>2. entries'[k] = entries[k] \/ entries'[k] = puts[w].age
      BY <2>1, <2>4 DEF Put
    <3> QED
      BY <3>1, <3>2, TTLAssumption DEF None
  <2>5. ~UNCHANGED entries
    OBVIOUS
  <2> QED
    BY <1>1, <2>2, <2>3, <2>4, <2>5 DEF TTLNext, ReceiveTick, Shutdown, End, ReadClock, ttlVars
<1>2. TTLInv /\ [TTLNext]_ttlVars => [Fresh]_ttlVars
  BY <1>1
<1> QED
  BY <1>2, TTLAlwaysInv, PTL DEF TTLSpec, FreshStays

-----------------------------------------------------------------------------
(***************************************************************************)
(* The retrying consumer: TakenOnceOrTold for every set of records and     *)
(* every limit of the retries and of the time.  The invariant says what    *)
(* the loop relies on: while the call is under way, logs are exactly the   *)
(* records that were not taken, and once an attempt failed, the error      *)
(* names them all.                                                         *)
(***************************************************************************)

LogsAreLeft == attempt # "returned" => \A r \in Record : accepted[r] = 0 <=> r \in logs

FailureNamesLogs == attempt \in {"failed", "waiting"} => logs \subseteq told /\ err # "nil"

RetryInv == RetryTypeOK /\ LogsAreLeft /\ FailureNamesLogs /\ TakenOnceOrTold

-----------------------------------------------------------------------------
\* The time never leaves the range it is counted in
LEMMA LaterInClock ==
  ASSUME elapsed \in Clock, NEW d PROVE Later(d) \in Clock
BY DEF Later

LEMMA CallInClock ==
  ASSUME elapsed \in Clock, CallTakes PROVE elapsed' \in Clock
BY LaterInClock DEF CallTakes

\* What was taken before and after a call that takes S
LEMMA TakeCounts ==
  ASSUME RetryTypeOK, LogsAreLeft, TakenOnceOrTold, attempt = "calling",
         NEW S \in SUBSET logs, Take(S)
  PROVE  /\ accepted' \in [Record -> Nat]
         /\ \A r \in Record : accepted'[r] <= 1
         /\ \A r \in Record : accepted'[r] = 0 <=> r \in logs \ S
<1>1. \A r \in Record : accepted[r] \in Nat /\ accepted[r] <= 1 /\ (accepted[r] = 0 <=> r \in logs)
  BY DEF RetryTypeOK, LogsAreLeft, TakenOnceOrTold
<1>2. \A r \in Record : accepted'[r] = IF r \in S THEN accepted[r] + 1 ELSE accepted[r]
  BY DEF Take
<1>3. accepted' \in [Record -> Nat]
  BY <1>1 DEF Take
<1> QED
  BY <1>1, <1>2, <1>3

-----------------------------------------------------------------------------
LEMMA RetryInitInv == RetryInit => RetryInv
<1> SUFFICES ASSUME NEW retries \in BOOLEAN, RetryFrom(retries) PROVE RetryInv
  BY DEF RetryInit
<1>1. 0 \in Clock
  BY RetryAssumption DEF RetryAssumption, Clock
<1>2. accepted \in [Record -> Nat] /\ \A r \in Record : accepted[r] = 0
  BY DEF RetryFrom
<1>3. enabled \in BOOLEAN /\ cancelled \in BOOLEAN
  BY Zenon DEF RetryFrom
<1>4. RetryTypeOK
  BY <1>1, <1>2, <1>3 DEF RetryFrom, RetryTypeOK
<1>5. LogsAreLeft /\ FailureNamesLogs /\ TakenOnceOrTold
  BY <1>2 DEF RetryFrom, LogsAreLeft, FailureNamesLogs, TakenOnceOrTold
<1> QED
  BY <1>4, <1>5 DEF RetryInv

LEMMA SucceedInv == RetryInv /\ Succeed => RetryInv'
<1> SUFFICES ASSUME RetryInv, Succeed PROVE RetryInv'
  OBVIOUS
<1>1. elapsed' \in Clock
  BY CallInClock DEF RetryInv, RetryTypeOK, Succeed
<1>2. /\ accepted' \in [Record -> Nat]
      /\ \A r \in Record : accepted'[r] <= 1
      /\ \A r \in Record : accepted'[r] # 0
  BY TakeCounts DEF RetryInv, Succeed
<1> QED
  BY <1>1, <1>2 DEF RetryInv, RetryTypeOK, LogsAreLeft, FailureNamesLogs, TakenOnceOrTold, Taken, Succeed

LEMMA FailPermanentlyInv == RetryInv /\ FailPermanently => RetryInv'
<1> SUFFICES ASSUME RetryInv, FailPermanently PROVE RetryInv'
  OBVIOUS
<1>1. elapsed' \in Clock
  BY CallInClock DEF RetryInv, RetryTypeOK, FailPermanently
<1>2. PICK S \in SUBSET logs : Take(S) /\ dropped' = logs \ S
  BY DEF FailPermanently
<1>3. /\ accepted' \in [Record -> Nat]
      /\ \A r \in Record : accepted'[r] <= 1
      /\ \A r \in Record : accepted'[r] = 0 <=> r \in logs \ S
  BY <1>2, TakeCounts DEF RetryInv, FailPermanently
<1> QED
  BY <1>1, <1>2, <1>3
  DEF RetryInv, RetryTypeOK, LogsAreLeft, FailureNamesLogs, TakenOnceOrTold, Taken, FailPermanently

LEMMA FailPartiallyInv == RetryInv /\ FailPartially => RetryInv'
<1> SUFFICES ASSUME RetryInv, FailPartially PROVE RetryInv'
  OBVIOUS
<1>1. elapsed' \in Clock
  BY CallInClock DEF RetryInv, RetryTypeOK, FailPartially
<1>2. PICK S \in SUBSET logs \ {{}} :
        /\ Take(logs \ S)
        /\ told' = S
        /\ logs' = IF enabled THEN S ELSE logs
  BY DEF FailPartially
<1>3. /\ accepted' \in [Record -> Nat]
      /\ \A r \in Record : accepted'[r] <= 1
      /\ \A r \in Record : accepted'[r] = 0 <=> r \in S
  BY <1>2, TakeCounts DEF RetryInv, FailPartially
<1>4. RetryTypeOK'
  BY <1>1, <1>2, <1>3 DEF RetryInv, RetryTypeOK, FailPartially, AfterFailure
<1>5. LogsAreLeft' /\ FailureNamesLogs'
  BY <1>2, <1>3 DEF LogsAreLeft, FailureNamesLogs, FailPartially, AfterFailure
<1>6. TakenOnceOrTold'
  BY <1>2, <1>3 DEF TakenOnceOrTold, Taken, FailPartially
<1> QED
  BY <1>4, <1>5, <1>6 DEF RetryInv

LEMMA FailInv == RetryInv /\ Fail => RetryInv'
<1> SUFFICES ASSUME RetryInv, Fail PROVE RetryInv'
  OBVIOUS
<1>1. elapsed' \in Clock
  BY CallInClock DEF RetryInv, RetryTypeOK, Fail
<1>2. logs \subseteq Record
  BY DEF RetryInv, RetryTypeOK
<1>3. RetryTypeOK'
  BY <1>1 DEF RetryInv, RetryTypeOK, Fail, AfterFailure
<1>4. LogsAreLeft' /\ FailureNamesLogs'
  BY <1>2 DEF RetryInv, LogsAreLeft, FailureNamesLogs, Fail, AfterFailure
<1>5. TakenOnceOrTold'
  BY DEF RetryInv, TakenOnceOrTold, Taken, Fail
<1> QED
  BY <1>3, <1>4, <1>5 DEF RetryInv

LEMMA BackOffInv == RetryInv /\ BackOff => RetryInv'
<1> SUFFICES ASSUME RetryInv, BackOff PROVE RetryInv'
  OBVIOUS
<1>1. elapsed' \in Clock /\ attempt' \in {"returned", "waiting"}
  BY LaterInClock DEF RetryInv, RetryTypeOK, BackOff
<1>2. UNCHANGED <<enabled, logs, err, told, cancelled, accepted, dropped>> /\ attempt = "failed"
  BY DEF BackOff
<1>3. Record \ Taken \subseteq told
  BY <1>2 DEF RetryInv, LogsAreLeft, FailureNamesLogs, Taken
<1>4. err # "nil"
  BY <1>2 DEF RetryInv, FailureNamesLogs
<1> QED
  BY <1>1, <1>2, <1>3, <1>4 DEF RetryInv, RetryTypeOK, LogsAreLeft, FailureNamesLogs, TakenOnceOrTold, Taken

LEMMA WaitingInv == RetryInv /\ (Resend \/ GiveUp \/ Cancel) => RetryInv'
<1> SUFFICES ASSUME RetryInv, Resend \/ GiveUp \/ Cancel PROVE RetryInv'
  OBVIOUS
<1>1. CASE Resend
  BY <1>1 DEF RetryInv, RetryTypeOK, LogsAreLeft, FailureNamesLogs, TakenOnceOrTold, Taken, Resend
<1>2. CASE GiveUp
  <2>1. Record \ Taken \subseteq told /\ err # "nil"
    BY <1>2 DEF RetryInv, LogsAreLeft, FailureNamesLogs, Taken, GiveUp
  <2> QED
    BY <1>2, <2>1
    DEF RetryInv, RetryTypeOK, LogsAreLeft, FailureNamesLogs, TakenOnceOrTold, Taken, GiveUp
<1>3. CASE Cancel
  BY <1>3 DEF RetryInv, RetryTypeOK, LogsAreLeft, FailureNamesLogs, TakenOnceOrTold, Taken, Cancel
<1> QED
  BY <1>1, <1>2, <1>3

LEMMA RetryNextInv == RetryInv /\ [RetryNext]_retryVars => RetryInv'
<1> SUFFICES ASSUME RetryInv, [RetryNext]_retryVars PROVE RetryInv'
  OBVIOUS
<1>1. CASE UNCHANGED retryVars
  BY <1>1 DEF retryVars, RetryInv, RetryTypeOK, LogsAreLeft, FailureNamesLogs, TakenOnceOrTold, Taken
<1> QED
  BY <1>1, SucceedInv, FailPermanentlyInv, FailPartiallyInv, FailInv, BackOffInv, WaitingInv
  DEF RetryNext

\* Every batch keeps the invariant through all of its attempts.
THEOREM RetryInvariant == RetrySpec => []RetryInv
BY RetryInitInv, RetryNextInv, PTL DEF RetrySpec

\* No record is taken twice, success means that all were taken, and an error
\* names what was not taken unless a permanent error gave it up (logs.go:77-96).
THEOREM RecordsTakenOnceOrTold == RetrySpec => []TakenOnceOrTold
<1>1. RetryInv => TakenOnceOrTold
  BY DEF RetryInv
<1> QED
  BY <1>1, RetryInvariant, PTL

-----------------------------------------------------------------------------
(***************************************************************************)
(* The attribute actions: where a value can be that a delete or a hash     *)
(* takes away, for every list of actions and every item.                   *)
(***************************************************************************)

\* The attributes that have the original value of k
Bare(k) == {m \in Keys : attrs[m].of = k /\ attrs[m].hashes = 0}

\* No action before the n-th took a copy of k.
Uncopied(k, n) == \A i \in 1 .. n - 1 : ~Copies(Act(i), k)

HiddenInTime(k, n) == \E j \in 1 .. n - 1 : HidesKey(Act(j), k) /\ Uncopied(k, j)

Unnamed(k, n) == \A i \in 1 .. n - 1 : ~Names(Act(i), k)

AttrInv ==
  /\ processing \in Processing
  /\ next \in {-1} \cup 0 .. Len(processing.actions) + 1
  /\ attrs \in [Keys -> AttributeValue]
  /\ \A k \in DOMAIN processing.attrs :
       /\ Uncopied(k, next) => Bare(k) \subseteq {k}
       /\ HiddenInTime(k, next) => Bare(k) = {}
       /\ Unnamed(k, next) => k \in Keys /\ attrs[k] = processing.attrs[k]

LEMMA Actions ==
  ASSUME processing \in Processing
  PROVE  /\ processing.actions \in Seq(ActionFields)
         /\ Len(processing.actions) \in Nat /\ Acts = 1 .. Len(processing.actions)
         /\ \A i \in Acts : Act(i) \in ActionFields
BY ProcessingAssumption DEF Acts, Act

LEMMA AttrInitInv == AttrInit => AttrInv
<1> SUFFICES ASSUME AttrInit PROVE AttrInv
  OBVIOUS
<1>1. processing \in Processing /\ attrs = processing.attrs /\ next = 0
  BY DEF AttrInit, AttrFrom
<1>2. next \in {-1} \cup 0 .. Len(processing.actions) + 1
  BY <1>1, Actions
<1>3. attrs \in [Keys -> AttributeValue]
  BY <1>1, ProcessingAssumption DEF Keys
<1>4. ASSUME NEW k \in DOMAIN processing.attrs
      PROVE  Bare(k) \subseteq {k} /\ ~HiddenInTime(k, next) /\ k \in Keys /\ attrs[k] = processing.attrs[k]
  BY <1>1, ProcessingAssumption DEF Bare, Keys, HiddenInTime
<1> QED
  BY <1>1, <1>2, <1>3, <1>4 DEF AttrInv

\* A value that is set comes from outside or from the attribute that is named.
LEMMA SourceIs ==
  ASSUME attrs \in [Keys -> AttributeValue], NEW v \in SourceValue
  PROVE  /\ v \in AttributeValue
         /\ \/ v.of \in {"configuration", "context"}
            \/ \E c \in Keys : Copies(Action, c) /\ v = attrs[c]
<1>1. Given("configuration") \in AttributeValue /\ Given("configuration").of = "configuration"
  BY DEF Given, AttributeValue, ValueType
<1>2. Given("context") \in AttributeValue /\ Given("context").of = "context"
  BY DEF Given, AttributeValue, ValueType
<1>3. \/ v \in {Given("configuration"), Given("context")}
      \/ \E c \in Keys : c = Action.fromAttribute /\ v = attrs[c]
  BY DEF SourceValue
<1> QED
  BY <1>1, <1>2, <1>3 DEF Copies

\* What one action leaves: where each value comes from
Derived(m) ==
  \/ m \in Keys /\ attrs'[m].of = attrs[m].of /\ attrs'[m].hashes = attrs[m].hashes
  \/ attrs'[m].hashes > 0
  \/ attrs'[m].of \in {"configuration", "context"}
  \/ \E c \in Keys : /\ Copies(Action, c)
                     /\ attrs'[m].of = attrs[c].of /\ attrs'[m].hashes = attrs[c].hashes

Step ==
  /\ attrs' \in [Keys' -> AttributeValue]
  /\ \A m \in Keys' : Derived(m)
  /\ Action.action \in Hides => \A m \in Keys' : m \in Keys /\ (attrs'[m] = attrs[m] \/ attrs'[m].hashes > 0)
  /\ \A k \in Keys' : HidesKey(Action, k) => attrs'[k].hashes > 0
  /\ \A k \in Keys : ~Names(Action, k) => k \in Keys' /\ attrs'[k] = attrs[k]

LEMMA SetStep ==
  ASSUME attrs \in [Keys -> AttributeValue], Action.action \notin Hides,
         NEW S, attrs' \in WithValue(S, Action.key),
         \A v \in S : /\ v \in AttributeValue
                      /\ \/ v.of \in {"configuration", "context"}
                         \/ \E c \in Keys : Copies(Action, c) /\ v = attrs[c]
                         \/ Action.key \in Keys /\ v.of = attrs[Action.key].of /\ v.hashes = attrs[Action.key].hashes
  PROVE  Step
<1>1. PICK v \in S : attrs' = [j \in Keys \cup {Action.key} |-> IF j = Action.key THEN v ELSE attrs[j]]
  BY DEF WithValue
<1>2. Keys' = Keys \cup {Action.key}
  BY <1>1 DEF Keys
<1>3. attrs'[Action.key] = v /\ \A m \in Keys : m # Action.key => attrs'[m] = attrs[m]
  BY <1>1
<1>4. attrs' \in [Keys' -> AttributeValue]
  BY <1>1, <1>2
<1>5. \A m \in Keys' : Derived(m)
  BY <1>2, <1>3 DEF Derived
<1>6. \A k \in Keys : ~Names(Action, k) => k \in Keys' /\ attrs'[k] = attrs[k]
  BY <1>2, <1>3 DEF Names
<1> QED
  BY <1>4, <1>5, <1>6 DEF Step, HidesKey

LEMMA HashIs ==
  ASSUME NEW v \in AttributeValue
  PROVE  Hash(v) \in AttributeValue /\ Hash(v).hashes > 0
<1>1. v.hashes + 1 \in Nat /\ v.hashes + 1 > 0
  BY DEF AttributeValue
<1> QED
  BY <1>1 DEF Hash, AttributeValue, ValueType

LEMMA HideStep ==
  ASSUME attrs \in [Keys -> AttributeValue], Action.action \in Hides, attrs' \in Applied
  PROVE  Step
<1>1. CASE Action.action = "delete"
  <2>1. attrs' = [k \in Keys \ Hidden |-> attrs[k]]
    BY <1>1 DEF Applied
  <2>2. Keys' = Keys \ Hidden /\ \A m \in Keys' : attrs'[m] = attrs[m]
    BY <2>1 DEF Keys
  <2> QED
    BY <2>1, <2>2 DEF Step, Derived, HidesKey, Hidden, Names
<1>2. CASE Action.action = "hash"
  <2>1. attrs' = HashKeys
    BY <1>2 DEF Applied, Sets
  <2>2. Keys' = Keys
    BY <2>1 DEF Keys, HashKeys
  <2>3. \A m \in Keys : attrs'[m] \in {attrs[m], Hash(attrs[m]), Hash(Hash(attrs[m]))}
    BY <2>1 DEF HashKeys
  <2>4. \A m \in Hidden : attrs'[m] \in {Hash(attrs[m]), Hash(Hash(attrs[m]))}
    BY <2>1 DEF HashKeys, Hidden
  <2>5. \A m \in Keys : attrs'[m] \in AttributeValue /\ (attrs'[m] = attrs[m] \/ attrs'[m].hashes > 0)
    BY <2>3, HashIs
  <2>6. \A m \in Hidden : attrs'[m].hashes > 0
    BY <2>4, HashIs DEF Hidden
  <2>7. attrs' \in [Keys' -> AttributeValue]
    BY <2>1, <2>2, <2>5 DEF HashKeys
  <2>8. \A m \in Keys : m \notin Hidden => attrs'[m] = attrs[m]
    BY <2>1 DEF HashKeys, Hidden
  <2> QED
    BY <2>2, <2>5, <2>6, <2>7, <2>8 DEF Step, Derived, HidesKey, Hidden, Names
<1> QED
  BY <1>1, <1>2 DEF Hides

LEMMA ExtractStep ==
  ASSUME attrs \in [Keys -> AttributeValue], Action.action = "extract", Extracts,
         Action \in ActionFields, NEW numbers \in SUBSET Action.groups, attrs' = Extracted(numbers)
  PROVE  Step
<1>1. Action.key \in Keys /\ attrs[Action.key] \in AttributeValue
  BY DEF Extracts
<1> DEFINE v(m) == [attrs[Action.key] EXCEPT !.number = m \in numbers]
<1>2. \A m : v(m) \in AttributeValue /\ v(m).of = attrs[Action.key].of /\ v(m).hashes = attrs[Action.key].hashes
  <2> DEFINE w == attrs[Action.key]
  <2>1. w \in AttributeValue
    BY <1>1
  <2> HIDE DEF w
  <2>2. ASSUME NEW b \in BOOLEAN
        PROVE  /\ [w EXCEPT !.number = b] \in AttributeValue
               /\ [w EXCEPT !.number = b].of = w.of /\ [w EXCEPT !.number = b].hashes = w.hashes
    BY <2>1 DEF AttributeValue
  <2>3. ASSUME NEW m PROVE (m \in numbers) \in BOOLEAN
    OBVIOUS
  <2>4. ASSUME NEW m
        PROVE  v(m) \in AttributeValue /\ v(m).of = w.of /\ v(m).hashes = w.hashes
    BY <2>2, <2>3 DEF w
  <2> QED
    BY <2>4 DEF w
<1>3. /\ Keys' = Keys \cup Action.groups
      /\ \A m \in Keys' : attrs'[m] = IF m \in Action.groups THEN v(m) ELSE attrs[m]
      /\ attrs' = [k \in Keys' |-> attrs'[k]]
  BY DEF Extracted, Keys
<1> HIDE DEF v
<1>4. attrs' \in [Keys' -> AttributeValue]
  BY <1>2, <1>3
<1>5. \A m \in Keys' : Derived(m)
  BY <1>1, <1>2, <1>3 DEF Derived, Copies
<1>6. \A k \in Keys : ~Names(Action, k) => k \in Keys' /\ attrs'[k] = attrs[k]
  BY <1>3 DEF Names
<1> QED
  BY <1>4, <1>5, <1>6 DEF Step, HidesKey, Hides

LEMMA ConvertIs ==
  ASSUME NEW v \in AttributeValue, NEW to \in ValueType
  PROVE  Convert(v, to) \in AttributeValue /\ Convert(v, to).of = v.of /\ Convert(v, to).hashes = v.hashes
BY DEF Convert, AttributeValue, ValueType

LEMMA AppliedStep ==
  ASSUME attrs \in [Keys -> AttributeValue], Action \in ActionFields, attrs' \in Applied
  PROVE  Step
<1>1. CASE Action.action \in Hides
  BY <1>1, HideStep
<1>2. CASE Action.action \in Sets
  <2>1. attrs' \in WithValue(SourceValue, Action.key)
    BY <1>2 DEF Applied, Sets
  <2>2. Action.action \notin Hides
    BY <1>2 DEF Sets, Hides
  <2> QED
    BY <2>1, <2>2, SetStep, SourceIs
<1>3. CASE Action.action = "extract"
  <2>1. Extracts /\ (attrs' = attrs \/ \E numbers \in SUBSET Action.groups : attrs' = Extracted(numbers))
    BY <1>3 DEF Applied, Sets
  <2>2. CASE attrs' = attrs
    <3>1. Keys' = Keys
      BY <2>2 DEF Keys
    <3> QED
      BY <1>3, <2>2, <3>1 DEF Step, Derived, HidesKey, Hides
  <2> QED
    BY <1>3, <2>1, <2>2, ExtractStep
<1>4. CASE Action.action = "convert"
  <2> DEFINE S == {Convert(attrs[k], Action.convertedType) : k \in Keys \cap {Action.key}}
  <2>1. attrs' \in WithValue(S, Action.key)
    BY <1>4 DEF Applied
  <2>2. \A v \in S : /\ v \in AttributeValue
                     /\ Action.key \in Keys /\ v.of = attrs[Action.key].of /\ v.hashes = attrs[Action.key].hashes
    BY ConvertIs DEF ActionFields
  <2>3. Action.action \notin Hides
    BY <1>4 DEF Hides
  <2> HIDE DEF S
  <2> QED
    BY <2>1, <2>2, <2>3, SetStep
<1>5. CASE Action.action \notin Hides \cup Sets \cup {"extract", "convert"}
  BY <1>5 DEF Applied, Hides, Sets
<1> QED
  BY <1>1, <1>2, <1>3, <1>4, <1>5

LEMMA AttrNextInv == AttrInv /\ [AttrNext]_attrVars => AttrInv'
<1> SUFFICES ASSUME AttrInv, [AttrNext]_attrVars PROVE AttrInv'
  OBVIOUS
<1>1. UNCHANGED processing /\ processing \in Processing
  BY DEF AttrInv, AttrNext, NewAttrProc, Process, attrVars
<1>2. \A k, n : /\ Uncopied(k, n)' <=> Uncopied(k, n)
                /\ HiddenInTime(k, n)' <=> HiddenInTime(k, n)
                /\ Unnamed(k, n)' <=> Unnamed(k, n)
  BY <1>1 DEF Uncopied, HiddenInTime, Unnamed, Act
<1>3. CASE UNCHANGED attrVars
  BY <1>3 DEF attrVars, AttrInv, Uncopied, HiddenInTime, Unnamed, Act, Bare, Keys
<1>4. CASE NewAttrProc
  <2>1. next = 0 /\ next' \in {1, -1} /\ UNCHANGED attrs
    BY <1>4 DEF NewAttrProc
  <2>2. next' \in {-1} \cup 0 .. Len(processing'.actions) + 1
    BY <1>1, <2>1, Actions
  <2>3. \A k : Uncopied(k, next) /\ ~HiddenInTime(k, next') /\ Unnamed(k, next) /\ (Bare(k)' = Bare(k))
    <3>1. \A i : i \notin 1 .. next - 1 /\ i \notin 1 .. next' - 1
      BY <2>1
    <3>2. ASSUME NEW k PROVE Bare(k)' = Bare(k)
      BY <2>1, Zenon DEF Bare, Keys
    <3> QED
      BY <3>1, <3>2 DEF Uncopied, HiddenInTime, Unnamed
  <2> QED
    BY <1>1, <1>2, <2>1, <2>2, <2>3 DEF AttrInv, Keys
<1>5. CASE Process
  <2>1. next \in Acts /\ next' = next + 1 /\ Action = Act(next) /\ Action \in ActionFields
    BY <1>1, <1>5, Actions DEF Process, Acts, Act, Action
  <2>2. Acts = 1 .. Len(processing.actions) /\ Len(processing.actions) \in Nat
    BY <1>1, Actions
  <2>3. next' \in {-1} \cup 0 .. Len(processing'.actions) + 1
    BY <1>1, <2>1, <2>2
  <2>4. \A k : /\ Uncopied(k, next') <=> Uncopied(k, next) /\ ~Copies(Action, k)
               /\ HiddenInTime(k, next') <=> HiddenInTime(k, next) \/ (HidesKey(Action, k) /\ Uncopied(k, next))
               /\ Unnamed(k, next') <=> Unnamed(k, next) /\ ~Names(Action, k)
    <3>1. \A i : i \in 1 .. next' - 1 <=> i \in 1 .. next - 1 \/ i = next
      BY <2>1, <2>2
    <3> QED
      BY <2>1, <3>1 DEF Uncopied, HiddenInTime, Unnamed
  <2>5. CASE Applied = {}
    <3>1. UNCHANGED attrs
      BY <1>5, <2>5 DEF Process
    <3>2. \A k : ~HidesKey(Action, k)
      BY <2>5 DEF Applied, HidesKey, Hides, Sets
    <3> QED
      BY <1>1, <1>2, <2>3, <2>4, <3>1, <3>2 DEF AttrInv, Bare, Keys
  <2>6. CASE attrs' \in Applied
    <3>1. Step
      BY <2>1, <2>6, AppliedStep DEF AttrInv
    <3>2. ASSUME NEW k \in DOMAIN processing.attrs
          PROVE  /\ Uncopied(k, next') => Bare(k)' \subseteq {k}
                 /\ HiddenInTime(k, next') => Bare(k)' = {}
                 /\ Unnamed(k, next') => k \in Keys' /\ attrs'[k] = processing.attrs[k]
      <4>1. k \notin {"configuration", "context"}
        BY <1>1, ProcessingAssumption
      <4>2. \A m \in Bare(k)' : m \in Bare(k) \/ \E c \in Bare(k) : Copies(Action, c)
        BY <3>1, <4>1 DEF Step, Derived, Bare, Keys, AttributeValue
      <4>3. HidesKey(Action, k) => k \notin Bare(k)'
        BY <3>1 DEF Step, Bare
      <4>4. ASSUME Uncopied(k, next), HidesKey(Action, k) PROVE Bare(k)' = {}
        <5>1. Bare(k)' \subseteq Bare(k)
          BY <3>1, <4>4 DEF Step, HidesKey, Bare, Keys, AttributeValue
        <5> QED
          BY <4>3, <4>4, <5>1 DEF AttrInv
      <4> QED
        BY <2>4, <3>1, <4>2, <4>4 DEF AttrInv, Step
    <3> QED
      BY <1>1, <1>2, <2>3, <3>1, <3>2 DEF AttrInv, Step
  <2> QED
    BY <1>5, <2>5, <2>6 DEF Process
<1> QED
  BY <1>3, <1>4, <1>5 DEF AttrNext

LEMMA AttrAlwaysInv == AttrSpec => []AttrInv
BY AttrInitInv, AttrNextInv, PTL DEF AttrSpec

(***************************************************************************)
(* What is deleted or hashed is gone at the end of the list, unless an     *)
(* action before it took a copy, and what no action names is as it was     *)
(* (Process of attraction.go applies the actions in the order in which     *)
(* they are given).                                                        *)
(***************************************************************************)
THEOREM RedactionIsFinal == AttrSpec => []RedactionHolds
<1>1. AttrInv => RedactionHolds
  <2> SUFFICES ASSUME AttrInv, Processed, NEW k \in DOMAIN processing.attrs
               PROVE  /\ (\E j \in Acts : HidesKey(Act(j), k) /\ \A i \in 1 .. j - 1 : ~Copies(Act(i), k)) =>
                           \A m \in DOMAIN attrs : ~(attrs[m].of = k /\ attrs[m].hashes = 0)
                      /\ (\A i \in Acts : ~Names(Act(i), k)) => k \in DOMAIN attrs /\ attrs[k] = processing.attrs[k]
    BY DEF RedactionHolds
  <2>1. Acts = 1 .. next - 1
    BY Actions DEF AttrInv, Processed
  <2> QED
    BY <2>1 DEF AttrInv, HiddenInTime, Uncopied, Unnamed, Bare, Keys
<1> QED
  BY <1>1, AttrAlwaysInv, PTL

-----------------------------------------------------------------------------
(***************************************************************************)
(* nrlicense: what the summary says of the files, for every set of files   *)
(* and paths, every pool and every order of the goroutines.                *)
(***************************************************************************)
Harmless == {l \in Line : l.says # "generated"}
Short == {l \in Harmless : l.says # "long"}

Generated(p) == IsGeneratedFile(run.text[p[1]])

\* Files that have to be written, that lack a header
Due == {p \in Path : Fixable(p) /\ ~Checking}
Lacking == {p \in Path : Checking /\ ~Outside(p)
                         /\ ~CheckHeader(run.text[p[1]], Ext[p[1]], FileStatus(p))}

Ended(S) == {p \in S : task[p] = "done"}
Broken == {p \in Path : task[p] = "failed"}
Waits == {"none", "queued", "parse"}
Rewrites == {"fix", "reparse", "truncate", "write"}

LicenseTypeOK ==
  /\ run \in Run /\ exit \in {-1, 0, 1}
  /\ text \in [File -> Seq(Line)]
  /\ task \in [Path -> Waits \cup {"status", "check", "dryRun", "done", "failed"} \cup Rewrites]
  /\ local \in [Path -> [status : {"", "new", "modified", "unmodified"},
                         content : Seq(Line), result : Seq(Line)]]

\* Who is at work, on what, and how far
Tasks ==
  /\ \A p \in Path : task[p] # "none" =>
       p \in Collected /\ ~Refused /\ \A q \in Collected : task[q] # "none"
  /\ \A p \in Path : task[p] \notin Waits \cup {"done"} => ~Generated(p)
  /\ \A p \in Path : task[p] \in {"check", "dryRun"} \cup Rewrites =>
       /\ ~Outside(p) /\ local[p].status = FileStatus(p)
       /\ task[p] = "check" <=> Checking
       /\ task[p] \in Rewrites => Fixing
       /\ task[p] # "check" => FileStatus(p) # "unmodified"

\* What has ended well could be examined, and without --fix nothing else fails
Reasons ==
  \A p \in Path :
    /\ task[p] = "done" => Generated(p) \/ ~Outside(p)
    /\ ~Fixing /\ task[p] \notin Waits \cup {"failed"} =>
         Generated(p) \/ ~Unparsable(run.text[p[1]], Ext[p[1]])
    /\ ~Fixing /\ task[p] = "failed" => Unexaminable(p)

\* What is never written, and what is never in it
Texts ==
  /\ ~Fixing => text = run.text
  /\ \A f \in File : IF IsGeneratedFile(run.text[f]) THEN text[f] = run.text[f] ELSE text[f] \in Seq(Harmless)
  /\ \A p \in Path : /\ task[p] = "reparse" => local[p].content \in Seq(Harmless)
                     /\ task[p] \in {"truncate", "write"} => local[p].result \in Seq(Harmless)

Counts ==
  /\ processed = Cardinality({p \in Path : task[p] \notin Waits})
  /\ modified = Cardinality(Ended(Due))
  /\ failures = Cardinality(Broken)
  /\ needsUpdate = Cardinality(Ended(Lacking))

Exited ==
  exit # -1 => \/ \A p \in Path : task[p] = "none"
               \/ /\ \A p \in Path : task[p] \in {"none", "done", "failed"}
                  /\ exit = IF failures > 0 \/ (Checking /\ needsUpdate > 0) THEN 1 ELSE 0

LicenseInv == LicenseTypeOK /\ Tasks /\ Reasons /\ Texts /\ Counts /\ Exited

LEMMA ThreeAreFinite == ASSUME NEW a, NEW b, NEW c PROVE IsFiniteSet({a, b, c})
<1>1. IsFiniteSet({a} \cup {b})
  BY FS_Singleton, FS_AddElement
<1>2. IsFiniteSet({a} \cup {b} \cup {c})
  BY <1>1, FS_AddElement
<1>3. {a, b, c} = {a} \cup {b} \cup {c}
  OBVIOUS
<1> QED
  BY <1>2, <1>3

LEMMA PathsFinite == ASSUME NEW S \in SUBSET Path PROVE IsFiniteSet(S) /\ Cardinality(S) \in Nat
<1>1. IsFiniteSet({"root", "dot", "absolute"})
  BY ThreeAreFinite
<1>2. IsFiniteSet(File) /\ IsFiniteSet(Forms)
  BY <1>1, LicenseAssumption, FS_Subset
<1> QED
  BY <1>2, FS_Product, FS_Subset, FS_CardinalityType DEF Path

\* Runs that main does not refuse have one mode.
LEMMA OneMode ==
  ASSUME run \in Run, ~Refused
  PROVE  run.flags = {Mode} /\ Mode \in {"fix", "check", "dryRun"}
<1>1. run.flags \subseteq {"fix", "check", "dryRun"} /\ IsFiniteSet({"fix", "check", "dryRun"})
  BY LicenseAssumption, ThreeAreFinite
<1>2. IsFiniteSet(run.flags) /\ Cardinality(run.flags) = 1
  BY <1>1, FS_Subset DEF Refused
<1>3. PICK m : run.flags = {m}
  BY <1>2, FS_Singleton
<1> QED
  BY <1>1, <1>3 DEF Mode

-----------------------------------------------------------------------------
\* What applying a header leaves has the marker of a generated file nowhere,
\* if it was not there before.

LEMMA FirstIs ==
  ASSUME NEW S \in SUBSET Nat, NEW d \in Nat
  PROVE  FirstOr(S, d) \in Nat /\ (FirstOr(S, d) = d \/ FirstOr(S, d) \in S)
<1>1. CASE S = {}
  BY <1>1 DEF FirstOr
<1>2. CASE S # {}
  <2>1. \E x \in S : \A y \in S : ~(<<y, x>> \in OpToRel(<, Nat))
    BY <1>2, NatLessThanWellFounded, WFMin
  <2>3. PICK x \in S : \A y \in S : ~(<<y, x>> \in {ss \in Nat \X Nat : ss[1] < ss[2]})
    BY <2>1 DEF OpToRel
  <2>4. ASSUME NEW y \in S PROVE x <= y
    <3>1. x \in Nat /\ y \in Nat /\ <<y, x>> \in Nat \X Nat
      OBVIOUS
    <3>2. ~(y < x)
      BY <2>3, <3>1
    <3> QED
      BY <3>1, <3>2
  <2>2. \E z \in S : \A y \in S : z <= y
    BY <2>4
  <2> QED
    BY <1>2, <2>2 DEF FirstOr
<1> QED
  BY <1>1, <1>2

LEMMA ContentStartIs ==
  ASSUME NEW t \in Seq(Line), NEW ext
  PROVE  ParseFileHeader(t, ext).contentStart \in Nat
<1>1. Len(t) \in Nat /\ DOMAIN t = 1 .. Len(t)
  OBVIOUS
<1>2. FirstOr({i \in DOMAIN t : IsCode(t[i], ext)}, 0) \in Nat
  BY <1>1, FirstIs
<1>3. HeaderStart(t, ext) \in Nat
  BY <1>1, FirstIs DEF HeaderStart
<1>4. HeaderEnd(t, ext, HeaderStart(t, ext)) \in Nat
  BY <1>1, <1>3, FirstIs DEF HeaderEnd
<1> QED
  BY <1>2, <1>4 DEF ParseFileHeader

LEMMA HarmlessText ==
  ASSUME NEW t \in Seq(Line)
  PROVE  ~IsGeneratedFile(t) <=> t \in Seq(Harmless)
BY DEF IsGeneratedFile, Harmless

LEMMA HeaderIs ==
  ASSUME NEW ext, NEW status \in {"modified", "new"}
  PROVE  GenerateHeader(status, ext) \in Seq(Harmless) /\ GenerateHeader(status, ext) \in Seq(Short)
<1>1. \A says \in {"theirs", "ours", "also ours", "", "words", "apache"} :
        [mark |-> Style(ext), says |-> says] \in Short
  BY DEF Short, Harmless, Line, Style
<1>2. ASSUME status = "new" PROVE GenerateHeader(status, ext) \in Seq(Short)
  <2> DEFINE says == <<"ours", "apache">>
  <2>1. DOMAIN says = 1 .. 2 /\ \A i \in 1 .. 2 : says[i] \in {"ours", "apache"}
    OBVIOUS
  <2> HIDE DEF says
  <2>2. \A i \in 1 .. 2 : [mark |-> Style(ext), says |-> says[i]] \in Short
    BY <1>1, <2>1
  <2>3. Commented(says, ext) = [i \in 1 .. 2 |-> [mark |-> Style(ext), says |-> says[i]]]
    BY <2>1 DEF Commented
  <2>4. Commented(says, ext) \in Seq(Short)
    BY <2>2, <2>3
  <2> QED
    BY <1>2, <2>4 DEF GenerateHeader, says
<1>3. ASSUME status = "modified" PROVE GenerateHeader(status, ext) \in Seq(Short)
  <2> DEFINE says == <<"theirs", "also ours", "", "words", "words", "", "apache">>
  <2>1. DOMAIN says = 1 .. 7 /\ \A i \in 1 .. 7 : says[i] \in {"theirs", "also ours", "", "words", "apache"}
    OBVIOUS
  <2> HIDE DEF says
  <2>2. \A i \in 1 .. 7 : [mark |-> Style(ext), says |-> says[i]] \in Short
    BY <1>1, <2>1
  <2>3. Commented(says, ext) = [i \in 1 .. 7 |-> [mark |-> Style(ext), says |-> says[i]]]
    BY <2>1 DEF Commented
  <2>4. Commented(says, ext) \in Seq(Short)
    BY <2>2, <2>3
  <2> QED
    BY <1>3, <2>4 DEF GenerateHeader, says
<1>4. GenerateHeader(status, ext) \in Seq(Short)
  BY <1>2, <1>3
<1>5. Short \subseteq Harmless
  BY DEF Short
<1> QED
  BY <1>4, <1>5

\* How far a text is scanned, and that one of short lines is scanned to its end.
LEMMA ScannedIs ==
  ASSUME NEW t \in Seq(Line)
  PROVE  /\ Scanned(t) \in 0 .. Len(t)
         /\ t \in Seq(Short) => Scanned(t) = Len(t)
<1> DEFINE Long == {i \in DOMAIN t : t[i].says = "long"}
<1>1. Len(t) \in Nat /\ Long \in SUBSET (1 .. Len(t)) /\ Long \in SUBSET Nat
  OBVIOUS
<1>2. t \in Seq(Short) => Long = {}
  BY DEF Short
<1>3. Scanned(t) = FirstOr(Long, Len(t) + 1) - 1
  BY DEF Scanned
<1> HIDE DEF Long
<1>4. FirstOr(Long, Len(t) + 1) = Len(t) + 1 \/ FirstOr(Long, Len(t) + 1) \in 1 .. Len(t)
  BY <1>1, FirstIs
<1>5. Long = {} => FirstOr(Long, Len(t) + 1) = Len(t) + 1
  BY DEF FirstOr
<1> QED
  BY <1>1, <1>2, <1>3, <1>4, <1>5

LEMMA AppliedIs ==
  ASSUME NEW S \in {Harmless, Short}, NEW content \in Seq(S), NEW t \in Seq(Line), NEW ext, NEW status \in {"modified", "new"}
  PROVE  ApplyHeader(content, ParseFileHeader(t, ext), GenerateHeader(status, ext)) \in Seq(S)
<1> DEFINE info == ParseFileHeader(t, ext)
           header == GenerateHeader(status, ext)
           shebang == HashBang(content)
           kept == IF HasLicenseHeader(content) /\ info.contentStart > Len(shebang) + 1
                   THEN info.contentStart ELSE Len(shebang) + 1
           upto == IF HasLicenseHeader(content) THEN Scanned(content) ELSE Len(content)
           rest == SubSeq(content, kept, upto)
<1>1. shebang \in Seq(S) /\ Len(shebang) \in Nat
  <2>1. <<>> \in Seq(S)
    BY EmptySeq
  <2>2. content # <<>> => <<content[1]>> \in Seq(S)
    OBVIOUS
  <2>3. shebang \in Seq(S)
    BY <2>1, <2>2 DEF HashBang
  <2> QED
    BY <2>3
<1>2. kept \in Nat /\ kept >= 1 /\ Len(content) \in Nat
  BY <1>1, ContentStartIs
<1>3. rest \in Seq(S)
  <2>1. content \in Seq(Line)
    <3>1. S \subseteq Line
      BY DEF Harmless, Short
    <3> QED
      BY <3>1
  <2>2. upto \in 0 .. Len(content)
    BY <1>2, <2>1, ScannedIs
  <2> HIDE DEF kept, upto
  <2>3. \A i \in kept .. upto : content[i] \in S
    BY <1>2, <2>2
  <2> QED
    BY <1>2, <2>2, <2>3, SubSeqProperties
<1>4. header \in Seq(S)
  BY HeaderIs
<1>5. <<Blank>> \in Seq(S)
  <2>1. Blank \in S
    BY DEF Blank, Harmless, Short, Line
  <2> QED
    BY <2>1
<1>6. ApplyHeader(content, info, header) \in {content, shebang \o header \o <<Blank>> \o rest}
  BY DEF ApplyHeader
<1> HIDE DEF info, header, shebang, kept, rest
<1>7. shebang \o header \in Seq(S)
  BY <1>1, <1>4, ConcatProperties
<1>8. shebang \o header \o <<Blank>> \in Seq(S)
  BY <1>5, <1>7, ConcatProperties
<1>9. shebang \o header \o <<Blank>> \o rest \in Seq(S)
  BY <1>3, <1>8, ConcatProperties
<1> QED
  BY <1>6, <1>9 DEF info, header

-----------------------------------------------------------------------------
(***************************************************************************)
(* What a fix leaves of a text: lemmas about texts alone, where before is  *)
(* the text, b the length of its shebang, and kept the first line that     *)
(* stays.                                                                  *)
(***************************************************************************)
LEMMA FirstLeast ==
  ASSUME NEW S \in SUBSET Nat, NEW d
  PROVE  /\ S = {} => FirstOr(S, d) = d
         /\ S # {} => FirstOr(S, d) \in S /\ \A y \in S : FirstOr(S, d) <= y
<1>1. CASE S = {}
  BY <1>1 DEF FirstOr
<1>2. CASE S # {}
  <2>1. \E x \in S : \A y \in S : ~(<<y, x>> \in OpToRel(<, Nat))
    BY <1>2, NatLessThanWellFounded, WFMin
  <2>2. PICK x \in S : \A y \in S : ~(<<y, x>> \in {ss \in Nat \X Nat : ss[1] < ss[2]})
    BY <2>1 DEF OpToRel
  <2>3. ASSUME NEW y \in S PROVE x <= y
    <3>1. x \in Nat /\ y \in Nat /\ <<y, x>> \in Nat \X Nat
      OBVIOUS
    <3> QED
      BY <2>2, <3>1
  <2>4. \E z \in S : \A y \in S : z <= y
    BY <2>3
  <2> QED
    BY <1>2, <2>4 DEF FirstOr
<1> QED
  BY <1>1, <1>2

\* A line that names a copyright or a licence
Says(line) == NamesCopyright(line) \/ NamesLicence(line)

\* The header both templates make: comments, a copyright first, the one licence last
Heads(header, ext, status) ==
  /\ header \in Seq(Harmless) /\ Len(header) >= 2
  /\ \A i \in 1 .. Len(header) : IsCommentLine(header[i], ext)
  /\ header[Len(header)].says = "apache"
  /\ \A i \in 1 .. Len(header) - 1 : ~NamesLicence(header[i])
  /\ status = "new" => header[1].says = "ours"
  /\ status = "modified" => header[1].says = "theirs" /\ header[2].says = "also ours"

\* GenerateHeader makes such a header for a file that is new or modified.
LEMMA HeaderHeads ==
  ASSUME NEW ext, NEW status \in {"modified", "new"}
  PROVE  Heads(GenerateHeader(status, ext), ext, status)
<1>1. GenerateHeader(status, ext) \in Seq(Harmless)
  BY HeaderIs
<1>2. ASSUME NEW line, line.mark = Style(ext) PROVE IsCommentLine(line, ext)
  BY <1>2 DEF IsCommentLine, Style
<1>3. CASE status = "new"
  <2> DEFINE says == <<"ours", "apache">>
             H == Commented(says, ext)
  <2>1. GenerateHeader(status, ext) = H
    BY <1>3 DEF GenerateHeader
  <2>2. DOMAIN says = 1 .. 2 /\ says[1] = "ours" /\ says[2] = "apache"
    OBVIOUS
  <2> HIDE DEF says
  <2>3. H = [i \in 1 .. 2 |-> [mark |-> Style(ext), says |-> says[i]]]
    BY <2>2 DEF Commented
  <2>4. \A i \in 1 .. 2 : H[i].mark = Style(ext) /\ H[i].says = says[i]
    BY <2>3
  <2>5. Len(H) = 2
    BY <1>1, <2>1, <2>3
  <2> HIDE DEF H
  <2>6. \A i \in 1 .. 2 : IsCommentLine(H[i], ext)
    BY <1>2, <2>4
  <2>7. H[1].says = "ours" /\ H[2].says = "apache" /\ ~NamesLicence(H[1])
    <3>1. H[1].says = says[1] /\ H[2].says = says[2]
      BY <2>4
    <3> QED
      BY <2>2, <3>1 DEF NamesLicence
  <2> QED
    <3> DEFINE G == GenerateHeader(status, ext)
    <3>1. G \in Seq(Harmless) /\ Len(G) = 2 /\ \A i \in 1 .. 2 : IsCommentLine(G[i], ext)
      BY <1>1, <2>1, <2>5, <2>6
    <3>2. G[1].says = "ours" /\ G[2].says = "apache" /\ ~NamesLicence(G[1])
      BY <2>1, <2>7
    <3>3. \A i \in 1 .. Len(G) - 1 : i = 1
      BY <3>1
    <3> HIDE DEF G
    <3>4. Heads(G, ext, status)
      BY <1>3, <3>1, <3>2, <3>3 DEF Heads
    <3> QED
      BY <3>4 DEF G
<1>4. CASE status = "modified"
  <2> DEFINE says == <<"theirs", "also ours", "", "words", "words", "", "apache">>
             H == Commented(says, ext)
  <2>1. GenerateHeader(status, ext) = H
    BY <1>4 DEF GenerateHeader
  <2>2. /\ DOMAIN says = 1 .. 7 /\ says[1] = "theirs" /\ says[2] = "also ours" /\ says[7] = "apache"
        /\ \A i \in 1 .. 6 : says[i] \notin {"apache", "other licence"}
    OBVIOUS
  <2> HIDE DEF says
  <2>3. H = [i \in 1 .. 7 |-> [mark |-> Style(ext), says |-> says[i]]]
    BY <2>2 DEF Commented
  <2>4. \A i \in 1 .. 7 : H[i].mark = Style(ext) /\ H[i].says = says[i]
    BY <2>3
  <2>5. Len(H) = 7
    BY <1>1, <2>1, <2>3
  <2> HIDE DEF H
  <2>6. \A i \in 1 .. 7 : IsCommentLine(H[i], ext)
    BY <1>2, <2>4
  <2>7. H[1].says = "theirs" /\ H[2].says = "also ours" /\ H[7].says = "apache"
    <3>1. H[1].says = says[1] /\ H[2].says = says[2] /\ H[7].says = says[7]
      BY <2>4
    <3> QED
      BY <2>2, <3>1
  <2>8. ASSUME NEW i \in 1 .. 6 PROVE ~NamesLicence(H[i])
    <3>1. H[i].says = says[i]
      BY <2>4
    <3> QED
      BY <2>2, <3>1 DEF NamesLicence
  <2>9. /\ \A i \in 1 .. Len(H) : IsCommentLine(H[i], ext)
        /\ \A i \in 1 .. Len(H) - 1 : ~NamesLicence(H[i])
        /\ Len(H) >= 2 /\ H[Len(H)].says = "apache" /\ H \in Seq(Harmless)
    <3>1. H \in Seq(Harmless)
      BY <1>1, <2>1
    <3>2. Len(H) - 1 = 6 /\ Len(H) >= 2
      BY <2>5
    <3> QED
      BY <2>5, <2>6, <2>7, <2>8, <3>1, <3>2
  <2>10. Heads(H, ext, status)
    BY <1>4, <2>7, <2>9 DEF Heads
  <2> QED
    BY <2>1, <2>10
<1> QED
  BY <1>3, <1>4

\* What after is made of: a shebang, a header, an empty line, and the rest
Made(after, shebang, header, before, kept) ==
  LET m == Len(shebang) + Len(header) + 1
  IN /\ after \in Seq(Line) /\ Len(after) = m + Len(before) - kept + 1
     /\ \A i \in 1 .. Len(shebang) : after[i] = shebang[i]
     /\ \A i \in 1 .. Len(header) : after[Len(shebang) + i] = header[i]
     /\ after[m] = Blank
     /\ \A i \in m + 1 .. Len(after) : after[i] = before[kept + i - m - 1]

\* Line by line, what ApplyHeader puts together.
LEMMA AllMade ==
  ASSUME NEW shebang \in Seq(Line), NEW header \in Seq(Line), NEW before \in Seq(Line),
         NEW kept \in 1 .. Len(before) + 1
  PROVE  Made(shebang \o header \o <<Blank>> \o SubSeq(before, kept, Len(before)), shebang, header, before, kept)
<1> DEFINE rest == SubSeq(before, kept, Len(before))
           one == shebang \o header
           two == one \o <<Blank>>
           three == two \o rest
<1>1. <<Blank>> \in Seq(Line) /\ Len(<<Blank>>) = 1 /\ <<Blank>>[1] = Blank
  <2>1. Blank \in Line
    BY DEF Blank, Line
  <2> QED
    BY <2>1
<1>2. /\ rest \in Seq(Line) /\ Len(rest) = Len(before) - kept + 1
      /\ \A i \in 1 .. Len(rest) : rest[i] = before[kept + i - 1]
  <2>1. kept \in Nat /\ kept >= 1 /\ Len(before) \in Nat
    OBVIOUS
  <2> QED
    BY <2>1, SubSeqProperties
<1> HIDE DEF rest
<1>3. /\ one \in Seq(Line) /\ Len(one) = Len(shebang) + Len(header)
      /\ \A i \in 1 .. Len(one) : one[i] = IF i <= Len(shebang) THEN shebang[i] ELSE header[i - Len(shebang)]
  BY ConcatProperties
<1> HIDE DEF one
<1>4. /\ two \in Seq(Line) /\ Len(two) = Len(one) + 1
      /\ \A i \in 1 .. Len(two) : two[i] = IF i <= Len(one) THEN one[i] ELSE <<Blank>>[i - Len(one)]
  BY <1>1, <1>3, ConcatProperties
<1> HIDE DEF two
<1>5. /\ three \in Seq(Line) /\ Len(three) = Len(two) + Len(rest)
      /\ \A i \in 1 .. Len(three) : three[i] = IF i <= Len(two) THEN two[i] ELSE rest[i - Len(two)]
  <2>1. two \in Seq(Line) /\ rest \in Seq(Line)
    BY <1>2, <1>4
  <2> QED
    BY <2>1, ConcatProperties
<1> HIDE DEF three
<1>6. Len(shebang) \in Nat /\ Len(header) \in Nat /\ Len(before) \in Nat
  OBVIOUS
<1> DEFINE m == Len(shebang) + Len(header) + 1
<1>7. Len(two) = m /\ Len(three) = m + Len(before) - kept + 1
  BY <1>2, <1>3, <1>4, <1>5, <1>6
<1>8. ASSUME NEW i \in 1 .. Len(shebang) PROVE three[i] = shebang[i]
  <2>1. i \in 1 .. Len(one) /\ i \in 1 .. Len(two) /\ i \in 1 .. Len(three)
    BY <1>3, <1>4, <1>6, <1>7
  <2>2. three[i] = two[i] /\ two[i] = one[i] /\ one[i] = shebang[i]
    BY <1>3, <1>4, <1>5, <2>1
  <2> QED
    BY <2>2
<1>9. ASSUME NEW i \in 1 .. Len(header) PROVE three[Len(shebang) + i] = header[i]
  <2> DEFINE n == Len(shebang) + i
  <2>1. /\ n \in 1 .. Len(one) /\ n \in 1 .. Len(two) /\ n \in 1 .. Len(three)
        /\ ~(n <= Len(shebang)) /\ n - Len(shebang) = i
    BY <1>3, <1>4, <1>6, <1>7
  <2> HIDE DEF n
  <2>2. three[n] = two[n] /\ two[n] = one[n] /\ one[n] = header[i]
    BY <1>3, <1>4, <1>5, <2>1
  <2> QED
    BY <2>2 DEF n
<1>10. three[m] = Blank
  <2>1. m \in 1 .. Len(two) /\ m \in 1 .. Len(three) /\ ~(m <= Len(one)) /\ m - Len(one) = 1
    BY <1>3, <1>4, <1>5, <1>6, <1>7
  <2>2. three[m] = two[m]
    BY <1>5, <1>7, <2>1
  <2>3. two[m] = <<Blank>>[1]
    BY <1>4, <2>1
  <2>4. <<Blank>>[1] = Blank
    OBVIOUS
  <2> QED
    BY <2>2, <2>3, <2>4
<1>11. ASSUME NEW i \in m + 1 .. Len(three) PROVE three[i] = before[kept + i - m - 1]
  <2>1. /\ i - m \in 1 .. Len(rest) /\ i \in 1 .. Len(three) /\ ~(i <= Len(two)) /\ i - Len(two) = i - m
        /\ kept + (i - m) - 1 = kept + i - m - 1
    BY <1>2, <1>5, <1>6, <1>7
  <2>2. three[i] = rest[i - m]
    BY <1>5, <2>1
  <2> QED
    BY <1>2, <2>1, <2>2
<1>12. three = shebang \o header \o <<Blank>> \o SubSeq(before, kept, Len(before))
  BY DEF one, two, three, rest
<1> QED
  BY <1>5, <1>7, <1>8, <1>9, <1>10, <1>11, <1>12 DEF Made

\* The shebang a text may have, which is a comment of its language
Opens(before, ext) == HashBang(before) # <<>> => IsCommentLine(before[1], ext)

\* At most one line, the first, that says nothing of a copyright or a licence.
LEMMA ShebangIs ==
  ASSUME NEW t \in Seq(Line)
  PROVE  /\ HashBang(t) \in Seq(Line) /\ Len(HashBang(t)) \in {0, 1} /\ Len(HashBang(t)) <= Len(t)
         /\ Len(HashBang(t)) = 1 => /\ HashBang(t)[1] = t[1] /\ HashBang(t) # <<>>
                                    /\ t[1].says = "shebang" /\ ~Says(t[1])
<1>1. CASE t # <<>> /\ t[1].says = "shebang"
  <2>1. HashBang(t) = <<t[1]>> /\ t[1] \in Line /\ Len(t) >= 1
    BY <1>1 DEF HashBang
  <2> QED
    BY <1>1, <2>1 DEF Says, NamesCopyright, NamesLicence
<1>2. CASE ~(t # <<>> /\ t[1].says = "shebang")
  <2>1. HashBang(t) = <<>>
    BY <1>2 DEF HashBang
  <2> QED
    BY <2>1, EmptySeq
<1> QED
  BY <1>1, <1>2

\* Where a header that has been applied is found again: it starts after the
\* shebang, and ends where a line says something again.
LEMMA HeaderFound ==
  ASSUME NEW after \in Seq(Line), NEW shebang \in Seq(Line), NEW header, NEW before, NEW kept, NEW ext, NEW status,
         status \in {"new", "modified"}, Len(shebang) \in {0, 1},
         Len(shebang) = 1 => IsCommentLine(shebang[1], ext) /\ ~Says(shebang[1]),
         Heads(header, ext, status), Len(header) \in Nat,
         Made(after, shebang, header, before, kept), Len(shebang) + Len(header) + 1 <= Len(after)
  PROVE  LET m == Len(shebang) + Len(header) + 1
             start == HeaderStart(after, ext)
             end == HeaderEnd(after, ext, start)
         IN /\ start = Len(shebang) + 1
            /\ end \in m + 1 .. Len(after) + 1
            /\ \A i \in m .. end - 1 : IsEmptyOrEmptyComment(after[i], ext)
<1> DEFINE b == Len(shebang)
           h == Len(header)
           m == b + h + 1
           n == Len(after)
<1>1. b \in Nat /\ h \in Nat /\ m \in Nat /\ n \in Nat /\ DOMAIN after = 1 .. n /\ h >= 2 /\ m <= n
  <2>1. h >= 2
    BY DEF Heads
  <2>2. n \in Nat /\ DOMAIN after = 1 .. n
    OBVIOUS
  <2>3. b \in Nat /\ h \in Nat /\ m <= n
    OBVIOUS
  <2> HIDE DEF b, h, n
  <2> QED
    BY <2>1, <2>2, <2>3
<1>2. \A i \in 1 .. b : IsCommentLine(after[i], ext) /\ ~Says(after[i])
  BY <1>1 DEF Made
<1>3. ASSUME NEW i \in b + 1 .. m - 1
      PROVE  IsCommentLine(after[i], ext) /\ (i < m - 1 => ~NamesLicence(after[i]))
  <2>1. i - b \in 1 .. h /\ b + (i - b) = i
    BY <1>1
  <2>2. after[i] = header[i - b]
    BY <2>1 DEF Made
  <2>3. IsCommentLine(header[i - b], ext)
    BY <2>1 DEF Heads
  <2>4. i < m - 1 => i - b \in 1 .. h - 1
    BY <1>1, <2>1
  <2>5. i < m - 1 => ~NamesLicence(header[i - b])
    BY <2>4 DEF Heads
  <2> QED
    BY <2>2, <2>3, <2>5
<1>4. NamesCopyright(after[b + 1])
  <2>1. after[b + 1] = header[1]
    BY <1>1 DEF Made
  <2> QED
    BY <2>1 DEF Heads, NamesCopyright
<1>5. after[m - 1].says = "apache" /\ after[m] = Blank
  <2>1. after[b + h] = header[h] /\ m - 1 = b + h
    BY <1>1 DEF Made
  <2> QED
    BY <1>1, <2>1 DEF Heads, Made
<1>6. IsEmptyOrEmptyComment(Blank, ext)
  BY DEF IsEmptyOrEmptyComment, Blank
<1> HIDE DEF b, h, m, n
<1>7. ASSUME NEW i \in 1 .. m PROVE ~IsCode(after[i], ext)
  <2>1. i \in 1 .. b \/ i \in b + 1 .. m - 1 \/ i = m
    BY <1>1
  <2>2. i \in 1 .. b \/ i \in b + 1 .. m - 1 => IsCommentLine(after[i], ext)
    BY <1>2, <1>3
  <2>3. IsBlank(after[m])
    <3>1. IsBlank(Blank)
      BY DEF IsBlank, Blank
    <3> QED
      BY <1>5, <3>1
  <2> QED
    BY <2>1, <2>2, <2>3 DEF IsCode
<1> DEFINE Sayers == {i \in DOMAIN after :
             /\ IsCommentLine(after[i], ext)
             /\ NamesCopyright(after[i]) \/ NamesLicence(after[i])
             /\ \A j \in 1 .. i - 1 : ~IsCode(after[j], ext)}
<1>8. HeaderStart(after, ext) = b + 1
  <2>1. Sayers \in SUBSET Nat /\ HeaderStart(after, ext) = FirstOr(Sayers, 0)
    BY <1>1 DEF HeaderStart
  <2>2. b + 1 \in Sayers
    <3>1. b + 1 \in 1 .. n /\ IsCommentLine(after[b + 1], ext)
      BY <1>1, <1>3 DEF m
    <3>2. \A j \in 1 .. b + 1 - 1 : ~IsCode(after[j], ext)
      BY <1>1, <1>7 DEF m
    <3> QED
      BY <1>1, <1>4, <3>1, <3>2
  <2>3. \A i \in Sayers : i >= b + 1
    BY <1>1, <1>2 DEF Says
  <2> HIDE DEF Sayers
  <2>4. FirstOr(Sayers, 0) \in Sayers /\ FirstOr(Sayers, 0) <= b + 1
    BY <2>1, <2>2, FirstLeast
  <2>5. FirstOr(Sayers, 0) >= b + 1 /\ FirstOr(Sayers, 0) \in Nat
    BY <2>1, <2>3, <2>4
  <2> QED
    BY <1>1, <2>1, <2>4, <2>5
<1> DEFINE Enders == {i \in b + 1 + 1 .. Len(after) :
             \/ IsCode(after[i], ext)
             \/ /\ ~IsEmptyOrEmptyComment(after[i], ext)
                /\ \E j \in b + 1 + 1 .. i - 1 : NamesLicence(after[j])}
           end == HeaderEnd(after, ext, b + 1)
<1>9. Enders \in SUBSET Nat /\ end = FirstOr(Enders, n + 1)
  BY <1>1 DEF HeaderEnd, n
<1>10. \A i \in Enders : i \in m + 1 .. n
  <2> SUFFICES ASSUME NEW i \in Enders, i <= m PROVE FALSE
    BY <1>1, <1>9 DEF n
  <2>1. i \in 1 .. m /\ i \in Nat /\ i >= b + 2
    BY <1>1, <1>9
  <2>2. ~IsEmptyOrEmptyComment(after[i], ext)
    BY <1>7, <2>1
  <2>3. i # m
    BY <1>5, <1>6, <2>2
  <2>4. PICK j \in b + 2 .. i - 1 : NamesLicence(after[j])
    BY <1>1, <1>7, <2>1
  <2>5. j \in b + 1 .. m - 1 /\ j < m - 1
    BY <1>1, <2>1, <2>3, <2>4
  <2> QED
    BY <1>3, <2>4, <2>5
<1>11. end \in m + 1 .. n + 1 /\ \A i \in Enders : end <= i
  <2> HIDE DEF Enders, end
  <2>1. CASE Enders = {}
    <3>1. end = n + 1
      BY <1>9, <2>1, FirstLeast
    <3> QED
      BY <1>1, <2>1, <3>1
  <2>2. CASE Enders # {}
    <3>1. end \in Enders /\ \A i \in Enders : end <= i
      BY <1>9, <2>2, FirstLeast
    <3> QED
      BY <1>1, <1>10, <3>1
  <2> QED
    BY <2>1, <2>2
<1>12. ASSUME NEW i \in m .. end - 1 PROVE IsEmptyOrEmptyComment(after[i], ext)
  <2> HIDE DEF end
  <2>1. CASE i = m
    BY <1>5, <1>6, <2>1
  <2>2. CASE i # m
    <3>1. i \in b + 1 + 1 .. Len(after) /\ i \notin Enders
      <4>1. i \in Nat /\ i >= m + 1 /\ i <= n /\ i < end /\ m >= b + 3
        BY <1>1, <1>11, <2>2 DEF m
      <4>2. i \notin Enders
        <5> HIDE DEF Enders
        <5> QED
          BY <1>1, <1>11, <4>1
      <4> QED
        BY <1>1, <4>1, <4>2 DEF n
    <3>2. NamesLicence(after[m - 1]) /\ m - 1 \in b + 1 + 1 .. i - 1
      <4>1. i > m /\ m >= b + 3 /\ i \in Nat
        BY <1>1, <1>11, <2>2 DEF m
      <4> QED
        BY <1>1, <1>5, <4>1 DEF NamesLicence
    <3> QED
      BY <3>1, <3>2
  <2> QED
    BY <2>1, <2>2
<1> QED
  BY <1>8, <1>11, <1>12 DEF b, h, m, n

\* Who is to have a header applied has it: CheckHeader, on what was made.
LEMMA MadeChecks ==
  ASSUME NEW after \in Seq(Line), NEW shebang \in Seq(Line), NEW header, NEW before, NEW kept, NEW ext, NEW status,
         status \in {"new", "modified"}, Len(shebang) \in {0, 1},
         Len(shebang) = 1 => IsCommentLine(shebang[1], ext) /\ ~Says(shebang[1]),
         Heads(header, ext, status), Len(header) \in Nat,
         Made(after, shebang, header, before, kept), Len(shebang) + Len(header) + 1 <= Len(after)
  PROVE  CheckHeader(after, ext, status)
<1> DEFINE b == Len(shebang)
           h == Len(header)
           end == HeaderEnd(after, ext, b + 1)
           lines == b + 1 .. end - 1
           info == ParseFileHeader(after, ext)
<1>1. /\ HeaderStart(after, ext) = b + 1
      /\ end \in b + h + 2 .. Len(after) + 1
      /\ \A i \in b + h + 1 .. end - 1 : IsEmptyOrEmptyComment(after[i], ext)
  BY HeaderFound
<1>2. b \in Nat /\ h \in Nat /\ h >= 2
  <2>1. h >= 2
    BY DEF Heads
  <2> QED
    BY <2>1
<1>3. after[b + 1] = header[1] /\ after[b + 2] = header[2] /\ after[b + h] = header[h]
  <2>1. 1 \in 1 .. h /\ 2 \in 1 .. h /\ h \in 1 .. h
    BY <1>2
  <2>2. \A i \in 1 .. h : after[b + i] = header[i]
    BY DEF Made
  <2> HIDE DEF b, h
  <2> QED
    BY <2>1, <2>2
<1>4. \A i \in b + 1 .. b + h - 1 : ~NamesLicence(after[i])
  <2> TAKE i \in b + 1 .. b + h - 1
  <2>1. i - b \in 1 .. h - 1 /\ b + (i - b) = i /\ i - b \in 1 .. h
    BY <1>2
  <2>2. after[b + (i - b)] = header[i - b]
    BY <2>1 DEF Made
  <2>3. ~NamesLicence(header[i - b])
    BY <2>1 DEF Heads
  <2> QED
    BY <2>1, <2>2, <2>3
<1>5. /\ header[h].says = "apache"
      /\ status = "new" => header[1].says = "ours"
      /\ status = "modified" => header[1].says = "theirs" /\ header[2].says = "also ours"
  BY DEF Heads
<1>6. info = [has |-> TRUE,
              copyright |-> IF FirstOr({i \in lines : NamesCopyright(after[i])}, 0) = 0 THEN ""
                            ELSE after[FirstOr({i \in lines : NamesCopyright(after[i])}, 0)].says,
              licence |-> IF FirstOr({i \in lines \ {b + 1} : NamesLicence(after[i])}, 0) = 0 THEN ""
                          ELSE after[FirstOr({i \in lines \ {b + 1} : NamesLicence(after[i])}, 0)].says,
              newRelic |-> \E i \in lines : NamesNewRelic(after[i]),
              contentStart |-> end]
  <2>1. b + 1 # 0
    BY <1>2
  <2> QED
    BY <1>1, <2>1 DEF ParseFileHeader
<1> HIDE DEF b, h, end
<1>7. b + 1 \in lines /\ b + 2 \in lines /\ b + h \in lines /\ b + h # b + 1 /\ b + h # 0
  BY <1>1, <1>2
<1>8. NamesCopyright(after[b + 1])
  BY <1>3, <1>5 DEF NamesCopyright
<1>9. FirstOr({i \in lines : NamesCopyright(after[i])}, 0) = b + 1
  <2> DEFINE S == {i \in lines : NamesCopyright(after[i])}
  <2>1. S \in SUBSET Nat /\ b + 1 \in S /\ \A i \in S : i >= b + 1
    BY <1>1, <1>2, <1>7, <1>8
  <2> HIDE DEF S
  <2>2. FirstOr(S, 0) \in S /\ FirstOr(S, 0) <= b + 1
    BY <2>1, FirstLeast
  <2>3. FirstOr(S, 0) >= b + 1 /\ FirstOr(S, 0) \in Nat
    BY <2>1, <2>2
  <2>4. FirstOr(S, 0) = b + 1
    BY <1>2, <2>2, <2>3
  <2> QED
    BY <2>4 DEF S
<1>10. FirstOr({i \in lines \ {b + 1} : NamesLicence(after[i])}, 0) = b + h
  <2> DEFINE S == {i \in lines \ {b + 1} : NamesLicence(after[i])}
  <2>1. S \in SUBSET Nat /\ \A i \in S : i >= b + h
    BY <1>1, <1>2, <1>4
  <2>2. b + h \in S
    BY <1>3, <1>5, <1>7 DEF NamesLicence
  <2> HIDE DEF S
  <2>3. FirstOr(S, 0) \in S /\ FirstOr(S, 0) <= b + h
    BY <2>1, <2>2, FirstLeast
  <2>4. FirstOr(S, 0) >= b + h /\ FirstOr(S, 0) \in Nat
    BY <2>1, <2>3
  <2>5. FirstOr(S, 0) = b + h
    BY <1>2, <2>3, <2>4
  <2> QED
    BY <2>5 DEF S
<1>11. status = "modified" => \E i \in lines : NamesNewRelic(after[i])
  BY <1>3, <1>5, <1>7 DEF NamesNewRelic
<1>12. /\ info.has /\ info.copyright = header[1].says /\ info.licence = "apache"
       /\ status = "modified" => info.newRelic
  <2>1. b + 1 # 0
    BY <1>2
  <2> HIDE DEF info, lines
  <2> QED
    BY <1>3, <1>5, <1>6, <1>7, <1>9, <1>10, <1>11, <2>1
<1> HIDE DEF info
<1>13. CASE status = "new"
  BY <1>5, <1>12, <1>13 DEF CheckHeader, info
<1>14. CASE status = "modified"
  BY <1>5, <1>12, <1>14 DEF CheckHeader, info
<1> QED
  BY <1>13, <1>14

\* Where ParseFileHeader says the content starts: no code is before it, and no
\* comment that says something after a line that has named a licence in the header.
LEMMA ContentIs ==
  ASSUME NEW t \in Seq(Line), NEW ext,
         NEW i \in 1 .. Len(t), i < ParseFileHeader(t, ext).contentStart
  PROVE  /\ ~IsCode(t[i], ext)
         /\ (\E h, j \in 1 .. i - 1 : h < j /\ Says(t[h]) /\ NamesLicence(t[j]))
              => IsEmptyOrEmptyComment(t[i], ext)
<1> DEFINE Sayers == {k \in DOMAIN t :
             /\ IsCommentLine(t[k], ext)
             /\ NamesCopyright(t[k]) \/ NamesLicence(t[k])
             /\ \A j \in 1 .. k - 1 : ~IsCode(t[j], ext)}
           Codes == {k \in DOMAIN t : IsCode(t[k], ext)}
           start == HeaderStart(t, ext)
           Enders == {k \in start + 1 .. Len(t) :
             \/ IsCode(t[k], ext)
             \/ /\ ~IsEmptyOrEmptyComment(t[k], ext)
                /\ \E j \in start + 1 .. k - 1 : NamesLicence(t[j])}
           end == HeaderEnd(t, ext, start)
<1>1. /\ Len(t) \in Nat /\ DOMAIN t = 1 .. Len(t)
      /\ Sayers \in SUBSET (1 .. Len(t)) /\ Codes \in SUBSET (1 .. Len(t))
  OBVIOUS
<1>2. start = FirstOr(Sayers, 0)
  BY DEF HeaderStart
<1>3. \A k \in 1 .. Len(t) : IsCode(t[k], ext) <=> k \in Codes
  BY <1>1
<1>4. \A k \in 1 .. Len(t) : Says(t[k]) /\ (\A j \in 1 .. k : j \notin Codes) => k \in Sayers
  <2> TAKE k \in 1 .. Len(t)
  <2> SUFFICES ASSUME Says(t[k]), \A j \in 1 .. k : j \notin Codes PROVE k \in Sayers
    OBVIOUS
  <2>1. \A j \in 1 .. k : ~IsCode(t[j], ext)
    BY <1>1
  <2>2. IsCommentLine(t[k], ext)
    <3>1. ~IsBlank(t[k])
      BY DEF Says, NamesCopyright, NamesLicence, IsBlank
    <3> QED
      BY <2>1, <3>1 DEF IsCode
  <2> QED
    BY <1>1, <2>1, <2>2 DEF Says
<1>5. \A k \in Sayers : k \notin Codes /\ \A j \in 1 .. k - 1 : j \notin Codes
  BY <1>1 DEF IsCode
<1>6. Sayers \in SUBSET Nat /\ Codes \in SUBSET Nat
  BY <1>1
<1>7. CASE Sayers = {}
  <2>1. start = 0
    BY <1>2, <1>6, <1>7, FirstLeast
  <2>2. ParseFileHeader(t, ext).contentStart = FirstOr(Codes, 0)
    BY <2>1 DEF ParseFileHeader
  <2> HIDE DEF Sayers, Codes
  <2>3. i < FirstOr(Codes, 0)
    BY <2>2
  <2>4. Codes # {} /\ \A k \in Codes : FirstOr(Codes, 0) <= k
    BY <1>6, <2>3, FirstLeast
  <2>5. FirstOr(Codes, 0) \in Nat
    BY <1>6, <2>4, FirstLeast
  <2>6. \A k \in 1 .. i : k \notin Codes
    BY <2>3, <2>4, <2>5
  <2>7. ASSUME NEW h \in 1 .. i - 1 PROVE ~Says(t[h])
    BY <1>1, <1>4, <1>7, <2>6
  <2> QED
    BY <1>1, <1>3, <2>6, <2>7
<1>8. CASE Sayers # {}
  <2>1. start \in Sayers /\ \A k \in Sayers : start <= k
    <3> HIDE DEF Sayers
    <3> QED
      BY <1>2, <1>6, <1>8, FirstLeast
  <2>2. start \in 1 .. Len(t)
    BY <1>1, <2>1
  <2>3. ParseFileHeader(t, ext).contentStart = end
    BY <2>2 DEF ParseFileHeader
  <2>4. Enders \in SUBSET Nat /\ end = FirstOr(Enders, Len(t) + 1)
    BY <1>1, <2>2 DEF HeaderEnd
  <2>5. i < end
    BY <2>3
  <2> HIDE DEF Sayers, Codes, start, end
  <2>6. i \notin Enders
    <3> HIDE DEF Enders
    <3>1. Enders # {} => end \in Nat /\ \A k \in Enders : end <= k
      BY <2>4, FirstLeast
    <3> QED
      BY <2>5, <3>1
  <2>7. \A k \in 1 .. i : k \notin Enders
    <3> HIDE DEF Enders
    <3>1. Enders # {} => end \in Nat /\ \A k \in Enders : end <= k
      BY <2>4, FirstLeast
    <3> QED
      BY <2>5, <3>1
  <2>8. \A k \in 1 .. i : k \notin Codes
    <3> TAKE k \in 1 .. i
    <3>1. CASE k <= start
      BY <1>5, <2>1, <2>2, <3>1
    <3>2. CASE k > start
      <4>1. k \in start + 1 .. Len(t)
        BY <1>1, <2>2, <3>2
      <4> QED
        BY <1>1, <1>3, <2>7, <4>1
    <3> QED
      BY <2>2, <3>1, <3>2
  <2>9. ASSUME NEW h \in 1 .. i - 1, NEW j \in 1 .. i - 1, h < j, Says(t[h]), NamesLicence(t[j])
        PROVE  IsEmptyOrEmptyComment(t[i], ext)
    <3>1. h \in Sayers
      BY <1>1, <1>4, <2>8, <2>9
    <3>2. start <= h
      BY <2>1, <3>1
    <3>3. j \in start + 1 .. i - 1 /\ i \in start + 1 .. Len(t)
      BY <1>1, <2>2, <2>9, <3>2
    <3> QED
      BY <2>6, <2>9, <3>3
  <2>10. ~IsCode(t[i], ext)
    BY <1>1, <1>3, <2>8
  <2> QED
    BY <2>9, <2>10
<1> QED
  BY <1>7, <1>8

\* The first line ApplyHeader keeps of a text
KeptFrom(before, ext) ==
  LET start == ParseFileHeader(before, ext).contentStart
      b == Len(HashBang(before))
  IN IF HasLicenseHeader(before) /\ start > b + 1 THEN start ELSE b + 1

\* It is a line of the text, or the one after the last.
LEMMA KeptIs ==
  ASSUME NEW t \in Seq(Line), NEW ext
  PROVE  KeptFrom(t, ext) \in 1 .. Len(t) + 1
<1> DEFINE Sayers == {k \in DOMAIN t :
             /\ IsCommentLine(t[k], ext)
             /\ NamesCopyright(t[k]) \/ NamesLicence(t[k])
             /\ \A j \in 1 .. k - 1 : ~IsCode(t[j], ext)}
           Codes == {k \in DOMAIN t : IsCode(t[k], ext)}
           start == HeaderStart(t, ext)
           Enders == {k \in start + 1 .. Len(t) :
             \/ IsCode(t[k], ext)
             \/ /\ ~IsEmptyOrEmptyComment(t[k], ext)
                /\ \E j \in start + 1 .. k - 1 : NamesLicence(t[j])}
<1>1. Len(t) \in Nat /\ DOMAIN t = 1 .. Len(t) /\ Sayers \in SUBSET Nat /\ Codes \in SUBSET (1 .. Len(t))
  OBVIOUS
<1>2. start \in Nat
  <2>1. start = FirstOr(Sayers, 0)
    BY DEF HeaderStart
  <2> HIDE DEF Sayers, start
  <2> QED
    BY <1>1, <2>1, FirstIs
<1>3. HeaderEnd(t, ext, start) \in 1 .. Len(t) + 1
  <2>1. HeaderEnd(t, ext, start) = FirstOr(Enders, Len(t) + 1)
    BY DEF HeaderEnd
  <2>2. Enders \in SUBSET Nat /\ \A k \in Enders : k \in 1 .. Len(t)
    BY <1>1, <1>2
  <2> HIDE DEF Enders, start
  <2>3. FirstOr(Enders, Len(t) + 1) = Len(t) + 1 \/ FirstOr(Enders, Len(t) + 1) \in Enders
    BY <1>1, <2>2, FirstIs
  <2>4. FirstOr(Enders, Len(t) + 1) = Len(t) + 1 \/ FirstOr(Enders, Len(t) + 1) \in 1 .. Len(t)
    BY <2>2, <2>3
  <2>5. HeaderEnd(t, ext, start) = Len(t) + 1 \/ HeaderEnd(t, ext, start) \in 1 .. Len(t)
    BY <2>1, <2>4
  <2> QED
    BY <1>1, <2>5
<1>4. FirstOr(Codes, 0) \in 0 .. Len(t)
  <2> HIDE DEF Codes
  <2>1. Codes \in SUBSET Nat
    BY <1>1
  <2>2. FirstOr(Codes, 0) = 0 \/ FirstOr(Codes, 0) \in Codes
    BY <2>1, FirstIs
  <2>3. FirstOr(Codes, 0) = 0 \/ FirstOr(Codes, 0) \in 1 .. Len(t)
    BY <1>1, <2>2
  <2> QED
    BY <1>1, <2>3
<1>5. ParseFileHeader(t, ext).contentStart \in 0 .. Len(t) + 1
  <2>1. ParseFileHeader(t, ext).contentStart \in {FirstOr(Codes, 0), HeaderEnd(t, ext, start)}
    BY DEF ParseFileHeader
  <2> HIDE DEF Codes, start
  <2> QED
    BY <1>1, <1>3, <1>4, <2>1
<1>6. Len(HashBang(t)) \in {0, 1} /\ Len(HashBang(t)) <= Len(t)
  BY ShebangIs
<1> QED
  BY <1>1, <1>5, <1>6 DEF KeptFrom

\* What a fix owes is in what it keeps.
LEMMA OwedIsKept ==
  ASSUME NEW t \in Seq(Line), NEW ext, Opens(t, ext)
  PROVE  \E first \in 1 .. Len(t) + 1 :
           first >= KeptFrom(t, ext) /\ Owed(t, ext) = SubSeq(t, first, Len(t))
<1> DEFINE b == Len(HashBang(t))
           kept == KeptFrom(t, ext)
           says(i) == NamesCopyright(t[i]) \/ NamesLicence(t[i])
           From == {i \in DOMAIN t :
                      \/ IsCode(t[i], ext)
                      \/ /\ ~IsEmptyOrEmptyComment(t[i], ext)
                         /\ \E h, j \in 1 .. i - 1 : h < j /\ says(h) /\ NamesLicence(t[j])}
           first == IF \E i \in DOMAIN t : says(i) THEN FirstOr(From, Len(t) + 1) ELSE b + 1
<1>1. Owed(t, ext) = SubSeq(t, first, Len(t))
  BY DEF Owed
<1>2. /\ Len(t) \in Nat /\ DOMAIN t = 1 .. Len(t) /\ b \in {0, 1} /\ b <= Len(t)
      /\ kept \in 1 .. Len(t) + 1
  BY ShebangIs, KeptIs
<1>3. CASE ~\E i \in DOMAIN t : says(i)
  <2>1. ~HasLicenseHeader(t)
    BY <1>3 DEF HasLicenseHeader
  <2>2. kept = b + 1
    BY <2>1 DEF KeptFrom
  <2>3. first = b + 1
    BY <1>3
  <2> HIDE DEF first, b, kept
  <2>4. first \in 1 .. Len(t) + 1 /\ first >= kept
    BY <1>2, <2>2, <2>3
  <2> QED
    BY <1>1, <2>4 DEF kept
<1>4. CASE \E i \in DOMAIN t : says(i)
  <2>1. first = FirstOr(From, Len(t) + 1)
    BY <1>4
  <2>2. ASSUME NEW i \in From PROVE i >= kept
    <3>1. i \in 1 .. Len(t)
      BY <1>2
    <3>2. \/ IsCode(t[i], ext)
          \/ /\ ~IsEmptyOrEmptyComment(t[i], ext)
             /\ \E h, j \in 1 .. i - 1 : h < j /\ Says(t[h]) /\ NamesLicence(t[j])
      BY DEF Says
    <3>3. ~(i < ParseFileHeader(t, ext).contentStart)
      BY <3>1, <3>2, ContentIs
    <3>4. i >= b + 1
      <4>1. b = 1 => IsCommentLine(t[1], ext)
        BY ShebangIs DEF Opens
      <4>2. b = 1 => i # 1
        BY <3>2, <4>1 DEF IsCode
      <4>3. b = 0 \/ b = 1
        BY <1>2
      <4> HIDE DEF b
      <4> QED
        BY <1>2, <3>1, <4>2, <4>3
    <3>5. ParseFileHeader(t, ext).contentStart \in Nat
      BY ContentStartIs
    <3>6. kept \in {ParseFileHeader(t, ext).contentStart, b + 1}
      BY DEF KeptFrom
    <3> HIDE DEF kept, b, From
    <3> QED
      BY <1>2, <3>1, <3>3, <3>4, <3>5, <3>6
  <2>3. From \in SUBSET Nat /\ From \subseteq 1 .. Len(t)
    BY <1>2
  <2> HIDE DEF From, first, kept
  <2>4. first = Len(t) + 1 \/ first \in From
    BY <1>2, <2>1, <2>3, FirstIs
  <2>5. first \in 1 .. Len(t) + 1 /\ first >= kept
    <3>1. CASE first = Len(t) + 1
      BY <1>2, <3>1
    <3>2. CASE first \in From
      BY <1>2, <2>2, <2>3, <3>2
    <3> QED
      BY <2>4, <3>1, <3>2
  <2> QED
    BY <1>1, <2>5 DEF kept
<1> QED
  BY <1>3, <1>4

\* What is kept ends what is made, and so does every end of it.
LEMMA EndStays ==
  ASSUME NEW after \in Seq(Line), NEW shebang \in Seq(Line), NEW header \in Seq(Line), NEW before \in Seq(Line),
         NEW kept \in 1 .. Len(before) + 1, Made(after, shebang, header, before, kept),
         NEW first \in 1 .. Len(before) + 1, first >= kept
  PROVE  IsSuffixOf(SubSeq(before, first, Len(before)), after)
<1> DEFINE s == SubSeq(before, first, Len(before))
           m == Len(shebang) + Len(header) + 1
           from == Len(after) - Len(s) + 1
           end == SubSeq(after, from, Len(after))
<1>1. Len(before) \in Nat /\ Len(after) \in Nat /\ m \in Nat /\ m >= 1
  OBVIOUS
<1>2. /\ s \in Seq(Line) /\ Len(s) = Len(before) - first + 1
      /\ \A i \in 1 .. Len(s) : s[i] = before[first + i - 1]
  <2>1. first \in Nat /\ first >= 1
    OBVIOUS
  <2> QED
    BY <1>1, <2>1, SubSeqProperties
<1>3. /\ Len(after) = m + Len(before) - kept + 1
      /\ \A i \in m + 1 .. Len(after) : after[i] = before[kept + i - m - 1]
  BY DEF Made
<1> HIDE DEF s, m
<1>4. from \in Nat /\ from >= m + 1 /\ from = m + first - kept + 1 /\ Len(s) \in Nat /\ Len(s) <= Len(after)
  BY <1>1, <1>2, <1>3
<1>5. /\ end \in Seq(Line) /\ Len(end) = Len(after) - from + 1
      /\ \A i \in 1 .. Len(end) : end[i] = after[from + i - 1]
  <2>1. from \in 1 .. Len(after) + 1
    BY <1>1, <1>4
  <2> HIDE DEF from
  <2> QED
    BY <1>1, <2>1, SubSeqProperties
<1>6. Len(end) = Len(s)
  BY <1>1, <1>4, <1>5
<1>7. ASSUME NEW i \in 1 .. Len(s) PROVE end[i] = s[i]
  <2>1. from + i - 1 \in m + 1 .. Len(after) /\ kept + (from + i - 1) - m - 1 = first + i - 1
    <3>1. kept \in Nat /\ first \in Nat /\ i \in Nat /\ i >= 1 /\ i <= Len(before) - first + 1
      BY <1>1, <1>2, <1>4
    <3> HIDE DEF from
    <3> QED
      BY <1>1, <1>3, <1>4, <3>1
  <2>2. end[i] = after[from + i - 1]
    BY <1>5, <1>6
  <2>3. after[from + i - 1] = before[first + i - 1]
    BY <1>3, <2>1
  <2> QED
    BY <1>2, <2>2, <2>3
<1>8. end = s
  <2> HIDE DEF end
  <2> QED
    BY <1>2, <1>5, <1>6, <1>7, SeqEqual
<1> QED
  BY <1>4, <1>8 DEF IsSuffixOf, s

\* The shebang of what is made is that of the text.
LEMMA SameShebang ==
  ASSUME NEW after \in Seq(Line), NEW before \in Seq(Line), NEW header \in Seq(Line), NEW kept, NEW ext,
         NEW status, status \in {"new", "modified"}, Heads(header, ext, status),
         Made(after, HashBang(before), header, before, kept), Len(after) >= 1
  PROVE  HashBang(after) = HashBang(before)
<1> DEFINE b == Len(HashBang(before))
<1>1. /\ HashBang(before) \in Seq(Line) /\ b \in {0, 1}
      /\ b = 1 => HashBang(before)[1] = before[1] /\ before[1].says = "shebang"
      /\ b = 1 => HashBang(before) = <<before[1]>>
  BY ShebangIs DEF HashBang
<1>2. CASE b = 1
  <2>1. after[1] = before[1]
    BY <1>1, <1>2 DEF Made
  <2>2. after # <<>>
    <3>1. Len(after) >= 1
      OBVIOUS
    <3> QED
      BY <3>1
  <2> QED
    BY <1>1, <1>2, <2>1, <2>2 DEF HashBang
<1>3. CASE b = 0
  <2>1. HashBang(before) = <<>>
    BY <1>1, <1>3
  <2>2. header[1].says \in {"ours", "theirs"} /\ Len(header) >= 2
    BY DEF Heads
  <2>3. \A i \in 1 .. Len(header) : after[b + i] = header[i]
    BY DEF Made
  <2>4. after[1] = header[1]
    <3>1. 1 \in 1 .. Len(header) /\ b + 1 = 1
      BY <1>3, <2>2
    <3> HIDE DEF b
    <3> QED
      BY <2>3, <3>1
  <2>5. after[1].says # "shebang"
    BY <2>2, <2>4
  <2> QED
    BY <2>1, <2>5 DEF HashBang
<1> QED
  BY <1>1, <1>2, <1>3

\* A second fix of what is made takes away only empty lines.
LEMMA AgainFewer ==
  ASSUME NEW after \in Seq(Line), ~IsGeneratedFile(after),
         NEW before \in Seq(Line), NEW header \in Seq(Line), NEW kept, NEW ext, NEW status,
         status \in {"new", "modified"}, Heads(header, ext, status), Opens(before, ext),
         Made(after, HashBang(before), header, before, kept),
         Len(HashBang(before)) + Len(header) + 1 <= Len(after)
  PROVE  Scanned(after) = Len(after) =>
           FewerEmpties(after, ApplyHeader(after, ParseFileHeader(after, ext), header), ext)
<1> DEFINE sb == HashBang(before)
           b == Len(sb)
           m == b + Len(header) + 1
           end == HeaderEnd(after, ext, b + 1)
           rest == SubSeq(after, end, Len(after))
           top == sb \o header \o <<Blank>>
           again == ApplyHeader(after, ParseFileHeader(after, ext), header)
<1>1. /\ sb \in Seq(Line) /\ b \in {0, 1}
      /\ b = 1 => sb[1] = before[1] /\ sb # <<>> /\ ~Says(before[1])
  BY ShebangIs
<1>2. b = 1 => IsCommentLine(sb[1], ext) /\ ~Says(sb[1])
  BY <1>1 DEF Opens
<1>3. Len(header) \in Nat /\ Len(header) >= 2 /\ Len(after) \in Nat /\ DOMAIN after = 1 .. Len(after)
  <2>1. Len(header) >= 2
    BY DEF Heads
  <2> QED
    BY <2>1
<1>4. /\ HeaderStart(after, ext) = b + 1
      /\ end \in m + 1 .. Len(after) + 1
      /\ \A i \in m .. end - 1 : IsEmptyOrEmptyComment(after[i], ext)
  <2> HIDE DEF sb
  <2>1. Made(after, sb, header, before, kept) /\ b + Len(header) + 1 <= Len(after)
    BY DEF sb
  <2> QED
    BY <1>1, <1>2, <1>3, <2>1, HeaderFound
<1>5. HashBang(after) = sb
  <2>1. Len(after) >= 1
    BY <1>1, <1>3
  <2> QED
    BY <2>1, SameShebang
<1>6. HasLicenseHeader(after)
  <2>1. after[b + 1] = header[1] /\ NamesCopyright(header[1])
    <3>1. 1 \in 1 .. Len(header) /\ header[1].says \in {"ours", "theirs"}
      <4>1. header[1].says \in {"ours", "theirs"}
        BY DEF Heads
      <4> QED
        BY <1>3, <4>1
    <3>2. \A i \in 1 .. Len(header) : after[b + i] = header[i]
      BY DEF Made
    <3> HIDE DEF b
    <3> QED
      BY <3>1, <3>2 DEF NamesCopyright
  <2>2. b + 1 \in DOMAIN after /\ b + 1 <= HeadLines
    <3>1. (b = 0 \/ b = 1) /\ b + Len(header) + 1 <= Len(after)
      BY <1>1
    <3> HIDE DEF b
    <3> QED
      BY <1>3, <3>1, HeadAssumption
  <2> QED
    BY <2>1, <2>2 DEF HasLicenseHeader
<1>7. ParseFileHeader(after, ext).contentStart = end
  <2>1. b + 1 # 0
    BY <1>1
  <2> QED
    BY <1>4, <2>1 DEF ParseFileHeader
<1> HIDE DEF sb
<1> SUFFICES ASSUME Scanned(after) = Len(after) PROVE FewerEmpties(after, again, ext)
  OBVIOUS
<1>8. again = top \o rest
  <2>1. end > b + 1
    <3> HIDE DEF end
    <3> QED
      BY <1>1, <1>3, <1>4
  <2> QED
    BY <1>5, <1>6, <1>7, <2>1 DEF ApplyHeader
<1>9. top = SubSeq(after, 1, m)
  <2>1. /\ top \in Seq(Line) /\ Len(top) = m
        /\ \A i \in 1 .. m : top[i] = after[i]
    <3> DEFINE one == sb \o header
    <3>1. <<Blank>> \in Seq(Line) /\ Len(<<Blank>>) = 1 /\ <<Blank>>[1] = Blank
      <4>1. Blank \in Line
        BY DEF Blank, Line
      <4> QED
        BY <4>1
    <3>2. /\ one \in Seq(Line) /\ Len(one) = b + Len(header)
          /\ \A i \in 1 .. Len(one) : one[i] = IF i <= b THEN sb[i] ELSE header[i - b]
      BY <1>1, ConcatProperties
    <3>3. /\ \A i \in 1 .. b : after[i] = sb[i]
          /\ \A i \in 1 .. Len(header) : after[b + i] = header[i]
          /\ after[m] = Blank
      BY DEF Made, sb
    <3> HIDE DEF one
    <3>4. /\ one \o <<Blank>> \in Seq(Line) /\ Len(one \o <<Blank>>) = Len(one) + 1
          /\ \A i \in 1 .. Len(one \o <<Blank>>) :
               (one \o <<Blank>>)[i] = IF i <= Len(one) THEN one[i] ELSE <<Blank>>[i - Len(one)]
      BY <3>1, <3>2, ConcatProperties
    <3>5. top = one \o <<Blank>>
      BY DEF one
    <3>6. b \in Nat
      BY <1>1
    <3> HIDE DEF top, b
    <3>7. Len(top) = m
      BY <1>3, <3>2, <3>4, <3>5, <3>6
    <3>8. ASSUME NEW i \in 1 .. m PROVE top[i] = after[i]
      <4>1. i \in 1 .. b \/ i \in b + 1 .. m - 1 \/ i = m
        BY <1>3, <3>6
      <4>2. CASE i \in 1 .. b
        <5>1. top[i] = one[i] /\ one[i] = sb[i]
          BY <1>3, <3>2, <3>4, <3>5, <3>6, <4>2
        <5> QED
          BY <3>3, <4>2, <5>1
      <4>3. CASE i \in b + 1 .. m - 1
        <5>1. top[i] = one[i] /\ one[i] = header[i - b]
          BY <1>3, <3>2, <3>4, <3>5, <3>6, <4>3
        <5>2. i - b \in 1 .. Len(header) /\ b + (i - b) = i
          BY <1>3, <3>6, <4>3
        <5>3. after[b + (i - b)] = header[i - b]
          BY <3>3, <5>2
        <5> QED
          BY <5>1, <5>2, <5>3
      <4>4. CASE i = m
        <5>1. ~(i <= Len(one)) /\ i - Len(one) = 1 /\ i \in 1 .. Len(top)
          BY <1>3, <3>2, <3>6, <3>7, <4>4
        <5>2. top[i] = <<Blank>>[1]
          BY <3>4, <3>5, <5>1
        <5> QED
          BY <3>1, <3>3, <4>4, <5>2
      <4> QED
        BY <4>1, <4>2, <4>3, <4>4
    <3> QED
      BY <3>4, <3>5, <3>7, <3>8
  <2>2. m \in Nat /\ m >= 1 /\ m <= Len(after)
    BY <1>1, <1>3 DEF sb
  <2> HIDE DEF m, top
  <2>3. /\ SubSeq(after, 1, m) \in Seq(Line) /\ Len(SubSeq(after, 1, m)) = m
        /\ \A i \in 1 .. m : SubSeq(after, 1, m)[i] = after[i]
    BY <1>3, <2>2, SubSeqProperties
  <2> QED
    BY <2>1, <2>3, SeqEqual
<1>10. again = SubSeq(after, 1, m) \o SubSeq(after, end, Len(after))
  BY <1>8, <1>9
<1>11. m \in 0 .. Len(after) /\ end \in 1 .. Len(after) + 1 /\ m < end
       /\ \A i \in m + 1 .. end - 1 : IsEmptyOrEmptyComment(after[i], ext)
  <2>1. m \in Nat /\ m <= Len(after)
    BY <1>1, <1>3 DEF sb
  <2> HIDE DEF m, end
  <2> QED
    BY <1>3, <1>4, <2>1
<1> HIDE DEF m, end, again
<1> QED
  BY <1>10, <1>11 DEF FewerEmpties, again

\* What --fix makes of a text of short lines, the three things at once.
LEMMA FixMakes ==
  ASSUME NEW before \in Seq(Short), NEW ext, NEW status \in {"modified", "new"}, Opens(before, ext)
  PROVE  LET H == GenerateHeader(status, ext)
             after == ApplyHeader(before, ParseFileHeader(before, ext), H)
         IN /\ CheckHeader(after, ext, status)
            /\ IsSuffixOf(Owed(before, ext), after)
            /\ FewerEmpties(after, ApplyHeader(after, ParseFileHeader(after, ext), H), ext)
<1> DEFINE H == GenerateHeader(status, ext)
           after == ApplyHeader(before, ParseFileHeader(before, ext), H)
           sb == HashBang(before)
           kept == KeptFrom(before, ext)
<1>1. Short \subseteq Harmless /\ Harmless \subseteq Line
  BY DEF Harmless, Short
<1>2. before \in Seq(Line) /\ H \in Seq(Short) /\ H \in Seq(Line) /\ Heads(H, ext, status)
  <2>1. before \in Seq(Harmless) /\ H \in Seq(Harmless)
    BY <1>1, HeaderIs
  <2> QED
    BY <1>1, <2>1, HeaderIs, HeaderHeads
<1>3. /\ sb \in Seq(Line) /\ Len(sb) \in {0, 1}
      /\ Len(sb) = 1 => sb[1] = before[1] /\ sb # <<>> /\ ~Says(before[1])
      /\ kept \in 1 .. Len(before) + 1
  BY <1>2, ShebangIs, KeptIs
<1>4. Len(sb) = 1 => IsCommentLine(sb[1], ext) /\ ~Says(sb[1])
  BY <1>3 DEF Opens
<1>5. after \in Seq(Short) /\ after \in Seq(Harmless) /\ after \in Seq(Line)
  <2>1. after \in Seq(Short)
    BY <1>2, AppliedIs
  <2> HIDE DEF after
  <2> QED
    BY <1>1, <2>1
<1>6. ~IsGeneratedFile(after)
  BY <1>5, HarmlessText
<1>7. after = sb \o H \o <<Blank>> \o SubSeq(before, kept, Len(before))
  <2>1. before \in Seq(Harmless)
    BY <1>1
  <2>2. ~IsGeneratedFile(before) /\ Scanned(before) = Len(before)
    BY <1>2, <2>1, HarmlessText, ScannedIs
  <2> QED
    BY <2>2 DEF ApplyHeader, KeptFrom
<1> HIDE DEF H, after, sb, kept
<1>8. Made(after, sb, H, before, kept)
  BY <1>2, <1>3, <1>7, AllMade
<1>9. Len(H) \in Nat /\ Len(sb) + Len(H) + 1 <= Len(after)
  <2>1. Len(after) = Len(sb) + Len(H) + 1 + Len(before) - kept + 1
    BY <1>8 DEF Made
  <2>2. Len(H) \in Nat /\ Len(before) \in Nat /\ Len(sb) \in Nat
    BY <1>2, <1>3
  <2> QED
    BY <1>3, <2>1, <2>2
<1>10. CheckHeader(after, ext, status)
  BY <1>2, <1>3, <1>4, <1>5, <1>8, <1>9, MadeChecks
<1>11. IsSuffixOf(Owed(before, ext), after)
  <2>1. PICK first \in 1 .. Len(before) + 1 : first >= kept /\ Owed(before, ext) = SubSeq(before, first, Len(before))
    BY <1>2, OwedIsKept DEF kept
  <2> QED
    BY <1>2, <1>3, <1>5, <1>8, <2>1, EndStays
<1>12. FewerEmpties(after, ApplyHeader(after, ParseFileHeader(after, ext), H), ext)
  <2>1. Scanned(after) = Len(after)
    BY <1>5, ScannedIs
  <2> QED
    BY <1>2, <1>5, <1>6, <1>8, <1>9, <2>1, AgainFewer DEF sb
<1> QED
  BY <1>10, <1>11, <1>12 DEF H, after

-----------------------------------------------------------------------------
\* A goroutine that ends adds its path to those that have ended.
LEMMA EndsOne ==
  ASSUME NEW S \in SUBSET Path, NEW where, NEW p \in Path, task \in [Path -> where], "done" \in where,
         task[p] # "done", Goto(p, "done")
  PROVE  Cardinality({q \in S : task'[q] = "done"}) =
           IF p \in S THEN Cardinality(Ended(S)) + 1 ELSE Cardinality(Ended(S))
<1>1. {q \in S : task'[q] = "done"} = IF p \in S THEN Ended(S) \cup {p} ELSE Ended(S)
  BY DEF Goto, Ended
<1>2. p \notin Ended(S) /\ IsFiniteSet(Ended(S))
  BY PathsFinite DEF Ended
<1> QED
  BY <1>1, <1>2, FS_AddElement

\* What depends on the run alone stays.
LEMMA RunStays ==
  ASSUME UNCHANGED run
  PROVE  /\ Due' = Due /\ Lacking' = Lacking /\ Collected' = Collected
         /\ (Checking' <=> Checking) /\ (Fixing' <=> Fixing) /\ (Refused' <=> Refused)
         /\ \A p \in Path : /\ Generated(p)' <=> Generated(p)
                            /\ Outside(p)' <=> Outside(p)
                            /\ Unexaminable(p)' <=> Unexaminable(p)
                            /\ FileStatus(p)' = FileStatus(p)
BY DEF Due, Unexaminable, Lacking, Collected, Checking, Fixing, Refused, Generated, Outside, FileStatus, Fixable

LEMMA NoneGenerated ==
  ASSUME NEW p \in Path
  PROVE  Generated(p) => p \notin Due /\ p \notin Lacking
BY DEF Generated, Due, Lacking, Fixable, CheckHeader

\* Steps that nobody ends leave what was counted.
LEMMA CountsStay ==
  ASSUME Counts, UNCHANGED <<run, processed, modified, failures, needsUpdate>>,
         \A p \in Path : (task'[p] \notin Waits <=> task[p] \notin Waits) /\ (task'[p] = "done" <=> task[p] = "done")
                      /\ (task'[p] = "failed" <=> task[p] = "failed")
  PROVE  Counts'
<1>1. Due' = Due /\ Lacking' = Lacking
  BY RunStays
<1>2. {p \in Path : task'[p] \notin Waits} = {p \in Path : task[p] \notin Waits}
  OBVIOUS
<1>3. Ended(Due)' = Ended(Due) /\ Broken' = Broken /\ Ended(Lacking)' = Ended(Lacking)
  BY <1>1 DEF Ended, Broken, Due, Lacking
<1> QED
  BY <1>2, <1>3 DEF Counts, Waits

\* A goroutine that ends well after Parse is counted by what it leaves behind.
LEMMA OneEnds ==
  ASSUME LicenseTypeOK, Counts, NEW p \in Path, task[p] \notin Waits \cup {"done", "failed"}, Goto(p, "done"),
         UNCHANGED <<run, processed, failures>>,
         modified' = IF p \in Due THEN modified + 1 ELSE modified,
         needsUpdate' = IF p \in Lacking THEN needsUpdate + 1 ELSE needsUpdate
  PROVE  Counts'
<1>1. Due' = Due /\ Lacking' = Lacking
  BY RunStays
<1>2. /\ {q \in Path : task'[q] \notin Waits} = {q \in Path : task[q] \notin Waits}
      /\ {q \in Path : task'[q] = "failed"} = Broken
  BY DEF Goto, Waits, LicenseTypeOK, Broken
<1> DEFINE Where == Waits \cup {"status", "check", "dryRun", "done", "failed"} \cup Rewrites
<1>3. task \in [Path -> Where] /\ "done" \in Where /\ task[p] # "done"
  BY DEF LicenseTypeOK
<1> HIDE DEF Where
<1>4. ASSUME NEW S \in SUBSET Path
      PROVE  Cardinality({q \in S : task'[q] = "done"}) =
               IF p \in S THEN Cardinality(Ended(S)) + 1 ELSE Cardinality(Ended(S))
  BY <1>3, EndsOne
<1>5. Due \in SUBSET Path /\ Lacking \in SUBSET Path
  BY DEF Due, Lacking
<1>6. /\ Ended(Due)' = {q \in Due : task'[q] = "done"} /\ Ended(Lacking)' = {q \in Lacking : task'[q] = "done"}
      /\ Broken' = {q \in Path : task'[q] = "failed"}
  BY <1>1 DEF Ended, Broken
<1> QED
  BY <1>2, <1>4, <1>5, <1>6 DEF Counts, Waits

\* One that fails is counted as a failure, and as nothing else.
LEMMA OneFails ==
  ASSUME LicenseTypeOK, Counts, NEW p \in Path, task[p] \notin {"none", "done", "failed"}, Erred(p),
         UNCHANGED <<run, modified, needsUpdate>>,
         processed' = IF task[p] \in Waits THEN processed + 1 ELSE processed
  PROVE  Counts'
<1>1. Due' = Due /\ Lacking' = Lacking
  BY RunStays
<1>2. \A q \in Path : task'[q] = IF q = p THEN "failed" ELSE task[q]
  BY DEF Erred, Goto, LicenseTypeOK
<1>3. Ended(Due)' = Ended(Due) /\ Ended(Lacking)' = Ended(Lacking)
  BY <1>1, <1>2 DEF Ended, Due, Lacking
<1>4. Broken' = Broken \cup {p} /\ p \notin Broken /\ Broken \in SUBSET Path
  BY <1>2 DEF Broken
<1>5. Cardinality(Broken \cup {p}) = Cardinality(Broken) + 1
  BY <1>4, PathsFinite, FS_AddElement
<1> DEFINE Parsed == {q \in Path : task[q] \notin Waits}
<1>6. {q \in Path : task'[q] \notin Waits} = Parsed \cup {p} /\ Parsed \in SUBSET Path
  BY <1>2 DEF Waits
<1>7. processed' = Cardinality(Parsed \cup {p})
  <2>1. CASE task[p] \in Waits
    <3>1. p \notin Parsed
      BY <2>1
    <3>2. Cardinality(Parsed \cup {p}) = Cardinality(Parsed) + 1
      BY <1>6, <3>1, PathsFinite, FS_AddElement
    <3> QED
      BY <2>1, <3>2 DEF Counts
  <2>2. CASE task[p] \notin Waits
    <3>1. Parsed \cup {p} = Parsed
      BY <2>2
    <3> QED
      BY <2>2, <3>1 DEF Counts
  <2> QED
    BY <2>1, <2>2
<1> HIDE DEF Parsed
<1> QED
  BY <1>3, <1>4, <1>5, <1>6, <1>7 DEF Counts, Erred, Waits

\* Nobody is at work once there is an exit code.
LEMMA StillRunning ==
  ASSUME LicenseInv, NEW p \in Path, task[p] \notin {"none", "done", "failed"}
  PROVE  exit = -1
BY DEF LicenseInv, Exited

LEMMA TaskMoves ==
  ASSUME LicenseTypeOK, Tasks, UNCHANGED run,
         NEW p \in Path, task[p] # "none", NEW where, where # "none", Goto(p, where),
         \A q \in Path : q # p => local'[q] = local[q],
         where \notin Waits \cup {"done"} => ~Generated(p),
         where \in {"check", "dryRun"} \cup Rewrites =>
           /\ ~Outside(p) /\ local'[p].status = FileStatus(p)
           /\ where = "check" <=> Checking
           /\ where \in Rewrites => Fixing
           /\ where # "check" => FileStatus(p) # "unmodified"
  PROVE  Tasks'
<1>1. task'[p] = where /\ \A q \in Path : q # p => task'[q] = task[q]
  BY DEF Goto, LicenseTypeOK
<1>2. /\ Collected' = Collected /\ (Checking' <=> Checking) /\ (Fixing' <=> Fixing) /\ (Refused' <=> Refused)
      /\ \A q \in Path : /\ Generated(q)' <=> Generated(q)
                         /\ Outside(q)' <=> Outside(q)
                         /\ FileStatus(q)' = FileStatus(q)
  BY RunStays
<1>3. \A q \in Path : task[q] # "none" => task'[q] # "none"
  BY <1>1
<1>4. Collected \subseteq Path
  BY DEF Collected
<1>5. (\A q \in Path : task[q] # "none" =>
         q \in Collected /\ ~Refused /\ \A r \in Collected : task[r] # "none")'
  BY <1>1, <1>2, <1>3, <1>4 DEF Tasks
<1>6. (\A q \in Path : task[q] \notin Waits \cup {"done"} => ~Generated(q))'
  BY <1>1, <1>2 DEF Tasks, Waits
<1>7. ASSUME NEW q \in Path, task'[q] \in {"check", "dryRun"} \cup Rewrites
      PROVE  /\ ~Outside(q) /\ local'[q].status = FileStatus(q)
             /\ task'[q] = "check" <=> Checking
             /\ task'[q] \in Rewrites => Fixing
             /\ task'[q] # "check" => FileStatus(q) # "unmodified"
  <2>1. CASE q = p
    BY <1>1, <1>7, <2>1
  <2>2. CASE q # p
    BY <1>1, <1>7, <2>2 DEF Tasks
  <2> QED
    BY <2>1, <2>2
<1> QED
  BY <1>2, <1>5, <1>6, <1>7 DEF Tasks, Rewrites

LEMMA ReasonsMove ==
  ASSUME LicenseTypeOK, Reasons, UNCHANGED run, NEW p \in Path, NEW where, Goto(p, where),
         where = "done" => Generated(p) \/ ~Outside(p),
         ~Fixing /\ where \notin Waits \cup {"failed"} =>
           Generated(p) \/ ~Unparsable(run.text[p[1]], Ext[p[1]]),
         ~Fixing /\ where = "failed" => Unexaminable(p)
  PROVE  Reasons'
<1>1. \A q \in Path : task'[q] = IF q = p THEN where ELSE task[q]
  BY DEF Goto, LicenseTypeOK
<1>2. /\ Fixing' <=> Fixing
      /\ \A q \in Path : /\ Generated(q)' <=> Generated(q)
                         /\ Outside(q)' <=> Outside(q)
                         /\ Unexaminable(q)' <=> Unexaminable(q)
  BY RunStays
<1> QED
  BY <1>1, <1>2 DEF Reasons, Waits

LEMMA ReasonsStay ==
  ASSUME Reasons, UNCHANGED run, \A p \in Path : task'[p] = task[p] \/ task'[p] \in Waits
  PROVE  Reasons'
<1>1. /\ Fixing' <=> Fixing
      /\ \A q \in Path : /\ Generated(q)' <=> Generated(q)
                         /\ Outside(q)' <=> Outside(q)
                         /\ Unexaminable(q)' <=> Unexaminable(q)
  BY RunStays
<1> QED
  BY <1>1 DEF Reasons, Waits

LEMMA TextsStay ==
  ASSUME Texts, UNCHANGED <<run, text>>,
         \A p \in Path : /\ task'[p] = "reparse" => local'[p].content \in Seq(Harmless)
                         /\ task'[p] \in {"truncate", "write"} => local'[p].result \in Seq(Harmless)
  PROVE  Texts'
<1>1. Fixing' <=> Fixing
  BY RunStays
<1> QED
  BY <1>1 DEF Texts, Harmless

\* A text that is written is that of a file nobody generated, and --fix writes it.
LEMMA TextWritten ==
  ASSUME LicenseTypeOK, Tasks, Texts, UNCHANGED <<run, local>>,
         NEW p \in Path, task[p] \in Rewrites, NEW t \in Seq(Harmless), text' = [text EXCEPT ![p[1]] = t],
         NEW where \in {"write", "done"}, Goto(p, where),
         where = "write" => local[p].result \in Seq(Harmless)
  PROVE  Texts' /\ text' \in [File -> Seq(Line)]
<1>1. p[1] \in File
  BY DEF Path
<1>2. ~Generated(p) /\ Fixing
  BY DEF Tasks, Waits, Rewrites
<1>3. t \in Seq(Line)
  <2>1. Harmless \subseteq Line
    BY DEF Harmless
  <2> QED
    BY <2>1
<1>4. text' \in [File -> Seq(Line)]
  BY <1>1, <1>3 DEF LicenseTypeOK
<1>5. Fixing'
  BY <1>2, RunStays
<1>6. ASSUME NEW f \in File
      PROVE  IF IsGeneratedFile(run.text[f]) THEN text'[f] = run.text[f] ELSE text'[f] \in Seq(Harmless)
  <2>1. CASE f = p[1]
    BY <1>1, <1>2, <2>1 DEF LicenseTypeOK, Generated
  <2>2. CASE f # p[1]
    <3>1. text'[f] = text[f]
      BY <1>1, <2>2 DEF LicenseTypeOK
    <3> QED
      BY <3>1 DEF Texts
  <2> QED
    BY <2>1, <2>2
<1>7. \A q \in Path : task'[q] = IF q = p THEN where ELSE task[q]
  BY DEF Goto, LicenseTypeOK
<1>8. \A q \in Path : /\ task'[q] = "reparse" => local'[q].content \in Seq(Harmless)
                      /\ task'[q] \in {"truncate", "write"} => local'[q].result \in Seq(Harmless)
  BY <1>7 DEF Texts
<1> QED
  BY <1>4, <1>5, <1>6, <1>8 DEF Texts, Harmless

LEMMA LicenseInitInv == LicenseInit => LicenseInv
<1> SUFFICES ASSUME NEW r \in Run, LicenseFrom(r) PROVE LicenseInv
  BY DEF LicenseInit
<1> USE DEF LicenseFrom
<1>1. run.text \in [File -> Seq(Line)]
  BY LicenseAssumption
<1>2. LicenseTypeOK
  <2>1. <<>> \in Seq(Line)
    BY EmptySeq
  <2> QED
    BY <1>1, <2>1 DEF LicenseTypeOK, NoLocal, Waits
<1>3. Tasks
  BY DEF Tasks, Waits, Rewrites
<1>4. Texts
  <2>1. \A f \in File : ~IsGeneratedFile(run.text[f]) => text[f] \in Seq(Harmless)
    BY <1>1, HarmlessText
  <2> QED
    BY <2>1 DEF Texts
<1>5. Counts
  <2>1. {p \in Path : task[p] \notin Waits} = {} /\ Ended(Due) = {} /\ Broken = {} /\ Ended(Lacking) = {}
    BY DEF Waits, Ended, Broken, Due, Lacking
  <2> QED
    BY <2>1, FS_EmptySet DEF Counts
<1>6. Exited
  BY DEF Exited
<1>20. Reasons
  <2>1. \A p \in Path : task[p] = "none"
    OBVIOUS
  <2>2. "none" \in Waits
    BY DEF Waits
  <2> QED
    BY <2>1, <2>2 DEF Reasons
<1> QED
  BY <1>2, <1>3, <1>4, <1>5, <1>6, <1>20 DEF LicenseInv

-----------------------------------------------------------------------------
LEMMA RefuseInv == ASSUME LicenseInv, Refuse PROVE LicenseInv'
<1> USE DEF Refuse
<1>1. \A p \in Path : task[p] = "none"
  BY DEF LicenseInv, Tasks
<1>2. LicenseTypeOK'
  BY DEF LicenseInv, LicenseTypeOK
<1>3. Tasks'
  BY <1>1 DEF Tasks, Waits, Rewrites
<1>4. Texts'
  BY TextsStay DEF LicenseInv, Texts
<1>5. Counts'
  BY CountsStay DEF LicenseInv
<1>6. Exited'
  BY <1>1 DEF Exited
<1>20. Reasons'
  BY ReasonsStay DEF LicenseInv
<1> QED
  BY <1>2, <1>3, <1>4, <1>5, <1>6, <1>20 DEF LicenseInv

LEMMA NothingToDoInv == ASSUME LicenseInv, NothingToDo PROVE LicenseInv'
<1> USE DEF NothingToDo
<1>1. \A p \in Path : task[p] = "none"
  BY DEF LicenseInv, Tasks
<1>2. LicenseTypeOK'
  BY DEF LicenseInv, LicenseTypeOK
<1>3. Tasks'
  BY <1>1 DEF Tasks, Waits, Rewrites
<1>4. Texts'
  BY TextsStay DEF LicenseInv, Texts
<1>5. Counts'
  BY CountsStay DEF LicenseInv
<1>6. Exited'
  BY <1>1 DEF Exited
<1>20. Reasons'
  BY ReasonsStay DEF LicenseInv
<1> QED
  BY <1>2, <1>3, <1>4, <1>5, <1>6, <1>20 DEF LicenseInv

LEMMA ProcessFilesInv == ASSUME LicenseInv, ProcessFiles PROVE LicenseInv'
<1> USE DEF ProcessFiles
<1>1. \A p \in Path : task'[p] = IF p \in Collected THEN "queued" ELSE "none"
  OBVIOUS
<1>2. LicenseTypeOK'
  BY DEF LicenseInv, LicenseTypeOK, Waits
<1>3. Tasks'
  <2>1. Collected' = Collected /\ (Refused' <=> Refused) /\ Collected \subseteq Path
    BY RunStays DEF Collected
  <2> QED
    BY <1>1, <2>1 DEF Tasks, Waits, Rewrites
<1>4. Texts'
  BY <1>1, TextsStay DEF LicenseInv, Texts
<1>5. Counts'
  <2>1. \A p \in Path : (task'[p] \notin Waits <=> task[p] \notin Waits) /\ (task'[p] = "done" <=> task[p] = "done")
                      /\ (task'[p] = "failed" <=> task[p] = "failed")
    BY <1>1 DEF Waits
  <2> QED
    BY <2>1, CountsStay DEF LicenseInv
<1>6. Exited'
  BY DEF Exited
<1>20. Reasons'
  BY <1>1, ReasonsStay DEF LicenseInv, Waits
<1> QED
  BY <1>2, <1>3, <1>4, <1>5, <1>6, <1>20 DEF LicenseInv

LEMMA ExitInv == ASSUME LicenseInv, Exit PROVE LicenseInv'
<1> USE DEF Exit
<1>1. LicenseTypeOK'
  BY DEF LicenseInv, LicenseTypeOK
<1>2. Tasks'
  <2>1. /\ Collected' = Collected /\ (Refused' <=> Refused)
        /\ \A p \in Path : Generated(p)' <=> Generated(p)
    BY RunStays
  <2> QED
    BY <2>1 DEF LicenseInv, Tasks, Rewrites
<1>3. Texts'
  BY TextsStay DEF LicenseInv, Texts
<1>4. Counts'
  BY CountsStay DEF LicenseInv
<1>5. Exited'
  <2>1. Checking' <=> Checking
    BY RunStays
  <2> QED
    BY <2>1 DEF Exited
<1>20. Reasons'
  BY ReasonsStay DEF LicenseInv
<1> QED
  BY <1>1, <1>2, <1>3, <1>4, <1>5, <1>20 DEF LicenseInv

-----------------------------------------------------------------------------
LEMMA AcquireInv == ASSUME LicenseInv, NEW p \in Path, Acquire(p) PROVE LicenseInv'
<1> USE DEF Acquire
<1>1. \A q \in Path : task'[q] = IF q = p THEN "parse" ELSE task[q]
  BY DEF LicenseInv, LicenseTypeOK, Goto
<1>2. LicenseTypeOK'
  BY DEF LicenseInv, LicenseTypeOK, Goto, Waits
<1>3. Tasks'
  BY TaskMoves DEF LicenseInv, Waits, Rewrites
<1>4. Texts'
  BY <1>1, TextsStay DEF LicenseInv, Texts
<1>5. Counts'
  <2>1. \A q \in Path : (task'[q] \notin Waits <=> task[q] \notin Waits) /\ (task'[q] = "done" <=> task[q] = "done")
                      /\ (task'[q] = "failed" <=> task[q] = "failed")
    BY <1>1 DEF Waits
  <2> QED
    BY <2>1, CountsStay DEF LicenseInv
<1>6. Exited'
  BY StillRunning DEF Exited
<1>20. Reasons'
  BY <1>1, ReasonsStay DEF LicenseInv, Waits
<1> QED
  BY <1>2, <1>3, <1>4, <1>5, <1>6, <1>20 DEF LicenseInv

\* The text a goroutine looks at tells a generated file although others may be
\* writing it: nobody writes one that is, or the marker into one that is not.
LEMMA ParseInv == ASSUME LicenseInv, NEW p \in Path, Parse(p) PROVE LicenseInv'
<1> USE DEF Parse
<1> DEFINE where == IF IsGeneratedFile(text[p[1]]) THEN "done" ELSE "status"
<1>1. \A q \in Path : task'[q] = IF q = p THEN where ELSE task[q]
  BY DEF LicenseInv, LicenseTypeOK, Goto
<1>2. IsGeneratedFile(text[p[1]]) <=> Generated(p)
  <2>1. p[1] \in File /\ text[p[1]] \in Seq(Line)
    BY DEF Path, LicenseInv, LicenseTypeOK
  <2>2. ~IsGeneratedFile(text[p[1]]) <=> text[p[1]] \in Seq(Harmless)
    BY <2>1, HarmlessText
  <2> QED
    BY <2>1, <2>2 DEF LicenseInv, Texts, Generated
<1>3. LicenseTypeOK'
  BY DEF LicenseInv, LicenseTypeOK, Goto
<1>4. Tasks'
  <2>1. Goto(p, where) /\ where \in {"done", "status"} /\ (where = "status" => ~Generated(p))
    BY <1>2
  <2> HIDE DEF where
  <2> QED
    BY <2>1, TaskMoves DEF LicenseInv, Waits, Rewrites
<1>5. Texts'
  BY <1>1, TextsStay DEF LicenseInv, Texts
<1>6. Counts'
  <2> DEFINE Parsed == {q \in Path : task[q] \notin Waits}
  <2>1. {q \in Path : task'[q] \notin Waits} = Parsed \cup {p} /\ p \notin Parsed /\ Parsed \subseteq Path
    BY <1>1 DEF Waits
  <2>2. Cardinality(Parsed \cup {p}) = Cardinality(Parsed) + 1
    BY <2>1, PathsFinite, FS_AddElement
  <2>3. Due' = Due /\ Lacking' = Lacking
    BY RunStays
  <2>4. Ended(Due)' = Ended(Due) /\ Broken' = Broken /\ Ended(Lacking)' = Ended(Lacking)
    BY <1>1, <1>2, <2>3, NoneGenerated DEF Ended, Broken, Due, Lacking
  <2> QED
    BY <2>1, <2>2, <2>4 DEF LicenseInv, Counts, Waits
<1>7. Exited'
  BY StillRunning DEF Exited
<1>8. ~Fixing => Generated(p) \/ ~Unparsable(run.text[p[1]], Ext[p[1]])
  BY <1>2 DEF LicenseInv, Texts, Generated
<1>20. Reasons'
  <2>1. Goto(p, where) /\ where \in {"done", "status"} /\ (where = "done" => Generated(p))
    BY <1>2
  <2> HIDE DEF where
  <2> QED
    BY <1>8, <2>1, ReasonsMove DEF LicenseInv, Waits
<1> QED
  BY <1>3, <1>4, <1>5, <1>6, <1>7, <1>20 DEF LicenseInv

LEMMA ParseFailsInv == ASSUME LicenseInv, NEW p \in Path, ParseFails(p) PROVE LicenseInv'
<1> USE DEF ParseFails
<1>1. /\ Goto(p, "failed")
      /\ \A q \in Path : task'[q] = IF q = p THEN "failed" ELSE task[q]
  BY DEF LicenseInv, LicenseTypeOK, Goto, Erred
<1>2. ~Generated(p)
  <2>1. p[1] \in File /\ text[p[1]] \in Seq(Line)
    BY DEF Path, LicenseInv, LicenseTypeOK
  <2> QED
    BY <2>1 DEF LicenseInv, Texts, Generated
<1>3. LicenseTypeOK'
  BY <1>1 DEF LicenseInv, LicenseTypeOK, Goto
<1>4. Tasks'
  BY <1>1, <1>2, TaskMoves DEF LicenseInv, Waits, Rewrites
<1>5. Texts'
  BY <1>1, TextsStay DEF LicenseInv, Texts
<1>6. Counts'
  BY OneFails DEF LicenseInv, Waits
<1>7. Exited'
  BY StillRunning DEF Exited
<1>20. Reasons'
  <2>1. ~Fixing => Unexaminable(p)
    BY <1>2 DEF LicenseInv, Texts, Generated, Unexaminable
  <2> QED
    BY <1>1, <2>1, ReasonsMove DEF LicenseInv, Waits
<1> QED
  BY <1>3, <1>4, <1>5, <1>6, <1>7, <1>20 DEF LicenseInv

LEMMA DetectOutsideInv == ASSUME LicenseInv, NEW p \in Path, DetectOutside(p) PROVE LicenseInv'
<1> USE DEF DetectOutside
<1>1. /\ Goto(p, "failed")
      /\ \A q \in Path : task'[q] = IF q = p THEN "failed" ELSE task[q]
  BY DEF LicenseInv, LicenseTypeOK, Goto, Erred
<1>2. ~Generated(p)
  BY DEF LicenseInv, Tasks, Waits
<1>3. LicenseTypeOK'
  BY <1>1 DEF LicenseInv, LicenseTypeOK, Goto
<1>4. Tasks'
  BY <1>1, <1>2, TaskMoves DEF LicenseInv, Waits, Rewrites
<1>5. Texts'
  BY <1>1, TextsStay DEF LicenseInv, Texts
<1>6. Counts'
  BY OneFails DEF LicenseInv, Waits
<1>7. Exited'
  BY StillRunning DEF Exited
<1>20. Reasons'
  <2>1. Unexaminable(p)
    BY <1>2 DEF Unexaminable, Generated
  <2> QED
    BY <1>1, <2>1, ReasonsMove DEF LicenseInv, Waits
<1> QED
  BY <1>3, <1>4, <1>5, <1>6, <1>7, <1>20 DEF LicenseInv

LEMMA DetectInv == ASSUME LicenseInv, NEW p \in Path, Detect(p) PROVE LicenseInv'
<1> USE DEF Detect
<1>1. PICK where : /\ Goto(p, where)
                   /\ where = CASE Checking -> "check"
                                [] ~Checking /\ FileStatus(p) = "unmodified" -> "done"
                                [] OTHER -> Mode
  OBVIOUS
<1>2. /\ where \in {"check", "done", "fix", "dryRun"}
      /\ where = "check" <=> Checking
      /\ where = "done" <=> ~Checking /\ FileStatus(p) = "unmodified"
      /\ where = "fix" => Fixing
  <2>1. run.flags = {Mode} /\ Mode \in {"fix", "check", "dryRun"}
    BY OneMode DEF LicenseInv, LicenseTypeOK, Tasks
  <2>2. (Mode = "check" <=> Checking) /\ (Mode = "fix" <=> Fixing)
    BY <2>1 DEF Checking, Fixing
  <2> QED
    BY <1>1, <2>2, <2>1
<1>3. \A q \in Path : task'[q] = IF q = p THEN where ELSE task[q]
  BY <1>1 DEF LicenseInv, LicenseTypeOK, Goto
<1>4. /\ FileStatus(p) \in {"new", "modified", "unmodified"}
      /\ local' \in [Path -> [status : {"", "new", "modified", "unmodified"}, content : Seq(Line), result : Seq(Line)]]
      /\ local'[p].status = FileStatus(p)
      /\ \A q \in Path : q # p => local'[q] = local[q]
  <2>1. p[1] \in File /\ run.fork[p[1]] \in {"new", "modified", "unmodified", "outside"}
    BY LicenseAssumption DEF Path, LicenseInv, LicenseTypeOK
  <2>2. FileStatus(p) \in {"new", "modified", "unmodified"}
    BY <2>1 DEF FileStatus, Outside
  <2> QED
    BY <2>2 DEF LicenseInv, LicenseTypeOK
<1>5. LicenseTypeOK'
  <2>1. task' \in [Path -> Waits \cup {"status", "check", "dryRun", "done", "failed"} \cup Rewrites]
    <3>1. Goto(p, where) /\ where \in Waits \cup {"status", "check", "dryRun", "done", "failed"} \cup Rewrites
      BY <1>1, <1>2 DEF Rewrites
    <3> QED
      BY <3>1 DEF LicenseInv, LicenseTypeOK, Goto
  <2> QED
    BY <1>4, <2>1 DEF LicenseInv, LicenseTypeOK
<1>6. ~Generated(p) /\ ~Outside(p)
  BY DEF LicenseInv, Tasks, Waits
<1>7. Tasks'
  BY <1>1, <1>2, <1>4, <1>6, TaskMoves DEF LicenseInv, Rewrites
<1>8. Texts'
  BY <1>2, <1>3, <1>4, TextsStay DEF LicenseInv, Texts
<1>9. Counts'
  <2>1. CASE where = "done"
    <3>1. p \notin Due /\ p \notin Lacking
      BY <1>2, <1>6, <2>1 DEF Due, Lacking, Fixable
    <3>2. task[p] \notin Waits \cup {"done", "failed"}
      BY DEF Waits
    <3> QED
      BY <1>1, <2>1, <3>1, <3>2, OneEnds DEF LicenseInv
  <2>2. CASE where # "done"
    <3>1. \A q \in Path : (task'[q] \notin Waits <=> task[q] \notin Waits) /\ (task'[q] = "done" <=> task[q] = "done")
                      /\ (task'[q] = "failed" <=> task[q] = "failed")
      BY <1>2, <1>3, <2>2 DEF Waits
    <3> QED
      BY <3>1, CountsStay DEF LicenseInv
  <2> QED
    BY <2>1, <2>2
<1>10. Exited'
  BY StillRunning DEF Exited
<1>20. Reasons'
  <2>1. ~Fixing => Generated(p) \/ ~Unparsable(run.text[p[1]], Ext[p[1]])
    BY DEF LicenseInv, Reasons, Waits
  <2> QED
    BY <1>1, <1>2, <1>6, <2>1, ReasonsMove DEF LicenseInv, Waits
<1> QED
  BY <1>5, <1>7, <1>8, <1>9, <1>10, <1>20 DEF LicenseInv

LEMMA CheckInv == ASSUME LicenseInv, NEW p \in Path, Check(p) PROVE LicenseInv'
<1> USE DEF Check
<1>1. \A q \in Path : task'[q] = IF q = p THEN "done" ELSE task[q]
  BY DEF LicenseInv, LicenseTypeOK, Goto
<1>2. LicenseTypeOK'
  BY DEF LicenseInv, LicenseTypeOK, Goto
<1>3. Tasks'
  BY TaskMoves DEF LicenseInv, Waits, Rewrites
<1>4. Texts'
  BY <1>1, TextsStay DEF LicenseInv, Texts
<1>5. Counts'
  <2>1. Checking /\ ~Outside(p) /\ local[p].status = FileStatus(p)
    BY DEF LicenseInv, Tasks
  <2>2. text = run.text
    BY <2>1 DEF LicenseInv, Texts, Checking, Fixing
  <2>3. CheckHeader(text[p[1]], Ext[p[1]], local[p].status) <=> p \notin Lacking
    BY <2>1, <2>2 DEF Lacking
  <2>4. p \notin Due
    BY <2>1 DEF Due
  <2>5. task[p] \notin Waits \cup {"done", "failed"}
    BY DEF Waits
  <2> QED
    BY <2>3, <2>4, <2>5, OneEnds DEF LicenseInv
<1>6. Exited'
  BY StillRunning DEF Exited
<1>20. Reasons'
  <2>1. ~Fixing => Generated(p) \/ ~Unparsable(run.text[p[1]], Ext[p[1]])
    BY DEF LicenseInv, Reasons, Waits
  <2>2. ~Outside(p)
    BY DEF LicenseInv, Tasks, Rewrites
  <2> QED
    BY <2>1, <2>2, ReasonsMove DEF LicenseInv, Waits
<1> QED
  BY <1>2, <1>3, <1>4, <1>5, <1>6, <1>20 DEF LicenseInv

\* A goroutine that is past Detect, and is not checking, has a file to write.
LEMMA IsDue ==
  ASSUME LicenseInv, NEW p \in Path, task[p] \in {"dryRun"} \cup Rewrites
  PROVE  p \in Due /\ p \notin Lacking /\ task[p] \notin Waits \cup {"done", "failed"}
<1>1. task[p] \notin Waits \cup {"done", "failed"} /\ task[p] # "check"
  BY DEF Waits, Rewrites
<1>2. ~Generated(p) /\ ~Outside(p) /\ ~Checking /\ FileStatus(p) # "unmodified"
  BY <1>1 DEF LicenseInv, Tasks
<1> QED
  BY <1>1, <1>2 DEF Due, Lacking, Fixable, Generated

LEMMA DryRunInv == ASSUME LicenseInv, NEW p \in Path, DryRun(p) PROVE LicenseInv'
<1> USE DEF DryRun
<1>1. \A q \in Path : task'[q] = IF q = p THEN "done" ELSE task[q]
  BY DEF LicenseInv, LicenseTypeOK, Goto
<1>2. LicenseTypeOK'
  BY DEF LicenseInv, LicenseTypeOK, Goto
<1>3. Tasks'
  BY TaskMoves DEF LicenseInv, Waits, Rewrites
<1>4. Texts'
  BY <1>1, TextsStay DEF LicenseInv, Texts
<1>5. Counts'
  BY IsDue, OneEnds DEF LicenseInv
<1>6. Exited'
  BY StillRunning DEF Exited
<1>20. Reasons'
  <2>1. ~Fixing => Generated(p) \/ ~Unparsable(run.text[p[1]], Ext[p[1]])
    BY DEF LicenseInv, Reasons, Waits
  <2>2. ~Outside(p)
    BY DEF LicenseInv, Tasks, Rewrites
  <2> QED
    BY <2>1, <2>2, ReasonsMove DEF LicenseInv, Waits
<1> QED
  BY <1>2, <1>3, <1>4, <1>5, <1>6, <1>20 DEF LicenseInv

LEMMA ReadContentInv == ASSUME LicenseInv, NEW p \in Path, ReadContent(p) PROVE LicenseInv'
<1> USE DEF ReadContent
<1>1. \A q \in Path : task'[q] = IF q = p THEN "reparse" ELSE task[q]
  BY DEF LicenseInv, LicenseTypeOK, Goto
<1>2. /\ text[p[1]] \in Seq(Line)
      /\ local'[p].status = local[p].status /\ local'[p].content = text[p[1]]
      /\ \A q \in Path : q # p => local'[q] = local[q]
  BY DEF LicenseInv, LicenseTypeOK, Path
<1>3. LicenseTypeOK'
  <2>1. task' \in [Path -> Waits \cup {"status", "check", "dryRun", "done", "failed"} \cup Rewrites]
    BY DEF LicenseInv, LicenseTypeOK, Goto, Rewrites
  <2> QED
    BY <1>2, <2>1 DEF LicenseInv, LicenseTypeOK
<1>4. /\ ~Generated(p) /\ ~Outside(p) /\ ~Checking /\ Fixing
      /\ FileStatus(p) # "unmodified" /\ local[p].status = FileStatus(p)
  BY DEF LicenseInv, Tasks, Waits, Rewrites
<1>5. Tasks'
  BY <1>2, <1>4, TaskMoves DEF LicenseInv, Rewrites
<1>6. Texts'
  <2>1. text[p[1]] \in Seq(Harmless)
    BY <1>4 DEF LicenseInv, Texts, Generated, Path
  <2> QED
    BY <1>1, <1>2, <2>1, TextsStay DEF LicenseInv, Texts
<1>7. Counts'
  <2>1. \A q \in Path : (task'[q] \notin Waits <=> task[q] \notin Waits) /\ (task'[q] = "done" <=> task[q] = "done")
                      /\ (task'[q] = "failed" <=> task[q] = "failed")
    BY <1>1 DEF Waits
  <2> QED
    BY <2>1, CountsStay DEF LicenseInv
<1>8. Exited'
  BY StillRunning DEF Exited
<1>20. Reasons'
  BY <1>4, ReasonsMove DEF LicenseInv
<1> QED
  BY <1>3, <1>5, <1>6, <1>7, <1>8, <1>20 DEF LicenseInv

LEMMA ReparseInv == ASSUME LicenseInv, NEW p \in Path, Reparse(p) PROVE LicenseInv'
<1> DEFINE result == ApplyHeader(local[p].content, ParseFileHeader(text[p[1]], Ext[p[1]]),
                                 GenerateHeader(local[p].status, Ext[p[1]]))
<1>1. /\ task[p] = "reparse" /\ Goto(p, "truncate") /\ local' = [local EXCEPT ![p].result = result]
      /\ UNCHANGED <<run, text, processed, modified, failures, needsUpdate, exit>>
  BY DEF Reparse
<1>2. /\ ~Generated(p) /\ ~Outside(p) /\ ~Checking /\ Fixing
      /\ FileStatus(p) # "unmodified" /\ local[p].status = FileStatus(p)
  BY <1>1 DEF LicenseInv, Tasks, Waits, Rewrites
<1>3. result \in Seq(Harmless) /\ result \in Seq(Line)
  <2>1. p[1] \in File /\ run.fork[p[1]] \in {"new", "modified", "unmodified", "outside"}
    BY LicenseAssumption DEF Path, LicenseInv, LicenseTypeOK
  <2>2. local[p].status \in {"modified", "new"}
    BY <1>2, <2>1 DEF FileStatus, Outside
  <2>3. local[p].content \in Seq(Harmless) /\ text[p[1]] \in Seq(Line)
    BY <1>1, <2>1 DEF LicenseInv, LicenseTypeOK, Texts
  <2>4. result \in Seq(Harmless)
    BY <2>2, <2>3, AppliedIs
  <2>5. Harmless \subseteq Line
    BY DEF Harmless
  <2> HIDE DEF result
  <2> QED
    BY <2>4, <2>5
<1> HIDE DEF result
<1>4. \A q \in Path : task'[q] = IF q = p THEN "truncate" ELSE task[q]
  BY <1>1 DEF LicenseInv, LicenseTypeOK, Goto
<1>5. /\ local'[p].status = local[p].status /\ local'[p].result = result
      /\ \A q \in Path : q # p => local'[q] = local[q]
  BY <1>1 DEF LicenseInv, LicenseTypeOK
<1>6. LicenseTypeOK'
  <2>1. task' \in [Path -> Waits \cup {"status", "check", "dryRun", "done", "failed"} \cup Rewrites]
    BY <1>1 DEF LicenseInv, LicenseTypeOK, Goto, Rewrites
  <2> QED
    BY <1>1, <1>3, <2>1 DEF LicenseInv, LicenseTypeOK
<1>7. Tasks'
  BY <1>1, <1>2, <1>5, TaskMoves DEF LicenseInv, Rewrites
<1>8. Texts'
  BY <1>1, <1>3, <1>4, <1>5, TextsStay DEF LicenseInv, Texts
<1>9. Counts'
  <2>1. \A q \in Path : (task'[q] \notin Waits <=> task[q] \notin Waits) /\ (task'[q] = "done" <=> task[q] = "done")
                      /\ (task'[q] = "failed" <=> task[q] = "failed")
    BY <1>1, <1>4 DEF Waits
  <2> QED
    BY <1>1, <2>1, CountsStay DEF LicenseInv
<1>10. Exited'
  BY <1>1, StillRunning DEF Exited
<1>20. Reasons'
  BY <1>1, <1>2, ReasonsMove DEF LicenseInv
<1> QED
  BY <1>6, <1>7, <1>8, <1>9, <1>10, <1>20 DEF LicenseInv

LEMMA TruncateInv == ASSUME LicenseInv, NEW p \in Path, Truncate(p) PROVE LicenseInv'
<1> USE DEF Truncate
<1>1. \A q \in Path : task'[q] = IF q = p THEN "write" ELSE task[q]
  BY DEF LicenseInv, LicenseTypeOK, Goto
<1>2. Texts' /\ text' \in [File -> Seq(Line)]
  <2>1. <<>> \in Seq(Harmless)
    BY EmptySeq
  <2>2. local[p].result \in Seq(Harmless) /\ task[p] \in Rewrites
    BY DEF LicenseInv, Texts, Rewrites
  <2> QED
    BY <2>1, <2>2, TextWritten DEF LicenseInv
<1>3. LicenseTypeOK'
  BY <1>2 DEF LicenseInv, LicenseTypeOK, Goto, Rewrites
<1>4. Tasks'
  BY TaskMoves DEF LicenseInv, Tasks, Waits, Rewrites
<1>5. Counts'
  <2>1. \A q \in Path : (task'[q] \notin Waits <=> task[q] \notin Waits) /\ (task'[q] = "done" <=> task[q] = "done")
                      /\ (task'[q] = "failed" <=> task[q] = "failed")
    BY <1>1 DEF Waits
  <2> QED
    BY <2>1, CountsStay DEF LicenseInv
<1>6. Exited'
  BY StillRunning DEF Exited
<1>20. Reasons'
  <2>1. Fixing /\ ~Outside(p)
    BY DEF LicenseInv, Tasks, Rewrites
  <2> QED
    BY <2>1, ReasonsMove DEF LicenseInv
<1> QED
  BY <1>2, <1>3, <1>4, <1>5, <1>6, <1>20 DEF LicenseInv

LEMMA WriteInv == ASSUME LicenseInv, NEW p \in Path, Write(p) PROVE LicenseInv'
<1> USE DEF Write
<1>1. Texts' /\ text' \in [File -> Seq(Line)]
  <2>1. local[p].result \in Seq(Harmless) /\ task[p] \in Rewrites
    BY DEF LicenseInv, Texts, Rewrites
  <2> QED
    BY <2>1, TextWritten DEF LicenseInv
<1>2. LicenseTypeOK'
  BY <1>1 DEF LicenseInv, LicenseTypeOK, Goto
<1>3. Tasks'
  BY TaskMoves DEF LicenseInv, Waits, Rewrites
<1>4. Counts'
  <2>1. task[p] \in {"dryRun"} \cup Rewrites
    BY DEF Rewrites
  <2> QED
    BY <2>1, IsDue, OneEnds DEF LicenseInv
<1>5. Exited'
  BY StillRunning DEF Exited
<1>20. Reasons'
  <2>1. Fixing /\ ~Outside(p)
    BY DEF LicenseInv, Tasks, Rewrites
  <2> QED
    BY <2>1, ReasonsMove DEF LicenseInv
<1> QED
  BY <1>1, <1>2, <1>3, <1>4, <1>5, <1>20 DEF LicenseInv

LEMMA ApplyFailsInv == ASSUME LicenseInv, NEW p \in Path, ApplyFails(p) PROVE LicenseInv'
<1>1. /\ task[p] \in {"reparse", "truncate", "write"} /\ Erred(p)
      /\ UNCHANGED <<run, text, local, processed, modified, needsUpdate, exit>>
  BY DEF ApplyFails
<1>2. /\ Goto(p, "failed")
      /\ \A q \in Path : task'[q] = IF q = p THEN "failed" ELSE task[q]
  BY <1>1 DEF LicenseInv, LicenseTypeOK, Goto, Erred
<1>3. ~Generated(p) /\ Fixing
  BY <1>1 DEF LicenseInv, Tasks, Waits, Rewrites
<1>4. LicenseTypeOK'
  BY <1>1, <1>2 DEF LicenseInv, LicenseTypeOK, Goto
<1>5. Tasks'
  BY <1>1, <1>2, <1>3, TaskMoves DEF LicenseInv, Waits, Rewrites
<1>6. Texts'
  BY <1>1, <1>2, TextsStay DEF LicenseInv, Texts
<1>7. Counts'
  <2>1. task[p] \notin Waits \cup {"done", "failed"}
    BY <1>1 DEF Waits
  <2> QED
    BY <1>1, <2>1, OneFails DEF LicenseInv, Waits
<1>8. Exited'
  BY <1>1, StillRunning DEF Exited
<1>20. Reasons'
  BY <1>1, <1>2, <1>3, ReasonsMove DEF LicenseInv
<1> QED
  BY <1>4, <1>5, <1>6, <1>7, <1>8, <1>20 DEF LicenseInv

LEMMA LicenseNextInv == LicenseInv /\ [LicenseNext]_licenseVars => LicenseInv'
<1> SUFFICES ASSUME LicenseInv, [LicenseNext]_licenseVars PROVE LicenseInv'
  OBVIOUS
<1>1. CASE Refuse \/ NothingToDo \/ ProcessFiles \/ Exit
  BY <1>1, RefuseInv, NothingToDoInv, ProcessFilesInv, ExitInv
<1>2. ASSUME NEW p \in Path,
             \/ Acquire(p) \/ Parse(p) \/ ParseFails(p) \/ DetectOutside(p) \/ Detect(p) \/ Check(p) \/ DryRun(p)
             \/ ReadContent(p) \/ Reparse(p) \/ Truncate(p) \/ Write(p) \/ ApplyFails(p)
      PROVE  LicenseInv'
  BY <1>2, AcquireInv, ParseInv, ParseFailsInv, DetectOutsideInv, DetectInv, CheckInv, DryRunInv,
     ReadContentInv, ReparseInv, TruncateInv, WriteInv, ApplyFailsInv
<1>3. CASE UNCHANGED licenseVars
  <2> USE <1>3 DEF licenseVars
  <2>1. LicenseTypeOK' /\ Exited'
    BY RunStays DEF LicenseInv, LicenseTypeOK, Exited
  <2>2. Tasks'
    BY RunStays DEF LicenseInv, Tasks
  <2>3. Texts'
    BY TextsStay DEF LicenseInv, Texts
  <2>4. Counts'
    BY CountsStay DEF LicenseInv
  <2>5. Reasons'
    BY ReasonsStay DEF LicenseInv
  <2> QED
    BY <2>1, <2>2, <2>3, <2>4, <2>5 DEF LicenseInv
<1> QED
  BY <1>1, <1>2, <1>3 DEF LicenseNext

LEMMA LicenseAlwaysInv == LicenseSpec => []LicenseInv
BY LicenseInitInv, LicenseNextInv, PTL DEF LicenseSpec

\* What the counters say of the files once all goroutines have ended.
LEMMA SummaryIs == LicenseInv => SummaryTells
<1> SUFFICES ASSUME LicenseInv, Done PROVE SummaryTells
  BY DEF SummaryTells
<1>1. /\ \A p \in Path : task[p] \in {"none", "done", "failed"}
      /\ exit = IF failures > 0 \/ (Checking /\ needsUpdate > 0) THEN 1 ELSE 0
  BY DEF LicenseInv, Exited, Done
<1>2. /\ Collected \subseteq Path
      /\ \A p \in Path : task[p] \in {"done", "failed"} <=> p \in Collected
  BY <1>1 DEF LicenseInv, Tasks, Done, Collected
<1>3. processed = Cardinality(Collected)
  <2>1. {p \in Path : task[p] \notin Waits} = Collected
    BY <1>1, <1>2 DEF Waits
  <2> QED
    BY <2>1 DEF LicenseInv, Counts
<1>4. Broken = Failed /\ Failed \in SUBSET Path /\ \A p \in Collected : p \notin Failed => task[p] = "done"
  BY <1>2 DEF Broken, Failed
<1>5. modified = IF Checking THEN 0 ELSE Cardinality({p \in Collected \ Failed : Fixable(p)})
  <2>1. Ended(Due) = IF Checking THEN {} ELSE {p \in Collected \ Failed : Fixable(p)}
    BY <1>2, <1>4 DEF Ended, Due, Failed
  <2> QED
    BY <2>1, FS_EmptySet DEF LicenseInv, Counts
<1>6. failures > 0 <=> Failed # {}
  <2>1. IsFiniteSet(Failed) /\ Cardinality(Failed) \in Nat
    BY <1>4, PathsFinite
  <2> QED
    BY <1>4, <2>1, FS_EmptySet DEF LicenseInv, Counts
<1>7. needsUpdate > 0 <=> \E p \in Collected \ Failed : p \in Lacking
  <2>1. Lacking \in SUBSET Path /\ Ended(Lacking) \in SUBSET Path
    BY DEF Lacking, Ended
  <2>2. IsFiniteSet(Ended(Lacking)) /\ Cardinality(Ended(Lacking)) \in Nat
    BY <2>1, PathsFinite
  <2>3. Ended(Lacking) = Lacking \cap (Collected \ Failed)
    BY <1>2, <1>4, <2>1 DEF Ended, Failed
  <2> QED
    BY <2>2, <2>3, FS_EmptySet DEF LicenseInv, Counts
<1>8. ASSUME NEW p \in Collected, p \notin Failed, Checking
      PROVE  p \notin Lacking <=> \/ IsGeneratedFile(run.text[p[1]])
                                 \/ CheckHeader(run.text[p[1]], Ext[p[1]], FileStatus(p))
  <2>1. CASE Generated(p)
    BY <1>2, <2>1, NoneGenerated DEF Generated
  <2>2. CASE ~Generated(p)
    <3>1. ~Outside(p)
      BY <1>2, <1>4, <1>8, <2>2 DEF LicenseInv, Reasons
    <3> QED
      BY <1>2, <1>8, <2>2, <3>1 DEF Generated, Lacking
  <2> QED
    BY <2>1, <2>2
<1>9. exit = 0 <=> /\ Failed = {}
                   /\ Checking => \A p \in Collected :
                        \/ IsGeneratedFile(run.text[p[1]])
                        \/ CheckHeader(run.text[p[1]], Ext[p[1]], FileStatus(p))
  <2>1. exit = 0 <=> Failed = {} /\ (Checking => \A p \in Collected \ Failed : p \notin Lacking)
    BY <1>1, <1>6, <1>7
  <2> QED
    BY <1>8, <2>1
<1>10. \A p \in Collected : Outside(p) /\ ~IsGeneratedFile(run.text[p[1]]) => p \in Failed
  BY <1>2, <1>4 DEF LicenseInv, Reasons, Generated
<1>11. ~Fixing => Failed = {p \in Collected : Unexaminable(p)}
  <2> SUFFICES ASSUME ~Fixing, NEW p \in Collected PROVE p \in Failed <=> Unexaminable(p)
    BY DEF Failed
  <2>1. CASE task[p] = "failed"
    BY <1>2, <2>1 DEF LicenseInv, Reasons, Failed
  <2>2. CASE task[p] = "done"
    BY <1>2, <2>2 DEF LicenseInv, Reasons, Failed, Unexaminable, Generated, Waits
  <2> QED
    BY <1>2, <2>1, <2>2
<1>12. ~Fixing => text = run.text
  BY DEF LicenseInv, Texts
<1> QED
  BY <1>3, <1>5, <1>9, <1>10, <1>11, <1>12 DEF SummaryTells

(***************************************************************************)
(* However many files, paths and goroutines there are and in whatever      *)
(* order they come, and whichever files fail to be parsed or written, the  *)
(* exit code, the counters and, unless --fix runs, the files are what the  *)
(* summary says (processor.go:47-60).                                      *)
(***************************************************************************)
THEOREM SummaryIsTrue == LicenseSpec => []SummaryTells
BY LicenseAlwaysInv, SummaryIs, PTL

-----------------------------------------------------------------------------
(***************************************************************************)
(* A file that one path alone names: what its goroutine reads is what the  *)
(* run began with, and what it writes is what a fix makes of that.         *)
(***************************************************************************)
Alone(p) == p \in Collected /\ \A q \in Collected : q[1] = p[1] => q = p

Fix(p) ==
  ApplyHeader(run.text[p[1]], ParseFileHeader(run.text[p[1]], Ext[p[1]]), GenerateHeader(FileStatus(p), Ext[p[1]]))

Fixed(p) ==
  /\ task[p] # "dryRun"
  /\ task[p] \in Waits \cup {"status", "fix", "reparse", "truncate"} => text[p[1]] = run.text[p[1]]
  /\ task[p] = "reparse" => local[p].content = run.text[p[1]]
  /\ task[p] \in {"truncate", "write"} => local[p].result = Fix(p)
  /\ task[p] = "done" => text[p[1]] = Fix(p)

FixInv == Fixing => \A p \in Path : Alone(p) /\ Fixable(p) => Fixed(p)

\* What of a fix depends on the run alone stays.
LEMMA FixStays ==
  ASSUME UNCHANGED run
  PROVE  /\ Fixing' <=> Fixing
         /\ \A p \in Path : /\ Alone(p)' <=> Alone(p)
                            /\ Fixable(p)' <=> Fixable(p)
                            /\ Fix(p)' = Fix(p)
BY DEF Fixing, Alone, Collected, Fixable, FileStatus, Outside, Fix

\* A step of a goroutine that keeps what is said of its own path keeps it of
\* all others: the file it may write is not theirs.
LEMMA FixMoves ==
  ASSUME LicenseInv, FixInv, UNCHANGED run, NEW p \in Path, task[p] # "none",
         NEW where, Goto(p, where), \A q \in Path : q # p => local'[q] = local[q],
         \A f \in File : f # p[1] => text'[f] = text[f],
         task[p] \notin {"truncate", "write"} => text' = text,
         Fixing /\ Alone(p) /\ Fixable(p) /\ Fixed(p) => Fixed(p)'
  PROVE  FixInv'
<1>1. \A q \in Path : task'[q] = IF q = p THEN where ELSE task[q]
  BY DEF LicenseInv, LicenseTypeOK, Goto
<1> SUFFICES ASSUME NEW q \in Path, Fixing, Alone(q), Fixable(q) PROVE Fixed(q)'
  BY FixStays DEF FixInv
<1>2. Fixed(q)
  BY DEF FixInv
<1>3. CASE q = p
  BY <1>2, <1>3
<1>4. CASE q # p
  <2>1. p \in Collected /\ p[1] # q[1]
    BY <1>4 DEF LicenseInv, Tasks, Alone
  <2>2. q[1] \in File
    BY DEF Path
  <2>3. text'[q[1]] = text[q[1]] /\ task'[q] = task[q] /\ local'[q] = local[q]
    BY <1>1, <1>4, <2>1, <2>2
  <2>4. Fix(q)' = Fix(q)
    BY FixStays
  <2> QED
    BY <1>2, <2>3, <2>4 DEF Fixed
<1> QED
  BY <1>3, <1>4

\* Steps that leave the files and the goroutines' own data.
LEMMA FixRests ==
  ASSUME FixInv, UNCHANGED <<run, text, local>>,
         \A p \in Path : task'[p] = task[p] \/ (task[p] \in Waits /\ task'[p] \in Waits)
  PROVE  FixInv'
<1> SUFFICES ASSUME NEW q \in Path, Fixing, Alone(q), Fixable(q) PROVE Fixed(q)'
  BY FixStays DEF FixInv
<1>1. Fixed(q)
  BY DEF FixInv
<1>2. Fix(q)' = Fix(q)
  BY FixStays
<1> QED
  BY <1>1, <1>2 DEF Fixed, Waits

\* The invariant of the fix, at the start and by every step.
LEMMA FixInit == LicenseInit => FixInv
BY DEF LicenseInit, LicenseFrom, FixInv, Fixed, Waits

LEMMA FixNext == LicenseInv /\ FixInv /\ [LicenseNext]_licenseVars => FixInv'
<1> SUFFICES ASSUME LicenseInv, FixInv, [LicenseNext]_licenseVars PROVE FixInv'
  OBVIOUS
<1>1. CASE Refuse \/ NothingToDo \/ Exit \/ UNCHANGED licenseVars
  BY <1>1, FixRests DEF Refuse, NothingToDo, Exit, licenseVars
<1>2. CASE ProcessFiles
  BY <1>2, FixRests DEF ProcessFiles, Waits
<1>3. ASSUME NEW p \in Path,
             \/ Acquire(p) \/ Parse(p) \/ ParseFails(p) \/ DetectOutside(p) \/ Detect(p) \/ Check(p) \/ DryRun(p)
             \/ ReadContent(p) \/ Reparse(p) \/ Truncate(p) \/ Write(p) \/ ApplyFails(p)
      PROVE  FixInv'
  <2> DEFINE Keeps == Fixing /\ Alone(p) /\ Fixable(p) /\ Fixed(p) => Fixed(p)'
  <2>1. /\ p[1] \in File /\ text \in [File -> Seq(Line)]
        /\ task \in [Path -> Waits \cup {"status", "check", "dryRun", "done", "failed"} \cup Rewrites]
    BY DEF Path, LicenseInv, LicenseTypeOK
  <2>2. \A where : Goto(p, where) => task'[p] = where
    BY <2>1 DEF Goto
  <2>3. UNCHANGED run => Fix(p)' = Fix(p)
    BY FixStays
  <2>4. CASE Acquire(p)
    <3>1. Keeps
      BY <2>2, <2>3, <2>4 DEF Acquire, Fixed, Waits
    <3> HIDE DEF Keeps
    <3>2. task[p] # "none" /\ Goto(p, "parse") /\ UNCHANGED <<run, text, local>>
      BY <2>4 DEF Acquire
    <3> QED
      BY <3>1, <3>2, FixMoves DEF Keeps
  <2>5. CASE Parse(p)
    <3> DEFINE where == IF IsGeneratedFile(text[p[1]]) THEN "done" ELSE "status"
    <3>1. task[p] = "parse" /\ Goto(p, where) /\ UNCHANGED <<run, text, local>>
      BY <2>5 DEF Parse
    <3>2. Keeps
      <4> SUFFICES ASSUME Fixable(p), Fixed(p) PROVE Fixed(p)'
        OBVIOUS
      <4>1. text[p[1]] = run.text[p[1]]
        BY <3>1 DEF Fixed, Waits
      <4>2. task'[p] = "status"
        BY <2>2, <3>1, <4>1 DEF Fixable
      <4> QED
        BY <3>1, <4>1, <4>2 DEF Fixed, Waits
    <3> HIDE DEF Keeps, where
    <3> QED
      BY <3>1, <3>2, FixMoves DEF Keeps
  <2>6. CASE DetectOutside(p)
    <3>1. task[p] = "status" /\ Goto(p, "failed") /\ UNCHANGED <<run, text, local>>
      BY <2>6 DEF DetectOutside, Erred
    <3>2. Keeps
      BY <2>6 DEF DetectOutside, Fixable
    <3> HIDE DEF Keeps
    <3> QED
      BY <3>1, <3>2, FixMoves DEF Keeps
  <2>7. CASE Detect(p)
    <3>1. PICK where : /\ Goto(p, where)
                       /\ where = CASE Checking -> "check"
                                    [] ~Checking /\ FileStatus(p) = "unmodified" -> "done"
                                    [] OTHER -> Mode
      BY <2>7 DEF Detect
    <3>2. /\ task[p] = "status" /\ UNCHANGED <<run, text>>
          /\ \A q \in Path : q # p => local'[q] = local[q]
      BY <2>7 DEF Detect, LicenseInv, LicenseTypeOK
    <3>3. Keeps
      <4> SUFFICES ASSUME Fixing, Fixable(p), Fixed(p) PROVE Fixed(p)'
        OBVIOUS
      <4>1. task'[p] = "fix"
        BY <2>2, <3>1 DEF Fixing, Checking, Mode, Fixable
      <4> QED
        BY <3>2, <4>1 DEF Fixed, Waits
    <3> HIDE DEF Keeps
    <3> QED
      BY <3>1, <3>2, <3>3, FixMoves DEF Keeps
  <2>8. CASE Check(p)
    <3>1. task[p] = "check" /\ Goto(p, "done") /\ UNCHANGED <<run, text, local>>
      BY <2>8 DEF Check
    <3>2. ~Fixing
      BY <3>1 DEF LicenseInv, Tasks, Checking, Fixing
    <3>3. Keeps
      BY <3>2
    <3> HIDE DEF Keeps
    <3> QED
      BY <3>1, <3>3, FixMoves DEF Keeps
  <2>9. CASE DryRun(p)
    <3>1. task[p] = "dryRun" /\ Goto(p, "done") /\ UNCHANGED <<run, text, local>>
      BY <2>9 DEF DryRun
    <3>2. Keeps
      BY <3>1 DEF Fixed
    <3> HIDE DEF Keeps
    <3> QED
      BY <3>1, <3>2, FixMoves DEF Keeps
  <2>10. CASE ReadContent(p)
    <3>1. /\ task[p] = "fix" /\ Goto(p, "reparse") /\ UNCHANGED <<run, text>>
          /\ local'[p].content = text[p[1]] /\ \A q \in Path : q # p => local'[q] = local[q]
      BY <2>10 DEF ReadContent, LicenseInv, LicenseTypeOK
    <3>2. Keeps
      BY <2>2, <3>1 DEF Fixed, Waits
    <3> HIDE DEF Keeps
    <3> QED
      BY <3>1, <3>2, FixMoves DEF Keeps
  <2>11. CASE Reparse(p)
    <3> DEFINE result == ApplyHeader(local[p].content, ParseFileHeader(text[p[1]], Ext[p[1]]),
                                     GenerateHeader(local[p].status, Ext[p[1]]))
    <3>1. /\ task[p] = "reparse" /\ Goto(p, "truncate") /\ UNCHANGED <<run, text>>
          /\ local'[p].result = result /\ \A q \in Path : q # p => local'[q] = local[q]
      BY <2>11 DEF Reparse, LicenseInv, LicenseTypeOK
    <3>2. local[p].status = FileStatus(p)
      BY <3>1 DEF LicenseInv, Tasks, Rewrites
    <3>3. Keeps
      <4> SUFFICES ASSUME Fixed(p) PROVE Fixed(p)'
        OBVIOUS
      <4>1. result = Fix(p) /\ text[p[1]] = run.text[p[1]]
        BY <3>1, <3>2 DEF Fixed, Fix
      <4> HIDE DEF result
      <4> QED
        BY <2>2, <2>3, <3>1, <4>1 DEF Fixed, Waits
    <3> HIDE DEF Keeps
    <3> QED
      BY <3>1, <3>3, FixMoves DEF Keeps
  <2>12. CASE Truncate(p)
    <3>1. /\ task[p] = "truncate" /\ Goto(p, "write") /\ UNCHANGED <<run, local>>
          /\ \A f \in File : f # p[1] => text'[f] = text[f]
      BY <2>1, <2>12 DEF Truncate
    <3>2. Keeps
      BY <2>2, <2>3, <3>1 DEF Fixed, Waits
    <3> HIDE DEF Keeps
    <3> QED
      BY <3>1, <3>2, FixMoves DEF Keeps
  <2>13. CASE Write(p)
    <3>1. /\ task[p] = "write" /\ Goto(p, "done") /\ UNCHANGED <<run, local>>
          /\ text'[p[1]] = local[p].result
          /\ \A f \in File : f # p[1] => text'[f] = text[f]
      BY <2>1, <2>13 DEF Write
    <3>2. Keeps
      BY <2>2, <2>3, <3>1 DEF Fixed, Waits
    <3> HIDE DEF Keeps
    <3> QED
      BY <3>1, <3>2, FixMoves DEF Keeps
  <2>14. CASE ParseFails(p) \/ ApplyFails(p)
    <3>1. task[p] # "none" /\ Goto(p, "failed") /\ UNCHANGED <<run, text, local>>
      BY <2>14 DEF ParseFails, ApplyFails, Erred
    <3>2. Keeps
      BY <2>2, <2>3, <3>1 DEF Fixed, Waits
    <3> HIDE DEF Keeps
    <3> QED
      BY <3>1, <3>2, FixMoves DEF Keeps
  <2> QED
    BY <2>14, <1>3, <2>4, <2>5, <2>6, <2>7, <2>8, <2>9, <2>10, <2>11, <2>12, <2>13
<1> QED
  BY <1>1, <1>2, <1>3 DEF LicenseNext

\* What is scanned to its end has short lines only.
LEMMA AllShort ==
  ASSUME NEW t \in Seq(Harmless), t \in Seq(Line), Scanned(t) = Len(t)
  PROVE  t \in Seq(Short)
<1> DEFINE Long == {i \in DOMAIN t : t[i].says = "long"}
<1>1. Len(t) \in Nat /\ Long \in SUBSET (1 .. Len(t)) /\ Long \in SUBSET Nat
  OBVIOUS
<1>2. Scanned(t) = FirstOr(Long, Len(t) + 1) - 1
  BY DEF Scanned
<1>3. Long = {}
  <2> SUFFICES ASSUME Long # {} PROVE FALSE
    OBVIOUS
  <2> HIDE DEF Long
  <2>1. FirstOr(Long, 1) \in Nat /\ (FirstOr(Long, 1) = 1 \/ FirstOr(Long, 1) \in Long)
    BY <1>1, FirstIs
  <2>2. FirstOr(Long, Len(t) + 1) = FirstOr(Long, 1)
    BY DEF FirstOr
  <2>3. FirstOr(Long, 1) <= Len(t)
    <3>1. PICK i \in Long : TRUE
      OBVIOUS
    <3>2. \A k \in Long : k \in Nat /\ 1 <= k /\ k <= Len(t)
      BY <1>1
    <3>3. 1 <= Len(t)
      BY <1>1, <3>1, <3>2
    <3> QED
      BY <2>1, <3>2, <3>3
  <2> QED
    BY <1>1, <1>2, <2>1, <2>2, <2>3
<1> QED
  BY <1>3 DEF Short

\* What the invariants say once all goroutines have ended.
LEMMA FixedIs == LicenseInv /\ FixInv => FixedRight
<1> SUFFICES ASSUME LicenseInv, FixInv, Done, Fixing, NEW p \in Collected, p \notin Failed, Fixable(p),
                    \A q \in Collected : q[1] = p[1] => q = p,
                    Scanned(run.text[p[1]]) = Len(run.text[p[1]])
             PROVE  LET ext == Ext[p[1]]
                        before == run.text[p[1]]
                        after == text[p[1]]
                        again == ApplyHeader(after, ParseFileHeader(after, ext), GenerateHeader(FileStatus(p), ext))
                    IN /\ CheckHeader(after, ext, FileStatus(p))
                       /\ IsSuffixOf(Owed(before, ext), after)
                       /\ FewerEmpties(after, again, ext)
  BY DEF FixedRight
<1>1. p \in Path /\ p[1] \in File /\ run \in Run
  BY DEF Collected, Path, LicenseInv, LicenseTypeOK
<1>2. task[p] = "done"
  BY <1>1 DEF Done, LicenseInv, Tasks, Exited, Failed
<1>3. text[p[1]] = Fix(p)
  BY <1>1, <1>2 DEF FixInv, Alone, Fixed
<1>4. run.text[p[1]] \in Seq(Short)
  <2>1. run.text[p[1]] \in Seq(Line)
    BY <1>1, LicenseAssumption
  <2>2. run.text[p[1]] \in Seq(Harmless)
    BY <2>1, HarmlessText DEF Fixable
  <2> QED
    BY <2>1, <2>2, AllShort
<1>5. Opens(run.text[p[1]], Ext[p[1]])
  BY <1>1, ScriptAssumption DEF Opens
<1>6. FileStatus(p) \in {"modified", "new"}
  <2>1. run.fork[p[1]] \in {"new", "modified", "unmodified", "outside"}
    BY <1>1, LicenseAssumption
  <2> QED
    BY <2>1 DEF Fixable, FileStatus, Outside
<1> QED
  BY <1>3, <1>4, <1>5, <1>6, FixMakes DEF Fix

(***************************************************************************)
(* However many files and goroutines there are, a file that --fix handles  *)
(* alone and without an error, whatever its text as long as every line     *)
(* fits in a Scanner's buffer, has the header --check asks for, keeps its  *)
(* code and the comments after the header, and another --fix would take    *)
(* away nothing but empty lines (header.go:261-356).                       *)
(***************************************************************************)
THEOREM FixIsRight == LicenseSpec => []FixedRight
<1>1. LicenseSpec => []FixInv
  BY FixInit, FixNext, LicenseAlwaysInv, PTL DEF LicenseSpec
<1> QED
  BY <1>1, LicenseAlwaysInv, FixedIs, PTL

-----------------------------------------------------------------------------
(***************************************************************************)
(* What the maxima of a tracked entity are worth, for every set of metrics *)
(* and values.                                                             *)
(***************************************************************************)

\* A map of values, and what At makes of it.
LEMMA ValuesMap ==
  ASSUME NEW f \in Values
  PROVE  /\ DOMAIN f \subseteq Metric
         /\ \A m \in DOMAIN f : f[m] \in Nat /\ At(f, m) = f[m]
         /\ \A m : m \notin DOMAIN f => At(f, m) = 0
<1>1. PICK M \in SUBSET Metric : f \in [M -> Level]
  BY DEF Values
<1> QED
  BY <1>1, LevelAssumption DEF At

LEMMA EmptyIsValues == <<>> \in Values /\ DOMAIN <<>> = {}
<1>1. <<>> = [m \in {} |-> 0] /\ DOMAIN <<>> = {}
  OBVIOUS
<1> QED
  BY <1>1 DEF Values

LEMMA AtType == ASSUME NEW f \in Values, NEW m PROVE At(f, m) \in Nat
  BY LevelAssumption DEF At, Values

\* Writing entries over a map of values gives a map of values.
LEMMA WrittenValues ==
  ASSUME NEW f \in Values, NEW values \in Values, NEW M, M \subseteq DOMAIN values
  PROVE  /\ Written(f, values, M) \in Values
         /\ \A m : At(Written(f, values, M), m) =
                     IF m \in M THEN values[m] ELSE At(f, m)
<1>1. DOMAIN f \cup M \in SUBSET Metric
  BY DEF Values
<1>2. Written(f, values, M) \in [DOMAIN f \cup M -> Level]
  BY DEF Written, Values
<1>3. \A m : At(Written(f, values, M), m) = IF m \in M THEN values[m] ELSE At(f, m)
  BY DEF Written, At
<1> QED
  BY <1>1, <1>2, <1>3 DEF Values

-----------------------------------------------------------------------------
(* The order MaxBetween states, of the entity and of its copy in the file.    *)
Between(low, mid, high) ==
  \A m \in Metric : At(low, m) <= At(mid, m) /\ At(mid, m) <= At(high, m)

EntityInv ==
  /\ EntityTypeOK
  /\ Between(current, max, peak)
  /\ Between(saved.current, saved.max, saved.peak)
  /\ aliased => max = current

LEMMA EntityInitInv == EntityInit => EntityInv
<1> SUFFICES ASSUME EntityInit PROVE EntityInv
  OBVIOUS
<1>1. \A m : At(<<>>, m) = 0
  BY EmptyIsValues DEF At
<1>2. EntityTypeOK
  BY EmptyIsValues DEF EntityInit, EntityTypeOK, NoEntity
<1> QED
  BY <1>1, <1>2 DEF EntityInit, EntityInv, Between, NoEntity

LEMMA CreateInv ==
  ASSUME EntityInv, NEW values \in Reports, Create(values)
  PROVE  EntityInv'
<1>1. values \in Values
  BY DEF Reports
<1>2. Between(values, values, values)
  BY <1>1, AtType DEF Between
<1> QED
  BY <1>1, <1>2 DEF Create, EntityInv, EntityTypeOK, Between

\* A current value may fall, a peak may not, and the maximum follows either the
\* current values or the peaks.
LEMMA UpdateInv ==
  ASSUME EntityInv, NEW values \in Reports, Update(values)
  PROVE  EntityInv'
<1> DEFINE higher == {m \in DOMAIN values : values[m] > At(max, m)}
           record == {m \in DOMAIN values : m \in DOMAIN peak => values[m] > peak[m]}
<1>1. values \in Values /\ current \in Values /\ max \in Values /\ peak \in Values
  BY DEF Reports, EntityInv, EntityTypeOK
<1>2. /\ current' \in Values
      /\ \A m : At(current', m) = IF m \in DOMAIN values THEN values[m] ELSE At(current, m)
  BY <1>1, WrittenValues DEF Update
<1>3. /\ peak' \in Values
      /\ \A m : At(peak', m) = IF m \in record THEN values[m] ELSE At(peak, m)
  BY <1>1, WrittenValues DEF Update
<1>4. /\ Raised(max, values) \in Values
      /\ \A m : At(Raised(max, values), m) = IF m \in higher THEN values[m] ELSE At(max, m)
  BY <1>1, WrittenValues DEF Raised
<1>5. \A m \in DOMAIN values : values[m] \in Nat
  BY <1>1, ValuesMap
<1>6. \A m \in Metric : /\ At(current, m) \in Nat /\ At(max, m) \in Nat /\ At(peak, m) \in Nat
                        /\ At(current, m) <= At(max, m) /\ At(max, m) <= At(peak, m)
  BY <1>1, AtType DEF EntityInv, Between
<1>7. \A m \in DOMAIN values \ record : values[m] <= At(peak, m)
  BY <1>1, <1>5, ValuesMap
<1>8. \A m \in record : At(peak, m) <= values[m]
  BY <1>1, <1>5, ValuesMap
<1>9. \A m \in Metric : /\ At(peak', m) \in Nat
                        /\ At(peak, m) <= At(peak', m)
                        /\ m \in DOMAIN values => values[m] <= At(peak', m)
  <2> TAKE m \in Metric
  <2>1. CASE m \in record
    BY <1>3, <1>5, <1>6, <1>8, <2>1
  <2>2. CASE m \notin record
    <3>1. At(peak', m) = At(peak, m)
      BY <1>3, <2>2
    <3> HIDE DEF record
    <3> QED
      BY <1>6, <1>7, <2>2, <3>1
  <2> QED
    BY <2>1, <2>2
<1>10. \A m \in Metric : /\ At(current', m) <= At(max', m)
                         /\ At(max', m) <= At(peak', m)
  <2> HIDE DEF record, higher
  <2> TAKE m \in Metric
  <2>1. CASE aliased
    <3>1. max' = current' /\ max = current
      BY <2>1 DEF Update, EntityInv
    <3>2. At(max', m) \in Nat /\ At(max', m) = At(current', m)
      BY <1>2, <3>1, AtType
    <3>3. CASE m \in DOMAIN values
      BY <1>2, <1>5, <1>9, <3>2, <3>3
    <3>4. CASE m \notin DOMAIN values
      BY <1>2, <1>6, <1>9, <3>1, <3>2, <3>4
    <3> QED
      BY <3>3, <3>4
  <2>2. CASE ~aliased
    <3>1. max' = Raised(max, values)
      BY <2>2 DEF Update
    <3>2. CASE m \in higher
      BY <1>2, <1>4, <1>5, <1>6, <1>9, <3>1, <3>2 DEF higher
    <3>3. CASE m \notin higher
      <4>1. At(max', m) = At(max, m)
        BY <1>4, <3>1, <3>3
      <4>2. m \in DOMAIN values => values[m] <= At(max, m)
        BY <1>5, <1>6, <3>3 DEF higher
      <4> QED
        BY <1>2, <1>6, <1>9, <4>1, <4>2
    <3> QED
      BY <3>2, <3>3
  <2> QED
    BY <2>1, <2>2
<1>11. max' \in Values /\ (aliased' => max' = current')
  BY <1>2, <1>4 DEF Update
<1>12. EntityTypeOK' /\ saved' = saved
  BY <1>2, <1>3, <1>11 DEF Update, EntityInv, EntityTypeOK
<1> QED
  BY <1>10, <1>11, <1>12 DEF EntityInv, Between

LEMMA ForgetInv == ASSUME EntityInv, Forget PROVE EntityInv'
<1>1. \A m : At(<<>>, m) = 0
  BY EmptyIsValues DEF At
<1>2. Between(current, max, peak)'
  BY <1>1 DEF Forget, Between
<1>3. EntityTypeOK'
  BY EmptyIsValues DEF Forget, EntityInv, EntityTypeOK
<1> QED
  BY <1>2, <1>3 DEF Forget, EntityInv, Between

LEMMA SaveInv == ASSUME EntityInv, Save PROVE EntityInv'
  BY DEF Save, EntityInv, EntityTypeOK, Between

LEMMA RestartInv == ASSUME EntityInv, Restart PROVE EntityInv'
  BY DEF Restart, EntityInv, EntityTypeOK, Between

LEMMA EntityNextInv == EntityInv /\ [EntityNext]_entityVars => EntityInv'
<1> SUFFICES ASSUME EntityInv, [EntityNext]_entityVars PROVE EntityInv'
  OBVIOUS
<1>1. CASE UNCHANGED entityVars
  BY <1>1 DEF entityVars, EntityInv, EntityTypeOK, Between
<1> QED
  BY <1>1, CreateInv, UpdateInv, ForgetInv, SaveInv, RestartInv DEF EntityNext

LEMMA EntityAlwaysInv == EntitySpec => []EntityInv
  BY EntityInitInv, EntityNextInv, PTL DEF EntitySpec

\* The maps keep their types.
THEOREM ValueTypes == EntitySpec => []EntityTypeOK
<1>1. EntityInv => EntityTypeOK
  BY DEF EntityInv
<1> QED
  BY <1>1, EntityAlwaysInv, PTL

\* updateEntityValues: the maxima lie between the current values and the largest
\* values reported, with one map or with two, before and after restarts.
THEOREM MaximaBetween == EntitySpec => []MaxBetween
<1>1. EntityInv => MaxBetween
  BY DEF EntityInv, Between, MaxBetween
<1> QED
  BY <1>1, EntityAlwaysInv, PTL

\* Once the maps are apart, an update never lowers a maximum.
THEOREM MaximaGrow == EntitySpec => MaxFallsOnlyByRestart
<1> DEFINE Grow == exists /\ exists' /\ ~aliased /\ max' # saved.max
                     => \A m \in Metric : At(max', m) >= At(max, m)
<1>1. ASSUME EntityInv, [EntityNext]_entityVars PROVE [Grow]_entityVars
  <2>1. max \in Values /\ \A m \in Metric : At(max, m) \in Nat
    BY <1>1, AtType DEF EntityInv, EntityTypeOK
  <2>2. ASSUME NEW values \in Reports, Update(values), ~aliased PROVE Grow
    <3>1. values \in Values /\ max' = Raised(max, values)
      BY <2>2 DEF Update, Reports
    <3>2. \A m : At(max', m) = IF m \in {n \in DOMAIN values : values[n] > At(max, n)}
                               THEN values[m] ELSE At(max, m)
      BY <2>1, <3>1, WrittenValues DEF Raised
    <3>3. \A m \in DOMAIN values : values[m] \in Nat
      BY <3>1, ValuesMap
    <3> QED
      BY <2>1, <3>2, <3>3
  <2>3. ASSUME \E values \in Reports : Create(values) PROVE Grow
    BY <2>3 DEF Create
  <2>4. CASE Forget
    BY <2>4 DEF Forget
  <2>5. CASE Save
    BY <2>1, <2>5 DEF Save
  <2>6. CASE Restart
    BY <2>6 DEF Restart
  <2>7. ASSUME NEW values \in Reports, Update(values), aliased PROVE Grow
    BY <2>7
  <2> QED
    BY <1>1, <2>2, <2>3, <2>4, <2>5, <2>6, <2>7 DEF EntityNext
<1>2. EntityInv /\ [EntityNext]_entityVars => [Grow]_entityVars
  BY <1>1
<1> QED
  BY <1>2, EntityAlwaysInv, PTL DEF EntitySpec, MaxFallsOnlyByRestart

-----------------------------------------------------------------------------
(***************************************************************************)
(* What a processor runs with, for every configuration that the types of   *)
(* its fields allow.                                                       *)
(***************************************************************************)

\* The fields that Normalize can change, and what the others and they are then
LEMMA NormalizedFields ==
  ASSUME NEW c \in Config
  PROVE  LET n == Normalize(c) IN
    /\ n.MetricThresholds = c.MetricThresholds
    /\ n.MinThresholds = c.MinThresholds /\ n.MaxThresholds = c.MaxThresholds
    /\ n.EnableStorage = c.EnableStorage
    /\ n.EnableDynamicThresholds = c.EnableDynamicThresholds
    /\ n.EnableMultiMetric = c.EnableMultiMetric
    /\ n.EnableAnomalyDetection = c.EnableAnomalyDetection
    /\ n.RetentionMinutes \in 1 .. 30
    /\ n.DynamicSmoothingFactor \in Int
    /\ n.EnableDynamicThresholds => n.DynamicSmoothingFactor \in 1 .. 100
    /\ n.CompositeThreshold \in Int
    /\ n.EnableMultiMetric => n.CompositeThreshold > 0
    /\ n.AnomalyHistorySize \in Int /\ n.AnomalyHistorySize # 0
    /\ n.EnableAnomalyDetection => n.AnomalyHistorySize \in 1 .. 100
    /\ n.AnomalyChangeThreshold \in Int /\ n.AnomalyChangeThreshold # 0
    /\ n.EnableAnomalyDetection => n.AnomalyChangeThreshold > 0
    /\ n.AnomalyMinDataPoints \in Int /\ n.AnomalyMinDataPoints # 0
    /\ n.EnableAnomalyDetection =>
         /\ n.AnomalyMinDataPoints >= 3
         /\ n.AnomalyHistorySize < n.AnomalyMinDataPoints => n.AnomalyMinDataPoints = 3
BY ConfigTypes
DEF Normalize, OrDefault, AtMost, AtLeast, OrDefaultIfZero, MinDataPointsFor, maxRetentionMinutes,
    defaultRetentionMinutes, defaultDynamicSmoothingFactor, defaultCompositeThreshold,
    maxAnomalyHistorySize, defaultAnomalyHistorySize, defaultAnomalyChangeThreshold,
    defaultAnomalyMinDataPoints

Fields(metric, min, max_) ==
  [MetricThresholds : {metric}, MinThresholds : {min}, MaxThresholds : {max_},
   RetentionMinutes : Int, EnableStorage : {"nil", "true", "false"},
   EnableDynamicThresholds : BOOLEAN, DynamicSmoothingFactor : Int,
   EnableMultiMetric : BOOLEAN, CompositeThreshold : Int,
   EnableAnomalyDetection : BOOLEAN, AnomalyHistorySize : Int,
   AnomalyChangeThreshold : Int, AnomalyMinDataPoints : Int]

\* Writing into a configuration what it has changes nothing.
LEMMA WrittenAsItIs ==
  ASSUME NEW metric, NEW min, NEW max_, NEW n \in Fields(metric, min, max_)
  PROVE  n = [n EXCEPT !.RetentionMinutes = n.RetentionMinutes,
                       !.DynamicSmoothingFactor = n.DynamicSmoothingFactor,
                       !.CompositeThreshold = n.CompositeThreshold,
                       !.AnomalyHistorySize = n.AnomalyHistorySize,
                       !.AnomalyChangeThreshold = n.AnomalyChangeThreshold,
                       !.AnomalyMinDataPoints = n.AnomalyMinDataPoints]
BY DEF Fields

LEMMA WrittenNumbers ==
  ASSUME NEW metric, NEW min, NEW max_, NEW c \in Fields(metric, min, max_),
         NEW r \in Int, NEW f \in Int, NEW t \in Int, NEW h \in Int, NEW a \in Int, NEW d \in Int
  PROVE  [c EXCEPT !.RetentionMinutes = r, !.DynamicSmoothingFactor = f, !.CompositeThreshold = t,
                   !.AnomalyHistorySize = h, !.AnomalyChangeThreshold = a, !.AnomalyMinDataPoints = d]
           \in Fields(metric, min, max_)
BY DEF Fields

\* Normalizing twice is normalizing once.
LEMMA NormalizedStays == ASSUME NEW c \in Config PROVE Normalize(Normalize(c)) = Normalize(c)
<1> DEFINE n == Normalize(c)
<1>1. n \in Fields(c.MetricThresholds, c.MinThresholds, c.MaxThresholds)
  <2>1. c \in Fields(c.MetricThresholds, c.MinThresholds, c.MaxThresholds)
    BY ConfigTypes DEF Fields
  <2>2. /\ n.RetentionMinutes \in Int /\ n.DynamicSmoothingFactor \in Int /\ n.CompositeThreshold \in Int
        /\ n.AnomalyHistorySize \in Int /\ n.AnomalyChangeThreshold \in Int /\ n.AnomalyMinDataPoints \in Int
    BY NormalizedFields
  <2>3. PICK r, f, t, h, a, d :
          n = [c EXCEPT !.RetentionMinutes = r, !.DynamicSmoothingFactor = f, !.CompositeThreshold = t,
                        !.AnomalyHistorySize = h, !.AnomalyChangeThreshold = a, !.AnomalyMinDataPoints = d]
    BY Zenon DEF Normalize
  <2> HIDE DEF n
  <2>4. /\ n.RetentionMinutes = r /\ n.DynamicSmoothingFactor = f /\ n.CompositeThreshold = t
        /\ n.AnomalyHistorySize = h /\ n.AnomalyChangeThreshold = a /\ n.AnomalyMinDataPoints = d
    BY <2>1, <2>3 DEF Fields
  <2>5. r \in Int /\ f \in Int /\ t \in Int /\ h \in Int /\ a \in Int /\ d \in Int
    BY <2>2, <2>4
  <2> QED
    BY <2>1, <2>3, <2>5, WrittenNumbers
<1>2. /\ AtMost(OrDefault(n.RetentionMinutes, defaultRetentionMinutes), maxRetentionMinutes) = n.RetentionMinutes
      /\ n.EnableDynamicThresholds => n.DynamicSmoothingFactor \in 1 .. 100
      /\ n.EnableMultiMetric => OrDefault(n.CompositeThreshold, defaultCompositeThreshold) = n.CompositeThreshold
  BY NormalizedFields DEF OrDefault, AtMost, maxRetentionMinutes
<1>3. n.EnableAnomalyDetection =>
        /\ AtMost(OrDefault(n.AnomalyHistorySize, defaultAnomalyHistorySize), maxAnomalyHistorySize)
             = n.AnomalyHistorySize
        /\ OrDefault(n.AnomalyChangeThreshold, defaultAnomalyChangeThreshold) = n.AnomalyChangeThreshold
        /\ MinDataPointsFor(n.AnomalyHistorySize, n.AnomalyMinDataPoints) = n.AnomalyMinDataPoints
  BY NormalizedFields
  DEF OrDefault, AtMost, AtLeast, MinDataPointsFor, maxAnomalyHistorySize, defaultAnomalyMinDataPoints
<1>4. /\ OrDefaultIfZero(n.AnomalyHistorySize, defaultAnomalyHistorySize) = n.AnomalyHistorySize
      /\ OrDefaultIfZero(n.AnomalyChangeThreshold, defaultAnomalyChangeThreshold) = n.AnomalyChangeThreshold
      /\ OrDefaultIfZero(n.AnomalyMinDataPoints, defaultAnomalyMinDataPoints) = n.AnomalyMinDataPoints
  BY NormalizedFields DEF OrDefaultIfZero
<1> HIDE DEF n
<1>5. Normalize(n) = [n EXCEPT !.RetentionMinutes = n.RetentionMinutes,
                               !.DynamicSmoothingFactor = n.DynamicSmoothingFactor,
                               !.CompositeThreshold = n.CompositeThreshold,
                               !.AnomalyHistorySize = n.AnomalyHistorySize,
                               !.AnomalyChangeThreshold = n.AnomalyChangeThreshold,
                               !.AnomalyMinDataPoints = n.AnomalyMinDataPoints]
  BY <1>1, <1>2, <1>3, <1>4 DEF Normalize, Fields
<1> QED
  BY <1>1, <1>5, WrittenAsItIs DEF n

ConfigInv ==
  /\ processor.status = "none" => config \in Config
  /\ NormalizedIsConfig

LEMMA ConfigInitInv == ConfigInit => ConfigInv
BY DEF ConfigInit, ConfigFrom, ConfigInv, NormalizedIsConfig, RefusesOnlyNegative, RunsNormalized

LEMMA ConfigNextInv == ConfigInv /\ [ConfigNext]_configVars => ConfigInv'
<1> SUFFICES ASSUME ConfigInv, [ConfigNext]_configVars PROVE ConfigInv'
  OBVIOUS
<1>1. CASE UNCHANGED configVars
  BY <1>1 DEF configVars, ConfigInv, NormalizedIsConfig, RefusesOnlyNegative, RunsNormalized
<1>2. CASE createMetricsProcessor
  <2>1. config \in Config /\ config' = Normalize(config)
    BY <1>2 DEF createMetricsProcessor, ConfigInv
  <2>2. /\ config'.MetricThresholds = config.MetricThresholds
        /\ \A m \in DOMAIN config'.MetricThresholds : config'.MetricThresholds[m] \in Int
    BY <2>1, NormalizedFields, ConfigTypes
  <2>3. Validate(config') <=>
          ~Negative(config'.MetricThresholds) /\ ~Negative(config'.MinThresholds) /\ ~Negative(config'.MaxThresholds)
    BY <2>1, NormalizedFields DEF Validate
  <2>4. processor' = IF Validate(config') THEN NewProcessor(config') ELSE [status |-> "refused"]
    BY <1>2 DEF createMetricsProcessor
  <2>5. RefusesOnlyNegative'
    BY <2>3, <2>4 DEF RefusesOnlyNegative, NewProcessor
  <2>6. ASSUME processor'.status = "running", NEW m \in DOMAIN config'.MetricThresholds
        PROVE  m \in DOMAIN processor'.dynamic <=> config'.MetricThresholds[m] # 0
    <3>1. ~Negative(config'.MetricThresholds) /\ processor' = NewProcessor(config')
      BY <2>3, <2>4, <2>6
    <3>2. config'.MetricThresholds[m] \in Int /\ config'.MetricThresholds[m] >= 0
      BY <2>2, <2>6, <3>1 DEF Negative
    <3> QED
      BY <2>6, <3>1, <3>2 DEF NewProcessor
  <2>7. RunsNormalized'
    BY <2>1, <2>6, NormalizedFields, NormalizedStays DEF RunsNormalized
  <2> QED
    BY <2>4, <2>5, <2>7 DEF ConfigInv, NormalizedIsConfig, NewProcessor
<1> QED
  BY <1>1, <1>2 DEF ConfigNext

(* Whatever the YAML says, newProcessor refuses thresholds below zero and   *)
(* nothing else, and a processor that runs does so with the ranges the      *)
(* filter relies on; a second newProcessor with the same Config finds       *)
(* nothing to normalize (config.go).                                        *)
THEOREM NormalizationHolds == ConfigSpec => []NormalizedIsConfig
<1>1. ConfigInv => NormalizedIsConfig
  BY DEF ConfigInv
<1> QED
  BY <1>1, ConfigInitInv, ConfigNextInv, PTL DEF ConfigSpec

-----------------------------------------------------------------------------
(***************************************************************************)
(* The include list: the path that is looked up is that of the executable, *)
(* for every command line that tells where it ends.                        *)
(***************************************************************************)
LEMMA FirstOfOne == ASSUME NEW n \in Nat PROVE First({n}) = n
BY DEF First

LEMMA ExecutableFound ==
  ASSUME NEW r \in Report, r.executable # NoPath, Telling(r),
         ~GivenAs(r.attrs, "process.executable.path")
  PROVE  ExecutableOf(Text[r.attrs["process.command"]]) = r.executable
<1> DEFINE shown == Text[r.attrs["process.command"]]
           n == Len(r.executable.words)
           said == {i \in DOMAIN shown.words : shown.words[i].ext # ""}
           found == {i \in DOMAIN Exts : Ending(shown.words, Exts[i]) # {}}
<1>1. /\ r.attrs["process.command"] \in DOMAIN Text
      /\ UpTo(shown, n) = r.executable
  BY ReportAssumption
<1>2. /\ shown = [form |-> shown.form, words |-> shown.words]
      /\ Len(shown.words) \in Nat /\ DOMAIN shown.words = 1 .. Len(shown.words)
      /\ \A i \in DOMAIN shown.words : shown.words[i].ext \in {"", ".exe", ".bat", ".cmd"}
  BY <1>1, ReportAssumption
<1> HIDE DEF shown
<1>3. r.executable.form = shown.form
  <2>1. UpTo(shown, n).form = shown.form
    BY <1>2 DEF UpTo
  <2> QED
    BY <1>1, <2>1
<1>4. \/ r.executable.form = "unix" /\ n = 1
      \/ r.executable.form = "windows" /\ (said = {n} \/ (n = 1 /\ said = {}))
  BY DEF Telling, shown
<1>5. DOMAIN Exts = 1 .. 3 /\ Exts[1] = ".exe" /\ Exts[2] = ".bat" /\ Exts[3] = ".cmd"
  BY DEF Exts
<1>9. ASSUME NEW j \in 1 .. 3 PROVE Ending(shown.words, Exts[j]) \subseteq said
  <2>1. j = 1 \/ j = 2 \/ j = 3
    OBVIOUS
  <2>2. Exts[j] # ""
    BY <1>5, <2>1
  <2> QED
    BY <2>2 DEF Ending
<1>6. CASE shown.form = "unix"
  <2>1. ExecutableOf(shown) = UpTo(shown, 1)
    BY <1>6 DEF ExecutableOf
  <2>2. n = 1
    BY <1>3, <1>4, <1>6
  <2> QED
    BY <1>1, <2>1, <2>2 DEF shown
<1>7. CASE shown.form = "windows" /\ said = {}
  <2>1. found = {}
    <3>1. \A j \in 1 .. 3 : Ending(shown.words, Exts[j]) = {}
      BY <1>7, <1>9
    <3> QED
      BY <1>5, <3>1
  <2>2. ExecutableOf(shown) = UpTo(shown, 1)
    BY <1>7, <2>1 DEF ExecutableOf
  <2>3. n = 1
    BY <1>3, <1>4, <1>7
  <2> QED
    BY <1>1, <2>2, <2>3 DEF shown
<1>8. CASE shown.form = "windows" /\ said = {n}
  <2>1. n \in DOMAIN shown.words /\ n \in Nat /\ shown.words[n].ext \in {".exe", ".bat", ".cmd"}
    <3>1. n \in said
      BY <1>8
    <3>2. n \in DOMAIN shown.words /\ shown.words[n].ext # ""
      BY <3>1
    <3>3. n \in 1 .. Len(shown.words)
      BY <1>2, <3>2
    <3>4. n \in Nat
      <4> HIDE DEF n
      <4>1. Len(shown.words) \in Nat
        BY <1>2
      <4> QED
        BY <3>3, <4>1
    <3> QED
      BY <1>2, <3>2, <3>4
  <2>2. PICK i \in 1 .. 3 : Exts[i] = shown.words[n].ext
    BY <1>5, <2>1
  <2>3. Ending(shown.words, Exts[i]) = {n}
    <3>1. n \in Ending(shown.words, Exts[i])
      BY <2>1, <2>2 DEF Ending
    <3> QED
      BY <1>8, <1>9, <3>1
  <2>4. found = {i}
    <3>1. ASSUME NEW j \in 1 .. 3, j # i PROVE Ending(shown.words, Exts[j]) = {}
      <4>1. Exts[j] # Exts[i]
        BY <1>5, <3>1
      <4>2. n \notin Ending(shown.words, Exts[j])
        BY <2>2, <4>1 DEF Ending
      <4> QED
        BY <1>8, <1>9, <4>2
    <3>2. \A j \in 1 .. 3 : Ending(shown.words, Exts[j]) # {} <=> j = i
      BY <2>3, <3>1
    <3> QED
      BY <1>5, <3>2
  <2>5. First(found) = i /\ First(Ending(shown.words, Exts[i])) = n
    <3>1. i \in Nat /\ n \in Nat
      BY <2>1
    <3>2. First({i}) = i /\ First({n}) = n
      BY <3>1, FirstOfOne
    <3> QED
      BY <2>3, <2>4, <3>2
  <2>6. ExecutableOf(shown) = UpTo(shown, n)
    BY <1>8, <2>4, <2>5 DEF ExecutableOf
  <2> QED
    BY <1>1, <2>6 DEF shown
<1> QED
  BY <1>3, <1>4, <1>6, <1>7, <1>8

LEMMA PathFound ==
  ASSUME NEW r \in Report, r.executable # NoPath, Telling(r)
  PROVE  extractProcessExecutablePath(r.attrs) = r.executable
<1>1. CASE GivenAs(r.attrs, "process.executable.path")
  BY <1>1, ReportAssumption DEF extractProcessExecutablePath
<1>2. CASE ~GivenAs(r.attrs, "process.executable.path")
  BY <1>2, ReportAssumption, ExecutableFound DEF extractProcessExecutablePath
<1> QED
  BY <1>1, <1>2

(***************************************************************************)
(* For every include list and every text, a process bypasses the filter if *)
(* and only if the path of its executable is an entry (utils.go:327), if   *)
(* it reports the path or a command line that begins with it.              *)
(***************************************************************************)
THEOREM ListedByPath == ReportSpec => []IncludedByPath
<1> DEFINE OnlyReports == reports \subseteq Report
<1>1. ReportInit => OnlyReports
  BY DEF ReportInit
<1>2. OnlyReports /\ [ReportNext]_reports => OnlyReports'
  BY DEF ReportNext, Receive
<1>3. OnlyReports => IncludedByPath
  BY PathFound DEF IncludedByPath, isProcessInIncludeList
<1> QED
  BY <1>1, <1>2, <1>3, PTL DEF ReportSpec

-----------------------------------------------------------------------------
(***************************************************************************)
(* Identities: what each kind of entity is tracked under, and that this    *)
(* tells its name and its host.                                            *)
(***************************************************************************)

\* The tests of identifyHostMetricType, by their number
Passes(a, i) ==
  \/ i = 1 /\ Has(a, "cpu")
  \/ i = 2 /\ Has(a, "device") /\ Is(a, "direction", {"read", "write"})
  \/ i = 3 /\ Has(a, "mountpoint")
  \/ i = 4 /\ Has(a, "type") /\ Is(a, "state", {"free", "reserved", "used"})
  \/ i = 5 /\ Is(a, "state", MemoryStates)
  \/ i = 6 /\ Has(a, "device") /\ (Is(a, "direction", {"receive", "transmit"}) \/ Has(a, "protocol") \/ Has(a, "state"))
  \/ i = 7 /\ Has(a, "protocol") /\ Has(a, "state")
  \/ i = 8 /\ Is(a, "direction", {"page_in", "page_out"})
  \/ i = 9 /\ Is(a, "state", {"cached", "free", "used"}) /\ Has(a, "device")
  \/ i = 10 /\ Is(a, "type", {"major", "minor"})
  \/ i = 11 /\ Has(a, "process.pid")
  \/ i = 12 /\ Is(a, "status", ProcessesStatuses)
  \/ i = 13 /\ Has(a, "device") /\ \A k \in {"direction", "mountpoint", "protocol", "state", "type"} : ~Has(a, k)
  \/ i = 14 /\ Has(a, "host.name")

TestTypes == <<"cpu", "disk", "filesystem", "filesystem", "memory", "network", "network", "paging", "paging",
               "paging", "process", "processes", "disk", "system">>

\* There are as many tests, they have these types, and pass when they should.
LEMMA TestsAre ==
  ASSUME NEW a
  PROVE  /\ DOMAIN HostMetricTests(a) = 1 .. 14
         /\ \A i \in 1 .. 14 : /\ HostMetricTests(a)[i].type = TestTypes[i]
                               /\ HostMetricTests(a)[i].found <=> Passes(a, i)
<1>1. DOMAIN HostMetricTests(a) = 1 .. 14
  BY DEF HostMetricTests
<1>2. \A i \in 1 .. 14 : HostMetricTests(a)[i].type = TestTypes[i]
  BY DEF HostMetricTests, TestTypes
<1>3. \A i \in 1 .. 14 : HostMetricTests(a)[i].found <=> Passes(a, i)
  <2>1. HostMetricTests(a)[1].found <=> Passes(a, 1)
    <3>1. HostMetricTests(a)[1].found <=> (Has(a, "cpu"))
      BY DEF HostMetricTests
    <3>2. Passes(a, 1) <=> (Has(a, "cpu"))
      BY DEF Passes
    <3> QED
      BY <3>1, <3>2
  <2>2. HostMetricTests(a)[2].found <=> Passes(a, 2)
    <3>1. HostMetricTests(a)[2].found <=> (Has(a, "device") /\ Is(a, "direction", {"read", "write"}))
      BY DEF HostMetricTests
    <3>2. Passes(a, 2) <=> (Has(a, "device") /\ Is(a, "direction", {"read", "write"}))
      BY DEF Passes
    <3> QED
      BY <3>1, <3>2
  <2>3. HostMetricTests(a)[3].found <=> Passes(a, 3)
    <3>1. HostMetricTests(a)[3].found <=> (Has(a, "mountpoint"))
      BY DEF HostMetricTests
    <3>2. Passes(a, 3) <=> (Has(a, "mountpoint"))
      BY DEF Passes
    <3> QED
      BY <3>1, <3>2
  <2>4. HostMetricTests(a)[4].found <=> Passes(a, 4)
    <3>1. HostMetricTests(a)[4].found <=> (Has(a, "type") /\ Is(a, "state", {"free", "reserved", "used"}))
      BY DEF HostMetricTests
    <3>2. Passes(a, 4) <=> (Has(a, "type") /\ Is(a, "state", {"free", "reserved", "used"}))
      BY DEF Passes
    <3> QED
      BY <3>1, <3>2
  <2>5. HostMetricTests(a)[5].found <=> Passes(a, 5)
    <3>1. HostMetricTests(a)[5].found <=> (Is(a, "state", MemoryStates))
      BY DEF HostMetricTests
    <3>2. Passes(a, 5) <=> (Is(a, "state", MemoryStates))
      BY DEF Passes
    <3> QED
      BY <3>1, <3>2
  <2>6. HostMetricTests(a)[6].found <=> Passes(a, 6)
    <3>1. HostMetricTests(a)[6].found <=>
            /\ Has(a, "device")
            /\ Is(a, "direction", {"receive", "transmit"}) \/ Has(a, "protocol") \/ Has(a, "state")
      BY DEF HostMetricTests
    <3>2. Passes(a, 6) <=>
            /\ Has(a, "device")
            /\ Is(a, "direction", {"receive", "transmit"}) \/ Has(a, "protocol") \/ Has(a, "state")
      BY DEF Passes
    <3> QED
      BY <3>1, <3>2
  <2>7. HostMetricTests(a)[7].found <=> Passes(a, 7)
    <3>1. HostMetricTests(a)[7].found <=> (Has(a, "protocol") /\ Has(a, "state"))
      BY DEF HostMetricTests
    <3>2. Passes(a, 7) <=> (Has(a, "protocol") /\ Has(a, "state"))
      BY DEF Passes
    <3> QED
      BY <3>1, <3>2
  <2>8. HostMetricTests(a)[8].found <=> Passes(a, 8)
    <3>1. HostMetricTests(a)[8].found <=> (Is(a, "direction", {"page_in", "page_out"}))
      BY DEF HostMetricTests
    <3>2. Passes(a, 8) <=> (Is(a, "direction", {"page_in", "page_out"}))
      BY DEF Passes
    <3> QED
      BY <3>1, <3>2
  <2>9. HostMetricTests(a)[9].found <=> Passes(a, 9)
    <3>1. HostMetricTests(a)[9].found <=> (Is(a, "state", {"cached", "free", "used"}) /\ Has(a, "device"))
      BY DEF HostMetricTests
    <3>2. Passes(a, 9) <=> (Is(a, "state", {"cached", "free", "used"}) /\ Has(a, "device"))
      BY DEF Passes
    <3> QED
      BY <3>1, <3>2
  <2>10. HostMetricTests(a)[10].found <=> Passes(a, 10)
    <3>1. HostMetricTests(a)[10].found <=> (Is(a, "type", {"major", "minor"}))
      BY DEF HostMetricTests
    <3>2. Passes(a, 10) <=> (Is(a, "type", {"major", "minor"}))
      BY DEF Passes
    <3> QED
      BY <3>1, <3>2
  <2>11. HostMetricTests(a)[11].found <=> Passes(a, 11)
    <3>1. HostMetricTests(a)[11].found <=> (Has(a, "process.pid"))
      BY DEF HostMetricTests
    <3>2. Passes(a, 11) <=> (Has(a, "process.pid"))
      BY DEF Passes
    <3> QED
      BY <3>1, <3>2
  <2>12. HostMetricTests(a)[12].found <=> Passes(a, 12)
    <3>1. HostMetricTests(a)[12].found <=> (Is(a, "status", ProcessesStatuses))
      BY DEF HostMetricTests
    <3>2. Passes(a, 12) <=> (Is(a, "status", ProcessesStatuses))
      BY DEF Passes
    <3> QED
      BY <3>1, <3>2
  <2>13. HostMetricTests(a)[13].found <=> Passes(a, 13)
    <3>1. HostMetricTests(a)[13].found <=>
            Has(a, "device") /\ \A k \in {"direction", "mountpoint", "protocol", "state", "type"} : ~Has(a, k)
      BY DEF HostMetricTests
    <3>2. Passes(a, 13) <=>
            Has(a, "device") /\ \A k \in {"direction", "mountpoint", "protocol", "state", "type"} : ~Has(a, k)
      BY DEF Passes
    <3> QED
      BY <3>1, <3>2
  <2>14. HostMetricTests(a)[14].found <=> Passes(a, 14)
    <3>1. HostMetricTests(a)[14].found <=> (Has(a, "host.name"))
      BY DEF HostMetricTests
    <3>2. Passes(a, 14) <=> (Has(a, "host.name"))
      BY DEF Passes
    <3> QED
      BY <3>1, <3>2
  <2> QED
    BY <2>1, <2>2, <2>3, <2>4, <2>5, <2>6, <2>7, <2>8, <2>9, <2>10, <2>11, <2>12, <2>13, <2>14
<1> QED
  BY <1>1, <1>2, <1>3

\* The first test that passes gives the type.
LEMMA TypeAt ==
  ASSUME NEW a, NEW i \in 1 .. 14, Passes(a, i), \A j \in 1 .. i - 1 : ~Passes(a, j)
  PROVE  identifyHostMetricType(a) = TestTypes[i]
<1> DEFINE tests == HostMetricTests(a)
           found == {j \in DOMAIN tests : tests[j].found}
<1>1. /\ DOMAIN tests = 1 .. 14 /\ tests[i].type = TestTypes[i]
      /\ \A j \in 1 .. 14 : tests[j].found <=> Passes(a, j)
  BY TestsAre
<1> HIDE DEF tests
<1>2. i \in found /\ \A j \in found : i <= j
  BY <1>1
<1>3. found # {} /\ First(found) = i
  <2>1. \A j \in found : j \in Nat
    BY <1>1
  <2> HIDE DEF found
  <2>2. \A k \in found : (\A j \in found : k <= j) => k = i
    BY <1>2, <2>1
  <2> QED
    BY <1>2, <2>2 DEF First
<1> HIDE DEF found
<1>4. identifyHostMetricType(a) = tests[First(found)].type
  BY <1>3 DEF identifyHostMetricType, tests, found
<1> QED
  BY <1>1, <1>3, <1>4

\* No type if none does.
LEMMA NoType ==
  ASSUME NEW a, \A j \in 1 .. 14 : ~Passes(a, j)
  PROVE  identifyHostMetricType(a) = ""
<1> DEFINE tests == HostMetricTests(a)
           found == {j \in DOMAIN tests : tests[j].found}
<1>1. DOMAIN tests = 1 .. 14 /\ \A j \in 1 .. 14 : tests[j].found <=> Passes(a, j)
  BY TestsAre
<1> HIDE DEF tests
<1>2. found = {}
  BY <1>1
<1> QED
  BY <1>2 DEF identifyHostMetricType, tests

\* The kind, the key and the host an entity is tracked under
KindOf(of) ==
  CASE of[1] \in {"interface", "connections"} -> "network"
    [] of[1] \in {"mounted", "unmounted"} -> "filesystem"
    [] of[1] = "instance" -> "service.instance.id"
    [] of[1] = "other" -> "fallback"
    [] OTHER -> of[1]

KeyOf(of) ==
  CASE of[1] = "cpu" -> [k \in {"cpu"} |-> of[2]]
    [] of[1] \in {"disk", "interface"} -> [k \in {"device"} |-> of[2]]
    [] of[1] \in {"mounted", "unmounted", "process"} -> [id |-> of[2]]
    [] of[1] \in {"connections", "paging"} -> [k \in {} |-> of[2]]
    [] of[1] = "instance" -> [k \in {"service.instance.id"} |-> of[2]]
    [] of[1] = "service" -> [k \in {"service.name"} \cup (IF of[3] = "" THEN {} ELSE {"service.namespace"}) |->
                               IF k = "service.name" THEN of[2] ELSE of[3]]
    [] of[1] = "other" -> of[2]
    [] OTHER -> <<>>

HostTags == {"cpu", "disk", "interface", "connections", "mounted", "unmounted", "memory", "paging",
             "process", "processes", "system"}

\* What a host has one of has no name.
Nameless == {"connections", "memory", "paging", "processes", "system"}

NamedRight(tag, what) == tag \in Nameless => what = ""

HostOf(of) == IF of[1] \in HostTags THEN of[3] ELSE ""

IdentityOf(of) == [kind |-> KindOf(of), key |-> KeyOf(of), host |-> HostOf(of)]

\* Its name says where an entity is tracked, and of which type it is.
Tracked(r) ==
  /\ r.of = <<r.of[1], r.of[2], r.of[3]>> /\ NamedRight(r.of[1], r.of[2])
  /\ buildResourceIdentity(r.attrs) = IdentityOf(r.of)
  /\ \/ r.of[1] \in HostTags /\ getResourceType(r.attrs) = <<KindOf(r.of)>>
     \/ r.of[1] = "service" /\ getResourceType(r.attrs) = <<"service", r.of[2]>>
     \/ /\ r.of[1] = "instance" /\ r.of[3] = ""
        /\ getResourceType(r.attrs) = IF Has(r.attrs, "service.name") THEN <<"service", r.attrs["service.name"]>>
                                      ELSE <<"unknown">>
     \/ r.of[1] = "other" /\ r.of[3] = "" /\ getResourceType(r.attrs) = <<"unknown">>

\* A resource with a type is tracked by it.
LEMMA HostMetric ==
  ASSUME NEW r, NEW tag \in HostTags, NEW what, r.of = <<tag, what, getHostName(r.attrs)>>,
         identifyHostMetricType(r.attrs) = KindOf(r.of),
         HostMetricKey(r.attrs, KindOf(r.of)) = KeyOf(r.of), NamedRight(tag, what)
  PROVE  Tracked(r)
<1>1. r.of[1] = tag /\ r.of[2] = what /\ r.of[3] = getHostName(r.attrs)
  OBVIOUS
<1>2. KindOf(r.of) # ""
  BY <1>1 DEF KindOf, HostTags
<1>3. buildResourceIdentity(r.attrs) = buildHostMetricIdentity(r.attrs, KindOf(r.of))
  BY <1>2 DEF buildResourceIdentity
<1>4. buildResourceIdentity(r.attrs) = IdentityOf(r.of)
  BY <1>1, <1>3 DEF buildHostMetricIdentity, IdentityOf, HostOf
<1>5. getResourceType(r.attrs) = <<KindOf(r.of)>>
  BY <1>2 DEF getResourceType
<1> QED
  BY <1>1, <1>4, <1>5 DEF Tracked

\* Attributes of an unhosted resource, which no test passes.
LEMMA Unhosted ==
  ASSUME NEW a, DOMAIN a \cap TestedKeys = {}, ~Has(a, "host.name")
  PROVE  identifyHostMetricType(a) = ""
<1>1. ASSUME NEW k \in TestedKeys PROVE ~Has(a, k)
  BY DEF Has
<1>2. \A k \in {"cpu", "device", "direction", "mountpoint", "protocol", "state", "type",
               "process.pid", "status"} : ~Has(a, k)
  BY <1>1 DEF TestedKeys
<1>3. \A j \in 1 .. 14 : ~Passes(a, j)
  BY <1>2 DEF Passes, Is, Has
<1> QED
  BY <1>3, NoType

\* The one value an identity is made of, or the only one that is not empty.
LEMMA EitherIs ==
  ASSUME NEW a, NEW k, NEW l
  PROVE  /\ Has(a, k) /\ a[k] # "" => EitherOf(a, k, l) = [id |-> a[k]]
         /\ IfHas(a, k, {""}) /\ Has(a, l) /\ a[l] # "" => EitherOf(a, k, l) = [id |-> a[l]]
<1> DEFINE pair == <<k, l>>
           good(i) == Has(a, pair[i]) /\ a[pair[i]] # ""
           given == {i \in 1 .. 2 : good(i)}
<1>1. pair[1] = k /\ pair[2] = l
  OBVIOUS
<1>2. EitherOf(a, k, l) = [id |-> IF given = {} THEN "unknown" ELSE a[pair[First(given)]]]
  BY DEF EitherOf
<1>3. (good(1) <=> Has(a, k) /\ a[k] # "") /\ (good(2) <=> Has(a, l) /\ a[l] # "")
  BY <1>1
<1> HIDE DEF pair, good
<1>4. ASSUME Has(a, k), a[k] # "" PROVE EitherOf(a, k, l) = [id |-> a[k]]
  <2>1. good(1)
    BY <1>3, <1>4
  <2>2. 1 \in given /\ \A i \in given : i \in Nat /\ 1 <= i
    BY <2>1
  <2> HIDE DEF given
  <2>3. \A i \in given : (\A j \in given : i <= j) => i = 1
    BY <2>2
  <2>4. First(given) = 1 /\ given # {}
    BY <2>2, <2>3 DEF First
  <2> QED
    BY <1>1, <1>2, <2>4
<1>5. ASSUME IfHas(a, k, {""}), Has(a, l), a[l] # "" PROVE EitherOf(a, k, l) = [id |-> a[l]]
  <2>1. ~good(1) /\ good(2)
    BY <1>3, <1>5 DEF IfHas
  <2>2. given = {2}
    BY <2>1
  <2> HIDE DEF given
  <2>3. First(given) = 2 /\ given # {}
    BY <2>2, FirstOfOne
  <2> QED
    BY <1>1, <1>2, <2>3
<1> QED
  BY <1>4, <1>5

\* The value of one key, if it is there.
LEMMA OfOne ==
  ASSUME NEW a, NEW k
  PROVE  /\ Has(a, k) => Of(a, {k}) = [l \in {k} |-> a[k]]
         /\ ~Has(a, k) => \A v : Of(a, {k}) = [l \in {} |-> v]
BY DEF Of, Has

\* Few attributes fit, all of them.
LEMMA AllFit ==
  ASSUME NEW r \in Report, IsFiniteSet(DOMAIN r.attrs), Cardinality(DOMAIN r.attrs) <= Fits
  PROVE  buildFallbackIdentity(r.attrs) = [kind |-> "fallback", key |-> r.attrs, host |-> ""]
<1> DEFINE a == r.attrs
           before(k) == {j \in DOMAIN KeyOrder : Has(a, KeyOrder[j]) /\ \E i \in DOMAIN KeyOrder :
                                                   KeyOrder[i] = k /\ j < i}
<1>1. a \in [DOMAIN a -> STRING] /\ Fits \in Nat
  BY ScrapeAssumption, IdentityAssumption
<1>2. /\ \A i, j \in DOMAIN KeyOrder : KeyOrder[i] = KeyOrder[j] => i = j
      /\ DOMAIN KeyOrder = 1 .. Len(KeyOrder) /\ Len(KeyOrder) \in Nat
  BY ScrapeAssumption
<1>3. ASSUME NEW k \in DOMAIN a PROVE Cardinality(before(k)) < Fits
  <2> DEFINE D == DOMAIN a
             others == D \ {k}
             f == [j \in before(k) |-> KeyOrder[j]]
  <2>1. f \in [before(k) -> others]
    BY <1>2 DEF Has
  <2>2. \A i, j \in before(k) : f[i] = f[j] => i = j
    BY <1>2
  <2>3. IsFiniteSet(others) /\ Cardinality(others) = Cardinality(D) - 1 /\ Cardinality(D) \in Nat
    BY FS_RemoveElement, FS_CardinalityType
  <2> HIDE DEF f, others, D, before
  <2>4. f \in Injection(before(k), others)
    BY <2>1, <2>2 DEF Injection, IsInjective
  <2>5. IsFiniteSet(before(k)) /\ Cardinality(before(k)) <= Cardinality(others)
    BY <2>3, <2>4, FS_Injection DEF ExistsInjection
  <2>6. Cardinality(before(k)) \in Nat /\ Cardinality(D) <= Fits
    BY <2>5, FS_CardinalityType DEF D
  <2> QED
    BY <1>1, <2>3, <2>5, <2>6
<1>4. {k \in DOMAIN a : Cardinality(before(k)) < Fits} = DOMAIN a
  BY <1>3
<1>5. Of(a, DOMAIN a) = a
  BY <1>1 DEF Of
<1>6. buildFallbackIdentity(a) =
        [kind |-> "fallback", key |-> Of(a, {k \in DOMAIN a : Cardinality(before(k)) < Fits}), host |-> ""]
  BY DEF buildFallbackIdentity
<1> QED
  BY <1>4, <1>5, <1>6

\* Each kind of entity, with the test that passes first.
LEMMA AllTracked == ASSUME NEW r \in Report, Scraped(r), ~Misnamed(r) PROVE Tracked(r)
<1> DEFINE a == r.attrs
           keys == DOMAIN a \cap TestedKeys
           host == getHostName(a)
<1>1. ASSUME NEW k \in TestedKeys PROVE Has(a, k) <=> k \in keys
  BY DEF Has
<1>2. TestedKeys = {"cpu", "device", "direction", "mountpoint", "protocol", "state", "type", "process.pid", "status"}
  BY DEF TestedKeys
<1>3. /\ Has(a, "cpu") <=> "cpu" \in keys
      /\ Has(a, "device") <=> "device" \in keys
      /\ Has(a, "direction") <=> "direction" \in keys
      /\ Has(a, "mountpoint") <=> "mountpoint" \in keys
      /\ Has(a, "protocol") <=> "protocol" \in keys
      /\ Has(a, "state") <=> "state" \in keys
      /\ Has(a, "type") <=> "type" \in keys
      /\ Has(a, "process.pid") <=> "process.pid" \in keys
      /\ Has(a, "status") <=> "status" \in keys
  BY <1>1, <1>2
<1>4. \A k, S : Is(a, k, S) <=> Has(a, k) /\ a[k] \in S
  BY DEF Is, Has
<1>5. \A k, S : IfHas(a, k, S) <=> (Has(a, k) => a[k] \in S)
  BY DEF IfHas
<1>6. \A x, y, z : r.of = <<x, y, z>> => r.of[1] = x /\ r.of[2] = y /\ r.of[3] = z
  OBVIOUS
<1> HIDE DEF a, keys, host
<1>7. CASE Has(a, "cpu") /\ r.of = <<"cpu", a["cpu"], host>>
  <2>1. identifyHostMetricType(a) = "cpu"
    <3>1. Passes(a, 1)
      BY <1>3, <1>4, <1>5, <1>7 DEF Passes
    <3>2. TestTypes[1] = "cpu"
      BY DEF TestTypes
    <3> QED
      BY <3>1, <3>2, TypeAt
  <2>2. r.of[1] = "cpu" /\ r.of[2] = a["cpu"] /\ r.of = <<"cpu", a["cpu"], getHostName(r.attrs)>>
    BY <1>7 DEF host, a
  <2>3. KindOf(r.of) = "cpu" /\ KeyOf(r.of) = [k \in {"cpu"} |-> a["cpu"]]
    BY <2>2 DEF KindOf, KeyOf
  <2>4. HostMetricKey(a, "cpu") = Of(a, {"cpu"})
    BY DEF HostMetricKey
  <2>5. Of(a, {"cpu"}) = [k \in {"cpu"} |-> a["cpu"]]
    BY <1>3, <1>7, OfOne
  <2>6. /\ "cpu" \in HostTags /\ NamedRight("cpu", a["cpu"])
       /\ identifyHostMetricType(r.attrs) = KindOf(r.of)
       /\ HostMetricKey(r.attrs, KindOf(r.of)) = KeyOf(r.of)
    BY <2>1, <2>3, <2>4, <2>5 DEF a, HostTags, NamedRight, Nameless
  <2> QED
    BY <2>2, <2>6, HostMetric
<1>8. CASE /\ Has(a, "device")
          /\ keys \subseteq {"device", "direction"}
          /\ IfHas(a, "direction", {"read", "write"})
          /\ r.of = <<"disk", a["device"], host>>
  <2>1. /\ ~Has(a, "cpu")
       /\ ~Has(a, "mountpoint")
       /\ ~Has(a, "protocol")
       /\ ~Has(a, "state")
       /\ ~Has(a, "type")
       /\ ~Has(a, "process.pid")
       /\ ~Has(a, "status")
    BY <1>3, <1>8
  <2>2. identifyHostMetricType(a) = "disk"
    <3>1. CASE Has(a, "direction")
      <4>1. Passes(a, 2)
        BY <1>3, <1>4, <1>5, <1>8, <2>1, <3>1 DEF Passes
      <4>2. \A j \in 1 .. 1 : ~Passes(a, j)
        BY <1>8, <2>1, <3>1 DEF Passes, Is, Has, IfHas
      <4>3. TestTypes[2] = "disk"
        BY DEF TestTypes
      <4> QED
        BY <4>1, <4>2, <4>3, TypeAt
    <3>2. CASE ~Has(a, "direction")
      <4>1. Passes(a, 13)
        BY <1>3, <1>4, <1>5, <1>8, <2>1, <3>2 DEF Passes
      <4>2. \A j \in 1 .. 12 : ~Passes(a, j)
        BY <1>8, <2>1, <3>2 DEF Passes, Is, Has, IfHas
      <4>3. TestTypes[13] = "disk"
        BY DEF TestTypes
      <4> QED
        BY <4>1, <4>2, <4>3, TypeAt
    <3> QED
      BY <3>1, <3>2
  <2>3. r.of[1] = "disk" /\ r.of[2] = a["device"] /\ r.of = <<"disk", a["device"], getHostName(r.attrs)>>
    BY <1>8 DEF host, a
  <2>4. KindOf(r.of) = "disk" /\ KeyOf(r.of) = [k \in {"device"} |-> a["device"]]
    BY <2>3 DEF KindOf, KeyOf
  <2>5. HostMetricKey(a, "disk") = Of(a, {"device"})
    BY DEF HostMetricKey
  <2>6. Of(a, {"device"}) = [k \in {"device"} |-> a["device"]]
    BY <1>3, <1>8, OfOne
  <2>7. /\ "disk" \in HostTags /\ NamedRight("disk", a["device"])
       /\ identifyHostMetricType(r.attrs) = KindOf(r.of)
       /\ HostMetricKey(r.attrs, KindOf(r.of)) = KeyOf(r.of)
    BY <2>2, <2>4, <2>5, <2>6 DEF a, HostTags, NamedRight, Nameless
  <2> QED
    BY <2>3, <2>7, HostMetric
<1>9. CASE /\ Has(a, "device")
          /\ keys \subseteq {"device", "direction", "protocol"}
          /\ keys # {"device"}
          /\ IfHas(a, "direction", {"receive", "transmit"})
          /\ r.of = <<"interface", a["device"], host>>
  <2>1. /\ ~Has(a, "cpu")
       /\ ~Has(a, "mountpoint")
       /\ ~Has(a, "state")
       /\ ~Has(a, "type")
       /\ ~Has(a, "process.pid")
       /\ ~Has(a, "status")
    BY <1>3, <1>9
  <2>2. identifyHostMetricType(a) = "network"
    <3>1. Passes(a, 6)
      <4>1. Has(a, "direction") \/ Has(a, "protocol")
        BY <1>3, <1>9
      <4>2. Has(a, "direction") => Is(a, "direction", {"receive", "transmit"})
        BY <1>4, <1>5, <1>9
      <4>3. Has(a, "device") /\ (Is(a, "direction", {"receive", "transmit"}) \/ Has(a, "protocol") \/ Has(a, "state"))
        BY <1>9, <4>1, <4>2
      <4> QED
        BY <4>3 DEF Passes
    <3>2. \A j \in 1 .. 5 : ~Passes(a, j)
      BY <1>9, <2>1 DEF Passes, Is, Has, IfHas
    <3>3. TestTypes[6] = "network"
      BY DEF TestTypes
    <3> QED
      BY <3>1, <3>2, <3>3, TypeAt
  <2>3. r.of[1] = "interface" /\ r.of[2] = a["device"] /\ r.of = <<"interface", a["device"], getHostName(r.attrs)>>
    BY <1>9 DEF host, a
  <2>4. KindOf(r.of) = "network" /\ KeyOf(r.of) = [k \in {"device"} |-> a["device"]]
    BY <2>3 DEF KindOf, KeyOf
  <2>5. HostMetricKey(a, "network") = Of(a, {"device"})
    BY DEF HostMetricKey
  <2>6. Of(a, {"device"}) = [k \in {"device"} |-> a["device"]]
    BY <1>3, <1>9, OfOne
  <2>7. /\ "interface" \in HostTags /\ NamedRight("interface", a["device"])
       /\ identifyHostMetricType(r.attrs) = KindOf(r.of)
       /\ HostMetricKey(r.attrs, KindOf(r.of)) = KeyOf(r.of)
    BY <2>2, <2>4, <2>5, <2>6 DEF a, HostTags, NamedRight, Nameless
  <2> QED
    BY <2>3, <2>7, HostMetric
<1>10. CASE keys = {"protocol", "state"} /\ a["state"] \notin MemoryStates /\ r.of = <<"connections", "", host>>
  <2>0. keys = {"protocol", "state"} /\ a["state"] \notin MemoryStates
    BY <1>10
  <2>1. /\ ~Has(a, "cpu")
       /\ ~Has(a, "device")
       /\ ~Has(a, "direction")
       /\ ~Has(a, "mountpoint")
       /\ ~Has(a, "type")
       /\ ~Has(a, "process.pid")
       /\ ~Has(a, "status")
    BY <1>3, <1>10
  <2>2. identifyHostMetricType(a) = "network"
    <3>1. Passes(a, 7)
      BY <1>3, <1>4, <1>5, <1>10, <2>1 DEF Passes
    <3>2. \A j \in 1 .. 6 : ~Passes(a, j)
      BY <2>0, <2>1 DEF Passes, Is, Has, IfHas
    <3>3. TestTypes[7] = "network"
      BY DEF TestTypes
    <3> QED
      BY <3>1, <3>2, <3>3, TypeAt
  <2>3. r.of[1] = "connections" /\ r.of[2] = "" /\ r.of = <<"connections", "", getHostName(r.attrs)>>
    <3>1. r.of = <<"connections", "", getHostName(r.attrs)>>
      BY <1>10 DEF host, a
    <3> QED
      BY <3>1, <1>6
  <2>4. KindOf(r.of) = "network" /\ KeyOf(r.of) = [k \in {} |-> ""]
    BY <2>3 DEF KindOf, KeyOf
  <2>5. HostMetricKey(a, "network") = Of(a, {"device"})
    BY DEF HostMetricKey
  <2>6. Of(a, {"device"}) = [k \in {} |-> ""]
    BY <1>3, <1>10, <2>1, OfOne
  <2>7. /\ "connections" \in HostTags /\ NamedRight("connections", "")
       /\ identifyHostMetricType(r.attrs) = KindOf(r.of)
       /\ HostMetricKey(r.attrs, KindOf(r.of)) = KeyOf(r.of)
    BY <2>2, <2>4, <2>5, <2>6 DEF a, HostTags, NamedRight, Nameless
  <2> QED
    BY <2>3, <2>7, HostMetric
<1>11. CASE /\ Has(a, "mountpoint")
          /\ a["mountpoint"] # ""
          /\ keys \subseteq {"device", "mountpoint", "state", "type"}
          /\ r.of = <<"mounted", a["mountpoint"], host>>
  <2>0. Has(a, "mountpoint") /\ keys \subseteq {"device", "mountpoint", "state", "type"}
    BY <1>11
  <2>1. /\ ~Has(a, "cpu")
       /\ ~Has(a, "direction")
       /\ ~Has(a, "protocol")
       /\ ~Has(a, "process.pid")
       /\ ~Has(a, "status")
    BY <1>3, <1>11
  <2>2. identifyHostMetricType(a) = "filesystem"
    <3>1. Passes(a, 3)
      BY <1>3, <1>4, <1>5, <1>11, <2>1 DEF Passes
    <3>2. \A j \in 1 .. 2 : ~Passes(a, j)
      BY <2>0, <2>1 DEF Passes, Is, Has, IfHas
    <3>3. TestTypes[3] = "filesystem"
      BY DEF TestTypes
    <3> QED
      BY <3>1, <3>2, <3>3, TypeAt
  <2>3. r.of[1] = "mounted" /\ r.of[2] = a["mountpoint"] /\ r.of = <<"mounted", a["mountpoint"], getHostName(r.attrs)>>
    <3>1. r.of = <<"mounted", a["mountpoint"], getHostName(r.attrs)>>
      BY <1>11 DEF host, a
    <3> QED
      BY <3>1, <1>6
  <2>4. KindOf(r.of) = "filesystem" /\ KeyOf(r.of) = [id |-> a["mountpoint"]]
    BY <2>3 DEF KindOf, KeyOf
  <2>5. HostMetricKey(a, "filesystem") = EitherOf(a, "mountpoint", "device")
    BY DEF HostMetricKey
  <2>6. EitherOf(a, "mountpoint", "device") = [id |-> a["mountpoint"]]
    BY <1>3, <1>11, EitherIs
  <2>7. /\ "mounted" \in HostTags /\ NamedRight("mounted", a["mountpoint"])
       /\ identifyHostMetricType(r.attrs) = KindOf(r.of)
       /\ HostMetricKey(r.attrs, KindOf(r.of)) = KeyOf(r.of)
    BY <2>2, <2>4, <2>5, <2>6 DEF a, HostTags, NamedRight, Nameless
  <2> QED
    BY <2>3, <2>7, HostMetric
<1>12. CASE /\ Has(a, "device")
          /\ a["device"] # ""
          /\ IfHas(a, "mountpoint", {""})
          /\ Has(a, "type")
          /\ Is(a, "state", {"free", "reserved", "used"})
          /\ keys \subseteq {"device", "mountpoint", "state", "type"}
          /\ r.of = <<"unmounted", a["device"], host>>
  <2>0. /\ Has(a, "device") /\ Has(a, "type") /\ Is(a, "state", {"free", "reserved", "used"})
        /\ keys \subseteq {"device", "mountpoint", "state", "type"}
    BY <1>12
  <2>1. /\ ~Has(a, "cpu")
       /\ ~Has(a, "direction")
       /\ ~Has(a, "protocol")
       /\ ~Has(a, "process.pid")
       /\ ~Has(a, "status")
    BY <1>3, <1>12
  <2>2. identifyHostMetricType(a) = "filesystem"
    <3>1. CASE Has(a, "mountpoint")
      <4>1. Passes(a, 3)
        BY <1>3, <1>4, <1>5, <1>12, <2>1, <3>1 DEF Passes
      <4>2. \A j \in 1 .. 2 : ~Passes(a, j)
        BY <2>0, <2>1, <3>1 DEF Passes, Is, Has, IfHas
      <4>3. TestTypes[3] = "filesystem"
        BY DEF TestTypes
      <4> QED
        BY <4>1, <4>2, <4>3, TypeAt
    <3>2. CASE ~Has(a, "mountpoint")
      <4>1. Passes(a, 4)
        BY <1>3, <1>4, <1>5, <1>12, <2>1, <3>2 DEF Passes
      <4>2. \A j \in 1 .. 3 : ~Passes(a, j)
        BY <2>0, <2>1, <3>2 DEF Passes, Is, Has, IfHas
      <4>3. TestTypes[4] = "filesystem"
        BY DEF TestTypes
      <4> QED
        BY <4>1, <4>2, <4>3, TypeAt
    <3> QED
      BY <3>1, <3>2
  <2>3. r.of[1] = "unmounted" /\ r.of[2] = a["device"] /\ r.of = <<"unmounted", a["device"], getHostName(r.attrs)>>
    <3>1. r.of = <<"unmounted", a["device"], getHostName(r.attrs)>>
      BY <1>12 DEF host, a
    <3> QED
      BY <3>1, <1>6
  <2>4. KindOf(r.of) = "filesystem" /\ KeyOf(r.of) = [id |-> a["device"]]
    BY <2>3 DEF KindOf, KeyOf
  <2>5. HostMetricKey(a, "filesystem") = EitherOf(a, "mountpoint", "device")
    BY DEF HostMetricKey
  <2>6. EitherOf(a, "mountpoint", "device") = [id |-> a["device"]]
    BY <1>3, <1>12, EitherIs
  <2>7. /\ "unmounted" \in HostTags /\ NamedRight("unmounted", a["device"])
       /\ identifyHostMetricType(r.attrs) = KindOf(r.of)
       /\ HostMetricKey(r.attrs, KindOf(r.of)) = KeyOf(r.of)
    BY <2>2, <2>4, <2>5, <2>6 DEF a, HostTags, NamedRight, Nameless
  <2> QED
    BY <2>3, <2>7, HostMetric
<1>13. CASE keys = {"state"} /\ a["state"] \in MemoryStates /\ r.of = <<"memory", "", host>>
  <2>0. keys = {"state"} /\ a["state"] \in MemoryStates
    BY <1>13
  <2>1. /\ ~Has(a, "cpu")
       /\ ~Has(a, "device")
       /\ ~Has(a, "direction")
       /\ ~Has(a, "mountpoint")
       /\ ~Has(a, "protocol")
       /\ ~Has(a, "type")
       /\ ~Has(a, "process.pid")
       /\ ~Has(a, "status")
    BY <1>3, <1>13
  <2>2. identifyHostMetricType(a) = "memory"
    <3>1. Passes(a, 5)
      BY <1>3, <1>4, <1>5, <1>13, <2>1 DEF Passes
    <3>2. \A j \in 1 .. 4 : ~Passes(a, j)
      BY <2>0, <2>1 DEF Passes, Is, Has, IfHas
    <3>3. TestTypes[5] = "memory"
      BY DEF TestTypes
    <3> QED
      BY <3>1, <3>2, <3>3, TypeAt
  <2>3. r.of[1] = "memory" /\ r.of[2] = "" /\ r.of = <<"memory", "", getHostName(r.attrs)>>
    <3>1. r.of = <<"memory", "", getHostName(r.attrs)>>
      BY <1>13 DEF host, a
    <3> QED
      BY <3>1, <1>6
  <2>4. KindOf(r.of) = "memory" /\ KeyOf(r.of) = <<>>
    BY <2>3 DEF KindOf, KeyOf
  <2>5. HostMetricKey(a, "memory") = <<>>
    BY DEF HostMetricKey
  <2>6. /\ "memory" \in HostTags /\ NamedRight("memory", "")
       /\ identifyHostMetricType(r.attrs) = KindOf(r.of)
       /\ HostMetricKey(r.attrs, KindOf(r.of)) = KeyOf(r.of)
    BY <2>2, <2>4, <2>5 DEF a, HostTags, NamedRight, Nameless
  <2> QED
    BY <2>3, <2>6, HostMetric
<1>14. CASE /\ keys # {}
          /\ keys \subseteq {"direction", "type"}
          /\ IfHas(a, "direction", {"page_in", "page_out"})
          /\ IfHas(a, "type", {"major", "minor"})
          /\ r.of = <<"paging", "", host>>
  <2>0. /\ keys # {} /\ keys \subseteq {"direction", "type"}
        /\ IfHas(a, "direction", {"page_in", "page_out"}) /\ IfHas(a, "type", {"major", "minor"})
    BY <1>14
  <2>1. /\ ~Has(a, "cpu")
       /\ ~Has(a, "device")
       /\ ~Has(a, "mountpoint")
       /\ ~Has(a, "protocol")
       /\ ~Has(a, "state")
       /\ ~Has(a, "process.pid")
       /\ ~Has(a, "status")
    BY <1>3, <1>14
  <2>2. identifyHostMetricType(a) = "paging"
    <3>1. CASE Has(a, "direction")
      <4>1. Passes(a, 8)
        BY <1>3, <1>4, <1>5, <1>14, <2>1, <3>1 DEF Passes
      <4>2. \A j \in 1 .. 7 : ~Passes(a, j)
        BY <2>0, <2>1, <3>1 DEF Passes, Is, Has, IfHas
      <4>3. TestTypes[8] = "paging"
        BY DEF TestTypes
      <4> QED
        BY <4>1, <4>2, <4>3, TypeAt
    <3>2. CASE ~Has(a, "direction")
      <4>1. Passes(a, 10)
        BY <1>3, <1>4, <1>5, <1>14, <2>1, <3>2 DEF Passes
      <4>2. \A j \in 1 .. 9 : ~Passes(a, j)
        BY <2>0, <2>1, <3>2 DEF Passes, Is, Has, IfHas
      <4>3. TestTypes[10] = "paging"
        BY DEF TestTypes
      <4> QED
        BY <4>1, <4>2, <4>3, TypeAt
    <3> QED
      BY <3>1, <3>2
  <2>3. r.of[1] = "paging" /\ r.of[2] = "" /\ r.of = <<"paging", "", getHostName(r.attrs)>>
    <3>1. r.of = <<"paging", "", getHostName(r.attrs)>>
      BY <1>14 DEF host, a
    <3> QED
      BY <3>1, <1>6
  <2>4. KindOf(r.of) = "paging" /\ KeyOf(r.of) = [k \in {} |-> ""]
    BY <2>3 DEF KindOf, KeyOf
  <2>5. HostMetricKey(a, "paging") = Of(a, {"device"})
    BY DEF HostMetricKey
  <2>6. Of(a, {"device"}) = [k \in {} |-> ""]
    BY <1>3, <1>14, <2>1, OfOne
  <2>7. /\ "paging" \in HostTags /\ NamedRight("paging", "")
       /\ identifyHostMetricType(r.attrs) = KindOf(r.of)
       /\ HostMetricKey(r.attrs, KindOf(r.of)) = KeyOf(r.of)
    BY <2>2, <2>4, <2>5, <2>6 DEF a, HostTags, NamedRight, Nameless
  <2> QED
    BY <2>3, <2>7, HostMetric
<1>15. CASE keys = {"process.pid"} /\ a["process.pid"] # "" /\ r.of = <<"process", a["process.pid"], host>>
  <2>0. keys = {"process.pid"}
    BY <1>15
  <2>1. /\ ~Has(a, "cpu")
       /\ ~Has(a, "device")
       /\ ~Has(a, "direction")
       /\ ~Has(a, "mountpoint")
       /\ ~Has(a, "protocol")
       /\ ~Has(a, "state")
       /\ ~Has(a, "type")
       /\ ~Has(a, "status")
    BY <1>3, <1>15
  <2>2. identifyHostMetricType(a) = "process"
    <3>1. Passes(a, 11)
      BY <1>3, <1>4, <1>5, <1>15, <2>1 DEF Passes
    <3>2. \A j \in 1 .. 10 : ~Passes(a, j)
      BY <2>0, <2>1 DEF Passes, Is, Has, IfHas
    <3>3. TestTypes[11] = "process"
      BY DEF TestTypes
    <3> QED
      BY <3>1, <3>2, <3>3, TypeAt
  <2>3. r.of[1] = "process" /\ r.of[2] = a["process.pid"] /\ r.of = <<"process", a["process.pid"], getHostName(r.attrs)>>
    <3>1. r.of = <<"process", a["process.pid"], getHostName(r.attrs)>>
      BY <1>15 DEF host, a
    <3> QED
      BY <3>1, <1>6
  <2>4. KindOf(r.of) = "process" /\ KeyOf(r.of) = [id |-> a["process.pid"]]
    BY <2>3 DEF KindOf, KeyOf
  <2>5. HostMetricKey(a, "process") = EitherOf(a, "process.pid", "process.command")
    BY DEF HostMetricKey
  <2>6. EitherOf(a, "process.pid", "process.command") = [id |-> a["process.pid"]]
    BY <1>3, <1>15, EitherIs
  <2>7. /\ "process" \in HostTags /\ NamedRight("process", a["process.pid"])
       /\ identifyHostMetricType(r.attrs) = KindOf(r.of)
       /\ HostMetricKey(r.attrs, KindOf(r.of)) = KeyOf(r.of)
    BY <2>2, <2>4, <2>5, <2>6 DEF a, HostTags, NamedRight, Nameless
  <2> QED
    BY <2>3, <2>7, HostMetric
<1>16. CASE keys = {"status"} /\ a["status"] \in ProcessesStatuses /\ r.of = <<"processes", "", host>>
  <2>0. keys = {"status"} /\ a["status"] \in ProcessesStatuses
    BY <1>16
  <2>1. /\ ~Has(a, "cpu")
       /\ ~Has(a, "device")
       /\ ~Has(a, "direction")
       /\ ~Has(a, "mountpoint")
       /\ ~Has(a, "protocol")
       /\ ~Has(a, "state")
       /\ ~Has(a, "type")
       /\ ~Has(a, "process.pid")
    BY <1>3, <1>16
  <2>2. identifyHostMetricType(a) = "processes"
    <3>1. Passes(a, 12)
      BY <1>3, <1>4, <1>5, <1>16, <2>1 DEF Passes
    <3>2. \A j \in 1 .. 11 : ~Passes(a, j)
      BY <2>0, <2>1 DEF Passes, Is, Has, IfHas
    <3>3. TestTypes[12] = "processes"
      BY DEF TestTypes
    <3> QED
      BY <3>1, <3>2, <3>3, TypeAt
  <2>3. r.of[1] = "processes" /\ r.of[2] = "" /\ r.of = <<"processes", "", getHostName(r.attrs)>>
    <3>1. r.of = <<"processes", "", getHostName(r.attrs)>>
      BY <1>16 DEF host, a
    <3> QED
      BY <3>1, <1>6
  <2>4. KindOf(r.of) = "processes" /\ KeyOf(r.of) = <<>>
    BY <2>3 DEF KindOf, KeyOf
  <2>5. HostMetricKey(a, "processes") = <<>>
    BY DEF HostMetricKey
  <2>6. /\ "processes" \in HostTags /\ NamedRight("processes", "")
       /\ identifyHostMetricType(r.attrs) = KindOf(r.of)
       /\ HostMetricKey(r.attrs, KindOf(r.of)) = KeyOf(r.of)
    BY <2>2, <2>4, <2>5 DEF a, HostTags, NamedRight, Nameless
  <2> QED
    BY <2>3, <2>6, HostMetric
<1>17. CASE keys = {} /\ Has(a, "host.name") /\ r.of = <<"system", "", host>>
  <2>0. keys = {} /\ Has(a, "host.name")
    BY <1>17
  <2>1. /\ ~Has(a, "cpu")
       /\ ~Has(a, "device")
       /\ ~Has(a, "direction")
       /\ ~Has(a, "mountpoint")
       /\ ~Has(a, "protocol")
       /\ ~Has(a, "state")
       /\ ~Has(a, "type")
       /\ ~Has(a, "process.pid")
       /\ ~Has(a, "status")
    BY <1>3, <1>17
  <2>2. identifyHostMetricType(a) = "system"
    <3>1. Passes(a, 14)
      BY <1>3, <1>4, <1>5, <1>17, <2>1 DEF Passes
    <3>2. \A j \in 1 .. 13 : ~Passes(a, j)
      BY <2>0, <2>1 DEF Passes, Is, Has, IfHas
    <3>3. TestTypes[14] = "system"
      BY DEF TestTypes
    <3> QED
      BY <3>1, <3>2, <3>3, TypeAt
  <2>3. r.of[1] = "system" /\ r.of[2] = "" /\ r.of = <<"system", "", getHostName(r.attrs)>>
    <3>1. r.of = <<"system", "", getHostName(r.attrs)>>
      BY <1>17 DEF host, a
    <3> QED
      BY <3>1, <1>6
  <2>4. KindOf(r.of) = "system" /\ KeyOf(r.of) = <<>>
    BY <2>3 DEF KindOf, KeyOf
  <2>5. HostMetricKey(a, "system") = <<>>
    BY DEF HostMetricKey
  <2>6. /\ "system" \in HostTags /\ NamedRight("system", "")
       /\ identifyHostMetricType(r.attrs) = KindOf(r.of)
       /\ HostMetricKey(r.attrs, KindOf(r.of)) = KeyOf(r.of)
    BY <2>2, <2>4, <2>5 DEF a, HostTags, NamedRight, Nameless
  <2> QED
    BY <2>3, <2>6, HostMetric
<1>18. CASE /\ keys = {} /\ ~Has(a, "host.name") /\ Has(a, "service.instance.id")
            /\ r.of = <<"instance", a["service.instance.id"], "">>
  <2>1. identifyHostMetricType(a) = ""
    BY <1>18, Unhosted DEF keys
  <2>2. r.of[1] = "instance" /\ r.of[2] = a["service.instance.id"] /\ r.of[3] = ""
    BY <1>18, <1>6
  <2>3. buildResourceIdentity(a) = [kind |-> "service.instance.id", key |-> Of(a, {"service.instance.id"}), host |-> ""]
    BY <1>18, <2>1 DEF buildResourceIdentity, buildServiceIdentity
  <2>4. Of(a, {"service.instance.id"}) = [k \in {"service.instance.id"} |-> a["service.instance.id"]]
    BY <1>18, OfOne
  <2>5. buildResourceIdentity(a) = IdentityOf(r.of)
    BY <2>2, <2>3, <2>4 DEF IdentityOf, KindOf, KeyOf, HostOf, HostTags
  <2>6. getResourceType(a) = IF Has(a, "service.name") THEN <<"service", a["service.name"]>> ELSE <<"unknown">>
    BY <2>1 DEF getResourceType
  <2> QED
    BY <1>18, <2>2, <2>5, <2>6 DEF Tracked, NamedRight, Nameless, a
<1>19. CASE /\ keys = {} /\ ~Has(a, "host.name") /\ ~Has(a, "service.instance.id") /\ Has(a, "service.name")
            /\ r.of = <<"service", a["service.name"],
                        IF Has(a, "service.namespace") THEN a["service.namespace"] ELSE "">>
  <2>1. identifyHostMetricType(a) = ""
    BY <1>19, Unhosted DEF keys
  <2>2. /\ r.of[1] = "service" /\ r.of[2] = a["service.name"]
        /\ r.of[3] = IF Has(a, "service.namespace") THEN a["service.namespace"] ELSE ""
    <3> DEFINE space == IF Has(a, "service.namespace") THEN a["service.namespace"] ELSE ""
    <3>1. r.of = <<"service", a["service.name"], space>>
      BY <1>19
    <3> HIDE DEF space
    <3>2. r.of[1] = "service" /\ r.of[2] = a["service.name"] /\ r.of[3] = space
      BY <3>1, <1>6
    <3> QED
      BY <3>2 DEF space
  <2> DEFINE named == {"service.name"} \cup (IF Is(a, "service.namespace", {""}) THEN {} ELSE {"service.namespace"})
             name == {"service.name"} \cup (IF r.of[3] = "" THEN {} ELSE {"service.namespace"})
  <2>3. buildResourceIdentity(a) = [kind |-> "service", key |-> Of(a, named), host |-> ""]
    BY <1>19, <2>1 DEF buildResourceIdentity, buildServiceIdentity
  <2>4. named \cap DOMAIN a = name
    BY <1>19, <2>2 DEF Is, Has
  <2>5. Of(a, named) = [k \in name |-> a[k]]
    BY <2>4 DEF Of
  <2>6. [k \in name |-> a[k]] = [k \in name |-> IF k = "service.name" THEN r.of[2] ELSE r.of[3]]
    BY <2>2
  <2>7. KeyOf(r.of) = [k \in name |-> IF k = "service.name" THEN r.of[2] ELSE r.of[3]]
    BY <2>2 DEF KeyOf
  <2> HIDE DEF named, name
  <2>8. buildResourceIdentity(a) = IdentityOf(r.of)
    BY <2>2, <2>3, <2>5, <2>6, <2>7 DEF IdentityOf, KindOf, HostOf, HostTags
  <2>9. getResourceType(a) = <<"service", r.of[2]>>
    BY <1>19, <2>1, <2>2 DEF getResourceType
  <2> QED
    BY <1>19, <2>2, <2>8, <2>9 DEF Tracked, NamedRight, Nameless, a
<1>20. CASE /\ keys = {} /\ ~Has(a, "host.name") /\ ~NamedService(r)
            /\ IsFiniteSet(DOMAIN a) /\ Cardinality(DOMAIN a) <= Fits
            /\ r.of = <<"other", a, "">>
  <2>1. identifyHostMetricType(a) = ""
    BY <1>20, Unhosted DEF keys
  <2>2. r.of[1] = "other" /\ r.of[2] = a /\ r.of[3] = ""
    BY <1>20, <1>6
  <2>3. ~Has(a, "service.instance.id") /\ ~Has(a, "service.name")
    BY <1>20 DEF NamedService, a
  <2>4. buildResourceIdentity(a) = buildFallbackIdentity(a)
    BY <2>1, <2>3 DEF buildResourceIdentity
  <2>5. buildFallbackIdentity(a) = [kind |-> "fallback", key |-> a, host |-> ""]
    BY <1>20, AllFit DEF a
  <2>6. buildResourceIdentity(a) = IdentityOf(r.of)
    BY <2>2, <2>4, <2>5 DEF IdentityOf, KindOf, KeyOf, HostOf, HostTags
  <2>7. getResourceType(a) = <<"unknown">>
    BY <2>1, <2>3 DEF getResourceType
  <2> QED
    BY <1>20, <2>2, <2>6, <2>7 DEF Tracked, NamedRight, Nameless, a
<1> QED
  BY <1>7, <1>8, <1>9, <1>10, <1>11, <1>12, <1>13, <1>14, <1>15, <1>16, <1>17, <1>18, <1>19, <1>20
     DEF Scraped, a, keys, host

\* The key of a service, with what stands for no namespace.
ServiceKey(empty, of) ==
  [k \in {"service.name"} \cup (IF of[3] = empty THEN {} ELSE {"service.namespace"}) |->
     IF k = "service.name" THEN of[2] ELSE of[3]]

\* It tells the name and the namespace.
LEMMA SameService ==
  ASSUME NEW empty, NEW x, NEW y, ServiceKey(empty, x) = ServiceKey(empty, y)
  PROVE  x[2] = y[2] /\ x[3] = y[3]
<1> DEFINE names(of) == {"service.name"} \cup (IF of[3] = empty THEN {} ELSE {"service.namespace"})
<1>1. names(x) = names(y)
  <2>1. DOMAIN ServiceKey(empty, x) = names(x) /\ DOMAIN ServiceKey(empty, y) = names(y)
    BY DEF ServiceKey
  <2> QED
    BY <2>1
<1>2. x[2] = y[2]
  <2>1. ServiceKey(empty, x)["service.name"] = x[2] /\ ServiceKey(empty, y)["service.name"] = y[2]
    BY DEF ServiceKey
  <2> QED
    BY <2>1
<1>3. x[3] = empty <=> y[3] = empty
  BY <1>1
<1>4. ASSUME x[3] # empty PROVE x[3] = y[3]
  <2>1. /\ ServiceKey(empty, x)["service.namespace"] = x[3]
        /\ ServiceKey(empty, y)["service.namespace"] = y[3]
    BY <1>3, <1>4 DEF ServiceKey
  <2> QED
    BY <2>1
<1> QED
  BY <1>2, <1>3, <1>4

\* A record of one field is that field.
LEMMA SameId == ASSUME NEW u, NEW v, [id |-> u] = [id |-> v] PROVE u = v
OBVIOUS

\* The key tells the name of an entity that has one.
LEMMA SameKey ==
  ASSUME NEW x, NEW y, x[1] = y[1], KeyOf(x) = KeyOf(y)
  PROVE  /\ x[1] \in {"cpu", "disk", "interface", "mounted", "unmounted", "process", "instance", "other"} =>
              x[2] = y[2]
         /\ x[1] = "service" => x[2] = y[2] /\ x[3] = y[3]
<1>1. CASE x[1] = "cpu"
  <2>1. KeyOf(x) = [k \in {"cpu"} |-> x[2]] /\ KeyOf(y) = [k \in {"cpu"} |-> y[2]]
    BY <1>1 DEF KeyOf
  <2>2. KeyOf(x)["cpu"] = x[2] /\ KeyOf(y)["cpu"] = y[2]
    BY <2>1
  <2> QED
    BY <1>1, <2>2
<1>2. CASE x[1] \in {"disk", "interface"}
  <2>1. KeyOf(x) = [k \in {"device"} |-> x[2]] /\ KeyOf(y) = [k \in {"device"} |-> y[2]]
    BY <1>2 DEF KeyOf
  <2>2. KeyOf(x)["device"] = x[2] /\ KeyOf(y)["device"] = y[2]
    BY <2>1
  <2> QED
    BY <1>2, <2>2
<1>3. CASE x[1] \in {"mounted", "unmounted", "process"}
  <2>1. KeyOf(x) = [id |-> x[2]] /\ KeyOf(y) = [id |-> y[2]]
    BY <1>3 DEF KeyOf
  <2>2. x[2] = y[2]
    BY <2>1, SameId
  <2> QED
    BY <1>3, <2>2
<1>4. CASE x[1] = "instance"
  <2>1. /\ KeyOf(x) = [k \in {"service.instance.id"} |-> x[2]]
        /\ KeyOf(y) = [k \in {"service.instance.id"} |-> y[2]]
    BY <1>4 DEF KeyOf
  <2>2. KeyOf(x)["service.instance.id"] = x[2] /\ KeyOf(y)["service.instance.id"] = y[2]
    BY <2>1
  <2> QED
    BY <1>4, <2>2
<1>5. CASE x[1] = "service"
  <2>1. PICK empty : KeyOf(x) = ServiceKey(empty, x) /\ KeyOf(y) = ServiceKey(empty, y)
    <3>1. KeyOf(x) = ServiceKey("", x) /\ KeyOf(y) = ServiceKey("", y)
      BY <1>5 DEF KeyOf, ServiceKey
    <3> QED
      BY <3>1
  <2>2. ServiceKey(empty, x) = ServiceKey(empty, y)
    BY <2>1
  <2>3. x[2] = y[2] /\ x[3] = y[3]
    BY <2>2, SameService
  <2> QED
    BY <1>5, <2>3
<1>6. CASE x[1] = "other"
  <2>1. KeyOf(x) = x[2] /\ KeyOf(y) = y[2]
    BY <1>6 DEF KeyOf
  <2> QED
    BY <1>6, <2>1
<1> QED
  BY <1>1, <1>2, <1>3, <1>4, <1>5, <1>6

\* The two kinds of network resource, and those of filesystem, are told apart
\* by their keys.
LEMMA OtherKey ==
  ASSUME NEW x, NEW y, KeyOf(x) = KeyOf(y)
  PROVE  /\ ~(x[1] = "interface" /\ y[1] = "connections")
         /\ x[1] = "mounted" /\ y[1] = "unmounted" => x[2] = y[2]
<1>1. ~(x[1] = "interface" /\ y[1] = "connections")
  <2>1. SUFFICES ASSUME x[1] = "interface", y[1] = "connections" PROVE FALSE
    OBVIOUS
  <2>2. KeyOf(x) = [k \in {"device"} |-> x[2]] /\ KeyOf(y) = [k \in {} |-> y[2]]
    BY <2>1 DEF KeyOf
  <2>3. DOMAIN KeyOf(x) = {"device"} /\ DOMAIN KeyOf(y) = {}
    BY <2>2
  <2> QED
    BY <2>3
<1>2. ASSUME x[1] = "mounted", y[1] = "unmounted" PROVE x[2] = y[2]
  <2>1. KeyOf(x) = [id |-> x[2]] /\ KeyOf(y) = [id |-> y[2]]
    BY <1>2 DEF KeyOf
  <2> QED
    BY <2>1, SameId
<1> QED
  BY <1>1, <1>2

EntityTags == HostTags \cup {"service", "instance", "other"}

\* Entities of one kind are reported alike, or are of the two pairs above.
LEMMA SameKind ==
  ASSUME NEW x, NEW y, x[1] \in EntityTags, y[1] \in EntityTags, KindOf(x) = KindOf(y)
  PROVE  \/ x[1] = y[1]
         \/ x[1] = "interface" /\ y[1] = "connections"
         \/ x[1] = "connections" /\ y[1] = "interface"
         \/ x[1] = "mounted" /\ y[1] = "unmounted"
         \/ x[1] = "unmounted" /\ y[1] = "mounted"
BY DEF KindOf, EntityTags, HostTags

\* What an entity is tracked under names it.
LEMMA SameIdentity ==
  ASSUME NEW r \in Report, NEW s \in Report, Tracked(r), Tracked(s), ~Misnamed(r), ~Misnamed(s),
         buildResourceIdentity(r.attrs) = buildResourceIdentity(s.attrs)
  PROVE  r.of = s.of
<1> DEFINE x == r.of
           y == s.of
<1>1. KindOf(x) = KindOf(y) /\ KeyOf(x) = KeyOf(y) /\ HostOf(x) = HostOf(y)
  <2>1. IdentityOf(x) = IdentityOf(y)
    BY DEF Tracked
  <2> QED
    BY <2>1 DEF IdentityOf
<1>2. /\ x = <<x[1], x[2], x[3]>> /\ y = <<y[1], y[2], y[3]>>
      /\ x[1] \in EntityTags /\ y[1] \in EntityTags
      /\ NamedRight(x[1], x[2]) /\ NamedRight(y[1], y[2])
  BY DEF Tracked, EntityTags
<1>3. /\ x[1] \in {"instance", "other"} => x[3] = ""
      /\ y[1] \in {"instance", "other"} => y[3] = ""
  BY DEF Tracked, HostTags
<1>4. /\ x[1] = "mounted" /\ y[1] = "unmounted" => x[2] # y[2]
      /\ y[1] = "mounted" /\ x[1] = "unmounted" => y[2] # x[2]
  BY ScrapeAssumption
<1> HIDE DEF x, y
<1>5. x[1] = y[1]
  <2>1. ~(x[1] = "interface" /\ y[1] = "connections") /\ ~(y[1] = "interface" /\ x[1] = "connections")
    BY <1>1, OtherKey
  <2>2. ~(x[1] = "mounted" /\ y[1] = "unmounted") /\ ~(y[1] = "mounted" /\ x[1] = "unmounted")
    BY <1>1, <1>4, OtherKey
  <2> QED
    BY <1>1, <1>2, <2>1, <2>2, SameKind
<1>6. x[2] = y[2] /\ (x[1] = "service" => x[3] = y[3])
  <2>1. CASE x[1] \in Nameless
    <3>1. x[2] = "" /\ y[2] = ""
      BY <1>2, <1>5, <2>1 DEF NamedRight
    <3> QED
      BY <2>1, <3>1 DEF Nameless
  <2>2. CASE x[1] \notin Nameless
    <3>1. \/ x[1] \in {"cpu", "disk", "interface", "mounted", "unmounted", "process", "instance", "other"}
          \/ x[1] = "service"
      BY <1>2, <2>2 DEF EntityTags, HostTags, Nameless
    <3> QED
      BY <1>1, <1>5, <3>1, SameKey
  <2> QED
    BY <2>1, <2>2
<1>7. x[3] = y[3]
  <2>1. CASE x[1] \in HostTags
    BY <1>1, <1>5, <2>1 DEF HostOf
  <2>2. CASE x[1] = "service"
    BY <1>6, <2>2
  <2>3. CASE x[1] \in {"instance", "other"}
    BY <1>3, <1>5, <2>3
  <2> QED
    BY <1>2, <2>1, <2>2, <2>3 DEF EntityTags
<1>8. x = y
  BY <1>2, <1>5, <1>6, <1>7
<1> QED
  BY <1>8 DEF x, y

\* One entity has one type.
LEMMA SameType ==
  ASSUME NEW r \in Report, NEW s \in Report, Tracked(r), Tracked(s), ~Misnamed(r), ~Misnamed(s), r.of = s.of
  PROVE  getResourceType(r.attrs) = getResourceType(s.attrs)
<1> DEFINE tag == r.of[1]
<1>1. CASE tag \in HostTags
  <2>1. getResourceType(r.attrs) = <<KindOf(r.of)>> /\ getResourceType(s.attrs) = <<KindOf(s.of)>>
    BY <1>1 DEF Tracked, HostTags
  <2> QED
    BY <2>1
<1>2. CASE tag = "service"
  <2>1. /\ getResourceType(r.attrs) = <<"service", r.of[2]>>
        /\ getResourceType(s.attrs) = <<"service", s.of[2]>>
    BY <1>2 DEF Tracked, HostTags
  <2> QED
    BY <2>1
<1>3. CASE tag = "other"
  <2>1. getResourceType(r.attrs) = <<"unknown">> /\ getResourceType(s.attrs) = <<"unknown">>
    BY <1>3 DEF Tracked, HostTags
  <2> QED
    BY <2>1
<1>4. CASE tag = "instance"
  <2>1. /\ getResourceType(r.attrs) = IF Has(r.attrs, "service.name") THEN <<"service", r.attrs["service.name"]>>
                                      ELSE <<"unknown">>
        /\ getResourceType(s.attrs) = IF Has(s.attrs, "service.name") THEN <<"service", s.attrs["service.name"]>>
                                      ELSE <<"unknown">>
    BY <1>4 DEF Tracked, HostTags
  <2>2. Of(r.attrs, {"service.name"}) = Of(s.attrs, {"service.name"})
    BY <1>4, ScrapeAssumption
  <2>3. /\ Has(r.attrs, "service.name") <=> "service.name" \in DOMAIN Of(r.attrs, {"service.name"})
        /\ Has(s.attrs, "service.name") <=> "service.name" \in DOMAIN Of(s.attrs, {"service.name"})
    BY DEF Of, Has
  <2>4. /\ Has(r.attrs, "service.name") => Of(r.attrs, {"service.name"})["service.name"] = r.attrs["service.name"]
        /\ Has(s.attrs, "service.name") => Of(s.attrs, {"service.name"})["service.name"] = s.attrs["service.name"]
    BY DEF Of, Has
  <2>5. /\ Has(r.attrs, "service.name") <=> Has(s.attrs, "service.name")
        /\ Has(r.attrs, "service.name") => r.attrs["service.name"] = s.attrs["service.name"]
    BY <2>2, <2>3, <2>4
  <2> QED
    BY <2>1, <2>5
<1> QED
  BY <1>1, <1>2, <1>3, <1>4 DEF Tracked

(***************************************************************************)
(* Resources are tracked under one identity exactly if they are of one     *)
(* entity, and then have one type, whatever the reports and their order    *)
(* (utils.go:15-170, resource_utils.go:17-140).                            *)
(***************************************************************************)
THEOREM IdentitiesSeparate == ReportSpec => []IdentitySeparates
<1> DEFINE OnlyReported == reports \subseteq Report
<1>1. ReportInit => OnlyReported
  BY DEF ReportInit
<1>2. OnlyReported /\ [ReportNext]_reports => OnlyReported'
  BY DEF ReportNext, Receive
<1>3. OnlyReported => IdentitySeparates
  <2> SUFFICES ASSUME OnlyReported, NEW r \in reports, NEW s \in reports, ~Misnamed(r), ~Misnamed(s)
               PROVE  /\ buildResourceIdentity(r.attrs) = buildResourceIdentity(s.attrs) <=> r.of = s.of
                      /\ r.of = s.of => getResourceType(r.attrs) = getResourceType(s.attrs)
    BY DEF IdentitySeparates
  <2>1. r \in Report /\ s \in Report
    OBVIOUS
  <2>2. Tracked(r) /\ Tracked(s)
    BY <2>1, ScrapeAssumption, AllTracked
  <2>3. r.of = s.of => buildResourceIdentity(r.attrs) = buildResourceIdentity(s.attrs)
    BY <2>2 DEF Tracked
  <2> QED
    BY <2>1, <2>2, <2>3, SameIdentity, SameType
<1> QED
  BY <1>1, <1>2, <1>3, PTL DEF ReportSpec

=============================================================================
