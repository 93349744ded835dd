-------------------------------- MODULE TTLMap --------------------------------
(***************************************************************************)
(* ttl_map.go: a map whose entries a goroutine evicts on the ticks of a    *)
(* time.Ticker.  Put reads the clock before it takes the lock, and the     *)
(* goroutine compares with the time of the tick it received, which may     *)
(* have waited in the ticker's channel.                                    *)
(*                                                                         *)
(* Times are kept as ages, in the whole seconds of Unix(): an entry's age  *)
(* is now - createTime.  currTime - createTime of the code is the age of   *)
(* the entry less the age of the tick.                                     *)
(***************************************************************************)
EXTENDS Integers

CONSTANTS
  Key, Writer,
  SweepInterval, MaxAge,   \* arguments of New
  MaxLag                   \* bound on the delay of a goroutine, in seconds

ASSUME TTLAssumption ==
  /\ SweepInterval \in Nat \ {0}
  /\ MaxAge \in Nat
  /\ MaxLag \in Nat

None == -1    \* no entry, no call, no tick

VARIABLES
  entries,    \* md.m: the age of every key's entry
  puts,       \* writer -> the key and age of the time it has read
  due,        \* seconds to the next tick
  tick,       \* age of the tick in the ticker's channel
  sweeping,   \* age of the tick the goroutine has received
  ended,      \* the goroutine has returned
  shut,       \* the channel done is closed
  stored      \* auxiliary: seconds since an entry's Put took the lock

ttlVars == <<entries, puts, due, tick, sweeping, ended, shut, stored>>

Oldest == MaxAge + SweepInterval + 2 * MaxLag + 2   \* ages are counted to here
Age == 0 .. Oldest

NoPut == [key |-> None, age |-> 0]

TTLInit ==
  /\ entries = [k \in Key |-> None]
  /\ puts = [w \in Writer |-> NoPut]
  /\ due = SweepInterval
  /\ tick = None
  /\ sweeping = None
  /\ ended = FALSE
  /\ shut = FALSE
  /\ stored = [k \in Key |-> 0]

-----------------------------------------------------------------------------
Aged(age) == IF age \in 0 .. Oldest - 1 THEN age + 1 ELSE age

Prompt(age) == age < MaxLag

\* A second passes.  A tick that finds the channel full is dropped.
Second ==
  /\ \A w \in Writer : puts[w] # NoPut => Prompt(puts[w].age)
  /\ Prompt(tick) \/ ended
  /\ Prompt(sweeping)
  /\ entries' = [k \in Key |-> Aged(entries[k])]
  /\ stored' = [k \in Key |-> Aged(stored[k])]
  /\ puts' = [w \in Writer |-> IF puts[w] = NoPut THEN NoPut ELSE [puts[w] EXCEPT !.age = @ + 1]]
  /\ sweeping' = Aged(sweeping)
  /\ IF due = 1
       THEN due' = SweepInterval /\ tick' = IF tick = None THEN 0 ELSE Aged(tick)
       ELSE due' = due - 1 /\ tick' = Aged(tick)
  /\ UNCHANGED <<ended, shut>>

\* Put: time.Now().Unix(), then the lock
ReadClock(w, k) ==
  /\ puts[w] = NoPut
  /\ puts' = [puts EXCEPT ![w] = [key |-> k, age |-> 0]]
  /\ UNCHANGED <<entries, due, tick, sweeping, ended, shut, stored>>

Put(w) ==
  /\ puts[w] # NoPut
  /\ entries' = [entries EXCEPT ![puts[w].key] = puts[w].age]
  /\ stored' = [stored EXCEPT ![puts[w].key] = 0]
  /\ puts' = [puts EXCEPT ![w] = NoPut]
  /\ UNCHANGED <<due, tick, sweeping, ended, shut>>

\* The goroutine of Start: between two sweeps it takes a tick or sees done
ReceiveTick ==
  /\ ~ended /\ sweeping = None /\ tick # None
  /\ sweeping' = tick
  /\ tick' = None
  /\ UNCHANGED <<entries, puts, due, ended, shut, stored>>

SweepAtAge ==      \* mutant: >= for >
  /\ sweeping # None
  /\ entries' = [k \in Key |-> IF entries[k] # None /\ entries[k] - sweeping >= MaxAge
                                 THEN None ELSE entries[k]]
  /\ sweeping' = None
  /\ UNCHANGED <<puts, due, tick, ended, shut, stored>>

SweepOnce ==       \* mutant: no loop around the select
  /\ sweeping # None
  /\ entries' = [k \in Key |-> IF entries[k] - sweeping > MaxAge THEN None ELSE entries[k]]
  /\ sweeping' = None
  /\ ended' = TRUE
  /\ UNCHANGED <<puts, due, tick, shut, stored>>

Sweep ==
  /\ sweeping # None
  /\ entries' = [k \in Key |-> IF entries[k] - sweeping > MaxAge THEN None ELSE entries[k]]
  /\ sweeping' = None
  /\ UNCHANGED <<puts, due, tick, ended, shut, stored>>

\* A second call of Shutdown would panic; nobody makes one
Shutdown ==
  /\ ~shut
  /\ shut' = TRUE
  /\ UNCHANGED <<entries, puts, due, tick, sweeping, ended, stored>>

End ==
  /\ shut /\ ~ended /\ sweeping = None
  /\ ended' = TRUE
  /\ UNCHANGED <<entries, puts, due, tick, sweeping, shut, stored>>

TTLNext ==
  \/ Second \/ ReceiveTick \/ Sweep \/ Shutdown \/ End
  \/ \E w \in Writer : Put(w) \/ \E k \in Key : ReadClock(w, k)

TTLSpec == TTLInit /\ [][TTLNext]_ttlVars

-----------------------------------------------------------------------------
TTLTypeOK ==
  /\ entries \in [Key -> Age \cup {None}]
  /\ puts \in [Writer -> {NoPut} \cup [key : Key, age : 0 .. MaxLag]]
  /\ due \in 1 .. SweepInterval
  /\ tick \in 0 .. MaxLag \cup {None} \/ ended
  /\ sweeping \in 0 .. MaxLag \cup {None}
  /\ ended \in BOOLEAN /\ shut \in BOOLEAN
  /\ stored \in [Key -> Age]

(***************************************************************************)
(* Get takes no notice of an entry's age (ttl_map.go:97-105), so a value   *)
(* can be returned that is older than the maximum age.  It is older by no  *)
(* more than one interval of the sweeper and the delay of its goroutine:   *)
(* a tick that was late, or dropped because the last one still waited,     *)
(* costs no more.                                                          *)
(***************************************************************************)
StaleBounded ==
  ~shut => \A k \in Key : entries[k] <= MaxAge + SweepInterval + 2 * MaxLag

(***************************************************************************)
(* Two writers of one key may store in the other order than they read the  *)
(* clock, and the key is then as old as the earlier one says.  What every  *)
(* Put can count on: after it returned, the key stays for the maximum age  *)
(* less the time a writer may wait for the lock.                           *)
(***************************************************************************)
FreshStays ==
  [][\A k \in Key : entries[k] # None /\ entries'[k] = None =>
       stored[k] > MaxAge - MaxLag]_ttlVars

=============================================================================
