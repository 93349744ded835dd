-------------------------- MODULE MCPersistentFilter --------------------------
(* Instances of PersistentFilter for TLC. *)
EXTENDS PersistentFilter, TLC

OneThreshold == [cpu |-> 3]
NoWeights == <<>>

\* An entity that exceeded its limit some minutes ago and has no history.
Over(age) == [exceeded |-> age, anomaly |-> Never, history |-> [cpu |-> <<>>]]

\* A table an earlier process saved, every resource over its limit just now.
SavedTable == [r \in Resource |-> Over(0)]

\* What another processor holds: any resource, over a limit any time ago.
OverTables == [Resource -> {Absent} \cup {Over(age) : age \in Age}]
NoTables == {}
=============================================================================
