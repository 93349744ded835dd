--------------------------- MODULE AttributeActions ---------------------------
(***************************************************************************)
(* attraction.go: a list of actions is checked by NewAttrProc and then     *)
(* applied, one after the other, to the attributes of an item.             *)
(*                                                                         *)
(* A value is what it comes from (the attribute that had it first, the     *)
(* configuration or the context), how often it was hashed, its type, and   *)
(* whether its text reads as a number.  A pattern is the set of the keys   *)
(* it matches; whether it matches a value, and which of its groups then    *)
(* read as numbers, is left open.                                          *)
(***************************************************************************)
EXTENDS Integers, Sequences, FiniteSets

CONSTANTS
  Attribute,     \* keys of attributes
  Processing     \* [actions, attrs, context]: what is processed

\* Types of values, "" that of an empty one
ValueType == {"", "string", "int", "double", "bool", "map", "slice", "bytes"}

\* Fields of an Action, of which "" stands for one that is not set
ActionFields ==
  [action : STRING, key : STRING, value : STRING, fromAttribute : STRING, fromContext : STRING,
   pattern : STRING, matches : SUBSET STRING, convertedType : ValueType, groups : SUBSET STRING]

AttributeValue ==
  [of : Attribute \cup {"configuration", "context"}, hashes : Nat, type : ValueType, number : BOOLEAN]

\* An attribute is its own source at first, and no key stands for another source.
ASSUME ProcessingAssumption ==
  /\ "configuration" \notin Attribute /\ "context" \notin Attribute
  /\ \A p \in Processing :
       /\ p.actions \in Seq(ActionFields)
       /\ DOMAIN p.attrs \subseteq Attribute
       /\ p.attrs \in [DOMAIN p.attrs -> AttributeValue]
       /\ \A k \in DOMAIN p.attrs : p.attrs[k].of = k /\ p.attrs[k].hashes = 0

VARIABLES
  processing,
  attrs,         \* pcommon.Map
  next           \* the next action; 0 before NewAttrProc, -1 when it refused

attrVars == <<processing, attrs, next>>

AttrFrom(p) ==
  /\ processing = p
  /\ attrs = p.attrs
  /\ next = 0

AttrInit == \E p \in Processing : AttrFrom(p)

-----------------------------------------------------------------------------
Sets == {"insert", "update", "upsert"}
Hides == {"delete", "hash"}

Sources(a) == Cardinality({f \in {"value", "fromAttribute", "fromContext"} : a[f] # ""})

\* NewAttrProc: which fields an action needs, and which it must not have
Valid(a) ==
  /\ a.key # "" \/ (a.action \in Hides /\ a.pattern # "")
  /\ CASE a.action \in Sets ->
            Sources(a) = 1 /\ a.pattern = "" /\ a.convertedType = ""
       [] a.action \in Hides ->
            /\ a.value = "" /\ a.fromAttribute = ""
            /\ a.pattern # "broken" /\ a.convertedType = ""
       [] a.action = "extract" ->
            /\ Sources(a) = 0 /\ a.convertedType = ""
            /\ a.pattern = "good"
            /\ a.groups # {} /\ "" \notin a.groups
       [] a.action = "convert" ->
            /\ Sources(a) = 0 /\ a.pattern = ""
            /\ a.convertedType \in {"string", "int", "double"}
       [] OTHER -> FALSE

NewAttrProc ==
  /\ next = 0
  /\ next' = IF \A i \in DOMAIN processing.actions : Valid(processing.actions[i]) THEN 1 ELSE -1
  /\ UNCHANGED <<processing, attrs>>

-----------------------------------------------------------------------------
Action == processing.actions[next]
Keys == DOMAIN attrs

Given(source) == [of |-> source, hashes |-> 0, type |-> "string", number |-> FALSE]

\* getSourceAttributeValue, a set that is empty when there is none
SourceValue ==
  CASE Action.value # "" -> {Given("configuration")}
    [] Action.fromContext # "" ->
         IF Action.fromContext \in processing.context THEN {Given("context")} ELSE {}
    [] OTHER -> {attrs[k] : k \in Keys \cap {Action.fromAttribute}}

WithValue(values, k) ==
  {[j \in Keys \cup {k} |-> IF j = k THEN v ELSE attrs[j]] : v \in values}

Hash(v) == [v EXCEPT !.hashes = @ + 1, !.type = "string", !.number = FALSE]

Convert(v, to) ==
  CASE to = "string" -> [v EXCEPT !.type = "string", !.number = @ \/ v.type \in {"int", "double"}]
    [] to # "string" /\ (v.type \in {"int", "double", "bool"} \/ (v.type = "string" /\ v.number)) ->
         [v EXCEPT !.type = to]
    [] OTHER -> v

Hidden == Keys \cap ({Action.key} \cup Action.matches)

HashNamed ==    \* mutant: a pattern next to a key is not looked at
  [k \in Keys |->
     IF k = Action.key \/ (Action.key = "" /\ k \in Action.matches)
     THEN Hash(attrs[k]) ELSE attrs[k]]

\* A key that is named and also matches the pattern is hashed twice
HashKeys ==
  [k \in Keys |->
     IF k = Action.key /\ k \in Action.matches THEN Hash(Hash(attrs[k]))
     ELSE IF k \in Hidden THEN Hash(attrs[k]) ELSE attrs[k]]

\* Extracting takes strings only
Extracts == \E k \in Keys \cap {Action.key} : attrs[k].type = "string"

\* The pattern matches, and these groups read as numbers
Extracted(numbers) ==
  [k \in Keys \cup Action.groups |->
     IF k \in Action.groups THEN [attrs[Action.key] EXCEPT !.number = k \in numbers] ELSE attrs[k]]

\* One turn of the loop of Process
Applied ==
  CASE Action.action = "delete" -> {[k \in Keys \ Hidden |-> attrs[k]]}
    [] Action.action = "insert" /\ Action.key \notin Keys -> WithValue(SourceValue, Action.key)
    [] Action.action = "update" /\ Action.key \in Keys -> WithValue(SourceValue, Action.key)
    [] Action.action = "upsert" -> WithValue(SourceValue, Action.key)
    [] Action.action = "hash" -> {HashKeys}
    [] Action.action = "extract" /\ Extracts ->
         {attrs} \cup {Extracted(numbers) : numbers \in SUBSET Action.groups}
    [] Action.action = "convert" ->
         WithValue({Convert(attrs[k], Action.convertedType) : k \in Keys \cap {Action.key}}, Action.key)
    [] OTHER -> {}

Process ==
  /\ next \in DOMAIN processing.actions
  /\ IF Applied = {} THEN UNCHANGED attrs ELSE attrs' \in Applied
  /\ next' = next + 1
  /\ UNCHANGED processing

AttrNext == NewAttrProc \/ Process

AttrSpec == AttrInit /\ [][AttrNext]_attrVars

-----------------------------------------------------------------------------
Acts == DOMAIN processing.actions
Act(i) == processing.actions[i]
Processed == next = Len(processing.actions) + 1

Names(a, k) == a.key = k \/ k \in a.matches \/ k \in a.groups
Copies(a, k) == a.fromAttribute = k \/ (a.action = "extract" /\ a.key = k)
HidesKey(a, k) == a.action \in Hides /\ (a.key = k \/ k \in a.matches)

(***************************************************************************)
(* What is deleted or hashed is gone: unless an action before it took a    *)
(* copy, no attribute has the original value after the whole list, by      *)
(* whatever copies, extractions and conversions follow.  An attribute that *)
(* no action names or matches is as it was.                                *)
(***************************************************************************)
RedactionHolds ==
  Processed => \A k \in DOMAIN processing.attrs :
    /\ (\E j \in Acts : HidesKey(Act(j), k) /\ \A i \in 1 .. j - 1 : ~Copies(Act(i), k)) =>
         \A m \in DOMAIN attrs : ~(attrs[m].of = k /\ attrs[m].hashes = 0)
    /\ (\A i \in Acts : ~Names(Act(i), k)) => k \in DOMAIN attrs /\ attrs[k] = processing.attrs[k]

=============================================================================
