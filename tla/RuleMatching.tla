---------------------------- MODULE RuleMatching -----------------------------
(***************************************************************************)
(* Which rules a parsed packet satisfies: validation of a rule, the lookup *)
(* of a dotted field, the operators of a condition, and what the engine    *)
(* does with a rule before the counters of RuleWindow come in.  A packet   *)
(* is a function from the field paths it answers to typed values.          *)
(***************************************************************************)
EXTENDS Integers, FiniteSets, Sequences

CONSTANT None     \* no distinct_field

Nothing == [type |-> "none", is |-> 0]
Operators == {"equals", "not_equals", "greater_than", "less_than", "regex"}

(* Rule.model_validate: private names are refused, a pattern must compile, *)
(* there is at least one condition; an operator may be any word.           *)
PublicPath(path) == ~path.private

ValidCondition(c) ==
    PublicPath(c.field) /\ (c.operator = "regex" => c.value.compiles)

ValidRule(r) ==
    /\ r.conditions # {} /\ \A c \in r.conditions : ValidCondition(c)
    /\ r.threshold >= 1 /\ r.window >= 0
    /\ PublicPath(r.group_by) /\ (r.distinct_field # None => PublicPath(r.distinct_field))

IsAggregated(r) == r.window > 0 /\ r.threshold > 1

(* get_field_value: nothing for a private or an unknown name, or for a     *)
(* section the packet does not carry.                                      *)
FieldValue(packet, path) ==
    IF path.private \/ path.name \notin DOMAIN packet THEN Nothing ELSE packet[path.name]

(* OPERATORS: values of different types are unequal and never ordered, and *)
(* a pattern is searched in the text of any value.                         *)
EvaluateCondition(packet, c) ==
    LET field == FieldValue(packet, c.field)
    IN  /\ field # Nothing
        /\ CASE c.operator = "equals" -> field.type = c.value.type /\ field.is = c.value.is
             [] c.operator = "not_equals" -> field.type # c.value.type \/ field.is # c.value.is
             [] c.operator = "greater_than" -> field.type = c.value.type /\ field.is > c.value.is
             [] c.operator = "less_than" -> field.type = c.value.type /\ field.is < c.value.is
             [] c.operator = "regex" -> field.is \in c.value.matches
             [] OTHER -> FALSE

(* RuleEngine.evaluate: the enabled rules all of whose conditions hold;    *)
(* an aggregated one counts only what it can group and tell apart.         *)
Satisfied(packet, rules) ==
    {r \in rules : r.enabled /\ \A c \in r.conditions : EvaluateCondition(packet, c)}

Immediate(packet, rules) == {r \in Satisfied(packet, rules) : ~IsAggregated(r)}

Counted(packet, rules) ==
    {r \in Satisfied(packet, rules) :
       /\ IsAggregated(r)
       /\ FieldValue(packet, r.group_by) # Nothing
       /\ r.distinct_field # None => FieldValue(packet, r.distinct_field) # Nothing}
=============================================================================
