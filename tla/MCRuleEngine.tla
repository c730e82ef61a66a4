---------------------------- MODULE MCRuleEngine -----------------------------
(* Instances of RuleEngine for TLC: a person p, and a bag b that is taken for *)
(* a person at times, a yard with a fence, a porch behind it, and one rule of *)
(* every kind that has its memory for itself.  The tripwire is the fence on   *)
(* the side of the street, watched for entries; one comes from behind the     *)
(* yard unseen by it.  Two rules for intrusions, into the yard and onto the   *)
(* porch, have no id, as the console's editor stores them                     *)
(* (ui/views/rules_editor.js).  Two of the stored specs cannot be built.      *)
EXTENDS RuleEngine

Street == <<1, 1>>
Inner  == <<3, 1>>
Behind == <<3, 5>>

Yard  == <<<<2, 0>>, <<4, 0>>, <<4, 2>>, <<2, 2>>>>
Porch == <<<<2, 4>>, <<4, 4>>, <<4, 6>>, <<2, 6>>>>

Seen(places, label) == {[centre |-> p, label |-> label] : p \in places}

MCSights ==
    [t \in Tracks |->
        IF t = "p" THEN Seen({Street, Inner, Behind}, "person")
        ELSE Seen({Inner, Behind}, "bag") \union Seen({Inner, Behind}, "person")]

MCSpecs == <<
    [type |-> "line_cross", rule_id |-> "entry", a |-> Yard[1], b |-> Yard[4], direction |-> -1],
    [type |-> "intrusion", zone |-> Yard],
    [type |-> "loitering", rule_id |-> "entry"],
    [type |-> "intrusion", zone |-> Porch],
    [type |-> "loitering", zone |-> Yard, limit |-> 2],
    [type |-> "tailgating", rule_id |-> "gate", zone |-> Yard],
    [type |-> "object_left", rule_id |-> "parcel", labels |-> {"bag", "person"},
     zone |-> Yard, limit |-> 2],
    [type |-> "intrusion", rule_id |-> "yard", zone |-> Yard],
    [type |-> "crowd", labels |-> {"person", "bag"}, zone |-> Yard, limit |-> 2]
>>

\* Ray casting agrees with the definition of a box, a corner and two edges of
\* which belong to it.
ASSUME BoxAssumption ==
    \A x, y \in -1..5 :
        point_in_polygon(<<x, y>>, Yard) <=> (2 <= x /\ x < 4 /\ 0 <= y /\ y < 2)
==============================================================================
