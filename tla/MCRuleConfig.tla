---------------------------- MODULE MCRuleConfig ----------------------------
(* Instances of RuleConfig for TLC: two rules, one prefix, and the changes *)
(* that meet: a rule turned off and on again, a rule that does not exist,  *)
(* a prefix that is denied, allowed and deleted.                           *)
EXTENDS RuleConfig

CONSTANTS turnOff, turnOn, misspelt, deny, allow, delete, cidr

MCRules == {"ratelimit", "sqli"}

MCWhat == [q \in Requests |->
    CASE q = turnOff  -> [table |-> "rules", name |-> "sqli", enabled |-> FALSE]
      [] q = turnOn   -> [table |-> "rules", name |-> "sqli", enabled |-> TRUE]
      [] q = misspelt -> [table |-> "rules", name |-> "sql", enabled |-> FALSE]
      [] q = deny     -> [table |-> "ip", cidr |-> cidr, action |-> "deny"]
      [] q = allow    -> [table |-> "ip", cidr |-> cidr, action |-> "allow"]
      [] q = delete   -> [table |-> "ip", cidr |-> cidr, action |-> "delete"]]
=============================================================================
