--------------------------- MODULE MCAuditVerify ----------------------------
(* Instances of Payload, AuditVerify and AuditStats for TLC.               *)
EXTENDS AuditStats, Payload

CONSTANTS e1, e2, e3

MCIds == {e1, e2, e3}

MCByteOrder == [actor |-> 1, headers |-> 2, ip |-> 3, ms |-> 4, rule |-> 5, verdict |-> 6]
MCJsonbOrder == [ip |-> 1, ms |-> 2, rule |-> 3, actor |-> 4, headers |-> 5, verdict |-> 6]
MCReplaced == [invalid |-> "replaced"]
MCNumeric == [exponent |-> "expanded"]

(* Values of every Go type, alone, in a list and in a map.                 *)
Scalars ==
    {[t |-> "nil"], [t |-> "bool", b |-> TRUE], [t |-> "chan"]}
        \cup [t : {"string"}, s : {"plain", "html", "invalid", "replaced", "nul"}]
        \cup [t : {"number"}, lit : {"403", "1.50", "exponent"}]
        \cup [t : {"json.Number"}, lit : {"", "403", "1.50"}]
        \cup [t : {"named"}, as : [t : {"string"}, s : {"plain", "html"}]]

Values ==
    Scalars
        \cup {[t |-> "list", items |-> <<v, [t |-> "nil"]>>] : v \in Scalars}
        \cup {[t |-> "map", of |-> [rule |-> v, headers |-> [t |-> "nil"]]] : v \in Scalars}
        \cup {[t |-> "strings", of |-> [ip |-> s, actor |-> "plain"]] : s \in {"plain", "html", "nul"}}

MCPayloads ==
    {[t |-> "nil"], [t |-> "map", of |-> <<>>]}
        \cup {[t |-> "map", of |-> [verdict |-> v]] : v \in Values}
        \cup {[t |-> "named", as |-> [t |-> "map", of |-> [verdict |-> v]]] : v \in Scalars}

(* The payloads of the three entries: a request that passed, one that was  *)
(* blocked, and a change of configuration.                                 *)
Str(s) == [t |-> "string", s |-> s]
Request(verdict, rule) ==
    [t |-> "map", of |-> [ip |-> Str("a"), verdict |-> Str(verdict), rule |-> Str(rule),
                          ms |-> [t |-> "number", lit |-> "1.50"],
                          headers |-> [t |-> "map", of |-> [actor |-> Str("html")]]]]

PayloadOf(id) ==
    CASE id = e1 -> Request("allow", "")
      [] id = e2 -> Request("block", "plain")
      [] id = e3 -> [t |-> "map", of |-> [actor |-> Str("plain"), rule |-> Str("plain")]]

MCTraffic == {e1, e2}

(* What a column holds is named after the entry whose payload it is.  TLC  *)
(* evaluates the definitions below once, and not the names that the        *)
(* configuration puts in the place of constants.                           *)
StoredIn == [id \in Ids |-> id]
HashedOver == [id \in Ids |-> Sealed(PayloadOf(id))]
ReadFrom == [id \in Ids |-> Reread(Column(Sealed(PayloadOf(id))))]
FieldsIn == [id \in Ids |->
    [f \in {"verdict", "ip", "rule"} |-> Field(Column(Sealed(PayloadOf(id))), f)]]

MCStored == StoredIn
MCHashed == HashedOver
MCReadBack == ReadFrom
MCFields == FieldsIn
MCLabelOrder == [a |-> 1, plain |-> 2]

(* A behaviour is about the log, or about one payload.                     *)
MCInit == StatsInit /\ PayloadInit
MCNext ==
    \/ trip.at = "none" /\ StatsNext /\ UNCHANGED trip
    \/ StatsInit /\ PayloadNext /\ UNCHANGED statsVars
MCSpec == MCInit /\ [][MCNext]_<<statsVars, trip>>
=============================================================================
