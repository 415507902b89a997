------------------------------ MODULE Payload -------------------------------
(***************************************************************************)
(* The payload of an audit entry on its way from the handler that makes it *)
(* to the digest: internal/model/canonical.go, with what encoding/json and *)
(* a jsonb column do to a value.                                           *)
(*                                                                         *)
(* A Go value is a record tagged with its dynamic type.  JSON text is a    *)
(* record tagged with its syntax; the keys of an object are in the order   *)
(* they are written, a string says whether it is HTML-escaped, and a       *)
(* number is its literal.  Two texts are the same bytes when they are      *)
(* equal.  Strings and literals are only compared and looked up.           *)
(***************************************************************************)
EXTENDS Integers, Sequences, SequencesExt

CONSTANTS
    Payloads,    \* The payloads that handlers make.
    ByteOrder,   \* The keys of objects, numbered as sort.Strings sorts them.
    JsonbOrder,  \* The keys, numbered as jsonb keeps them: shorter ones first.
    Html,        \* The strings encoding/json escapes: those with <, > or &.
    Nul,         \* The strings jsonb refuses: those with a NUL.
    Replaced,    \* The strings that are not UTF-8, and what is written instead.
    Numeric      \* The literals numeric renders otherwise, and how it does.

VARIABLE trip    \* A payload, and how far it is.

Keys == DOMAIN ByteOrder

ASSUME PayloadAssumption ==
    \A o \in {ByteOrder, JsonbOrder} : IsInjective(o) /\ o \in [Keys -> Nat]

Error == [j |-> "error"]
Null == [j |-> "null"]
Literal(v) == [j |-> "number", lit |-> v.lit]

(* A string, with U+FFFD for what is not UTF-8.                            *)
Utf8(s) == IF s \in DOMAIN Replaced THEN Replaced[s] ELSE s
Quoted(s, escapeHTML) ==
    [j |-> "string", s |-> Utf8(s), escaped |-> escapeHTML /\ Utf8(s) \in Html]

(* An array or an object, of what its parts became.                        *)
Failed(texts) == \E i \in DOMAIN texts : texts[i] = Error

ArrayOf(texts) == IF Failed(texts) THEN Error ELSE [j |-> "array", items |-> texts]

ObjectOf(texts, order) ==
    IF Failed(texts) THEN Error
    ELSE [j    |-> "object",
          keys |-> SetToSortSeq(DOMAIN texts, LAMBDA k, l : order[k] < order[l]),
          of   |-> texts]

(* map[string]string as map[string]any.                                    *)
Strings(of) == [k \in DOMAIN of |-> [t |-> "string", s |-> of[k]]]

(***************************************************************************)
(* encoding/json.  An empty json.Number is written as 0.  Decoding gives   *)
(* map[string]any, []any and, with UseNumber, json.Number.                 *)
(***************************************************************************)
RECURSIVE Marshal(_)
Marshal(v) ==
    CASE v.t = "nil"         -> Null
      [] v.t = "bool"        -> [j |-> "bool", b |-> v.b]
      [] v.t = "string"      -> Quoted(v.s, TRUE)
      [] v.t = "json.Number" -> Literal(IF v.lit = "" THEN [v EXCEPT !.lit = "0"] ELSE v)
      [] v.t = "number"      -> Literal(v)
      [] v.t = "list"        -> ArrayOf([i \in DOMAIN v.items |-> Marshal(v.items[i])])
      [] v.t = "map"         -> ObjectOf([k \in DOMAIN v.of |-> Marshal(v.of[k])], ByteOrder)
      [] v.t = "strings"     -> Marshal([t |-> "map", of |-> Strings(v.of)])
      [] v.t = "named"       -> Marshal(v.as)
      [] v.t = "chan"        -> Error

RECURSIVE Decode(_)
Decode(text) ==
    CASE text.j = "null"   -> [t |-> "nil"]
      [] text.j = "bool"   -> [t |-> "bool", b |-> text.b]
      [] text.j = "string" -> [t |-> "string", s |-> text.s]
      [] text.j = "number" -> [t |-> "json.Number", lit |-> text.lit]
      [] text.j = "array"  ->
           [t |-> "list", items |-> [i \in DOMAIN text.items |-> Decode(text.items[i])]]
      [] text.j = "object" ->
           [t |-> "map", of |-> [k \in DOMAIN text.of |-> Decode(text.of[k])]]

(* What the column holds for a text, and gives back for it; an INSERT that *)
(* fails is an error.                                                      *)
RECURSIVE Jsonb(_)
Jsonb(text) ==
    CASE text.j = "string" -> IF text.s \in Nul THEN Error ELSE [text EXCEPT !.escaped = FALSE]
      [] text.j = "number" ->
           IF text.lit \in DOMAIN Numeric THEN [text EXCEPT !.lit = Numeric[@]] ELSE text
      [] text.j = "array"  -> ArrayOf([i \in DOMAIN text.items |-> Jsonb(text.items[i])])
      [] text.j = "object" -> ObjectOf([k \in DOMAIN text.of |-> Jsonb(text.of[k])], JsonbOrder)
      [] OTHER -> text

-----------------------------------------------------------------------------
(***************************************************************************)
(* canonical.go.                                                           *)
(***************************************************************************)
BadValue == [t |-> "error"]
Empty == [t |-> "map", of |-> <<>>]

normalizeValue(v) == IF Marshal(v) = Error THEN BadValue ELSE Decode(Marshal(v))

writeCanonicalString(s) == Quoted(s, FALSE)

(* writeCanonical, writeCanonicalObject.                                   *)
RECURSIVE CanonicalJSON(_)
CanonicalJSON(v) ==
    CASE v.t \in {"nil", "bool", "number"} -> Marshal(v)
      [] v.t = "string"      -> writeCanonicalString(v.s)
      [] v.t = "json.Number" -> IF v.lit = "" THEN Error ELSE Literal(v)
      [] v.t = "list"        -> ArrayOf([i \in DOMAIN v.items |-> CanonicalJSON(v.items[i])])
      [] v.t = "map"         -> ObjectOf([k \in DOMAIN v.of |-> CanonicalJSON(v.of[k])], ByteOrder)
      [] v.t = "strings"     -> CanonicalJSON([t |-> "map", of |-> Strings(v.of)])
      [] OTHER ->
           LET normalized == normalizeValue(v)
           IN  CASE normalized.t = "error"           -> Error
                 [] normalized.t \in {"map", "list"} -> CanonicalJSON(normalized)
                 [] OTHER                            -> Marshal(normalized)

(* Mutant: the payload as the handler made it.                             *)
KeptPayload(payload) == payload
NormalizePayload(payload) ==
    IF payload.t = "nil" THEN Empty
    ELSE IF normalizeValue(payload).t = "map" THEN normalizeValue(payload)
    ELSE BadValue

DecodeJSONPayload(text) == IF text = Null THEN Empty ELSE Decode(text)

-----------------------------------------------------------------------------
(***************************************************************************)
(* The way of one payload through the store.                               *)
(***************************************************************************)

(* Writer.append, Seal: the bytes the hash is computed over.               *)
Sealed(payload) ==
    LET normalized == NormalizePayload(payload)
    IN  IF normalized = BadValue THEN Error ELSE CanonicalJSON(normalized)

(* Postgres.Append: what the INSERT leaves in the column.                  *)
Column(bytes) == Jsonb(bytes)

(* scanEntry, ComputeHash: the bytes a reader hashes.                      *)
Reread(text) == CanonicalJSON(DecodeJSONPayload(text))

(* payload ->> key; "" stands for NULL.                                    *)
Field(text, key) ==
    IF key \in DOMAIN text.of /\ text.of[key].j = "string" THEN text.of[key].s ELSE ""

PayloadInit == trip = [at |-> "none"]

SealPayload(payload) ==
    /\ trip.at = "none"
    /\ trip' = [at      |-> IF Sealed(payload) = Error THEN "refused" ELSE "sealed",
                payload |-> payload,
                text    |-> Sealed(payload)]

InsertPayload ==
    /\ trip.at = "sealed"
    /\ trip' = [trip EXCEPT !.at = IF Column(trip.text) = Error THEN "refused" ELSE "stored",
                            !.text = Column(trip.text)]

ReadPayload ==
    /\ trip.at = "stored"
    /\ trip' = [trip EXCEPT !.at = "read", !.text = Reread(trip.text)]

PayloadNext == (\E p \in Payloads : SealPayload(p)) \/ InsertPayload \/ ReadPayload

-----------------------------------------------------------------------------
(* What a payload says, whatever Go types it is made of.                   *)
RECURSIVE Data(_)
Data(v) ==
    CASE v.t = "nil"     -> <<"null">>
      [] v.t = "bool"    -> <<"bool", v.b>>
      [] v.t = "string"  -> <<"string", Utf8(v.s)>>
      [] v.t = "list"    -> <<"list", [i \in DOMAIN v.items |-> Data(v.items[i])]>>
      [] v.t = "map"     -> <<"map", [k \in DOMAIN v.of |-> Data(v.of[k])]>>
      [] v.t = "strings" -> <<"map", [k \in DOMAIN v.of |-> <<"string", Utf8(v.of[k])>>]>>
      [] v.t = "named"   -> Data(v.as)
      [] OTHER           -> <<"number", IF v.lit = "" THEN "0" ELSE v.lit>>

Says(payload) == Data(IF payload.t = "nil" THEN Empty ELSE payload)

RECURSIVE Literals(_)
Literals(text) ==
    CASE text.j = "number" -> {text.lit}
      [] text.j = "array"  -> UNION {Literals(text.items[i]) : i \in DOMAIN text.items}
      [] text.j = "object" -> UNION {Literals(text.of[k]) : k \in DOMAIN text.of}
      [] OTHER             -> {}

(* "Two payloads that are equal as data always encode identically", and    *)
(* only those do; and the encoding survives "a round trip through the      *)
(* database", for every payload the column takes, unless numeric renders   *)
(* one of its numbers otherwise.                                           *)
EncodingIsFaithful ==
    /\ trip.at = "sealed" =>
          \A p \in Payloads : Sealed(p) # Error =>
             (Sealed(p) = trip.text <=> Says(p) = Says(trip.payload))
    /\ trip.at = "read" =>
          (trip.text = Sealed(trip.payload) <=>
             Literals(Sealed(trip.payload)) \cap DOMAIN Numeric = {})
=============================================================================
