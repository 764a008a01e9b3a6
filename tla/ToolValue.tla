----------------------------- MODULE ToolValue -----------------------------
(***************************************************************************)
(* The values that tools take and give, and the shell of the executor's    *)
(* _serialize_and_truncate_output (app/tools/executor.py) around four      *)
(* operators that recurse over a JSON value.  Those are parameters here,   *)
(* so that what holds of a run holds whatever they compute; ToolOutput     *)
(* defines them.                                                           *)
(*                                                                         *)
(* A string is which string it is and how long, every number one character *)
(* wide; an object is a sequence of <<key, value>>, in the order of the    *)
(* keys.  A schema is a record of the members it has.                      *)
(***************************************************************************)
EXTENDS Integers, Sequences, SequencesExt, FiniteSetsExt, Functions, Lists

CONSTANTS
  Size(_),             \* len(_dump_json(value))
  Conforms(_, _),      \* _validate_schema of a value and a schema
  Shortened(_, _, _),  \* a value brought under a limit, sparing some keys
  Smallest(_)          \* _schema_fallback: the smallest value of a schema

Str(s, n)   == [n |-> n, s |-> s, type |-> "string"]
Bool(b)     == [b |-> b, type |-> "boolean"]
Num(i)      == [i |-> i, type |-> "number"]
Null        == [type |-> "null"]
Arr(items)  == [items |-> items, type |-> "array"]
Obj(fields) == [fields |-> fields, type |-> "object"]
Text(s, n)  == [n |-> n, s |-> s, type |-> "text"]

Keys(x)     == {f[1] : f \in Range(x.fields)}
Get(x, key) == IF key \in Keys(x) THEN (CHOOSE f \in Range(x.fields) : f[1] = key)[2] ELSE Null

(* _PROTECTED_IDENTIFIER_KEYS.                                             *)
ProtectedIdentifierKeys == {"document_id", "chunk_id", "call_id", "id"}

(* _schema_required_keys.                                                  *)
SchemaRequiredKeys(schema) ==
  IF "required" \in DOMAIN schema THEN Range(schema.required) ELSE {}

Properties(schema) == IF "properties" \in DOMAIN schema THEN schema.properties ELSE <<>>

(* _schema_allows_property, of the flag "truncated".                       *)
SchemaAllowsTruncated(schema) ==
  IF "truncated" \in DOMAIN Properties(schema)
    THEN Conforms(Bool(TRUE), Properties(schema)["truncated"])
    ELSE "additional" \in DOMAIN schema => schema.additional

Mark(x, schema) ==
  IF x.type = "object" /\ SchemaAllowsTruncated(schema)
    THEN Obj(SelectSeq(x.fields, LAMBDA f : f[1] # "truncated") \o <<<<"truncated", Bool(TRUE)>>>>)
    ELSE x

-----------------------------------------------------------------------------
(* The output of a tool: text, or JSON.                                    *)

Length(content) == IF content.type = "text" THEN content.n ELSE Size(content)

(* _truncate_output.                                                       *)
TruncateOutput(text, max) ==
  IF text.n <= max THEN [output |-> text, truncated |-> FALSE]
                   ELSE [output |-> Text("cut", max), truncated |-> TRUE]

OutputLimit == [output |-> Null, truncated |-> TRUE]

FirstOrLimit(valid) ==
  IF valid = <<>> THEN OutputLimit ELSE [output |-> Head(valid), truncated |-> TRUE]

(* _serialize_and_truncate_output: what was shortened, the smallest value  *)
(* the schema has, or the error.                                           *)
SerializeAndTruncateOutput(value, max, schema) ==
  LET short    == Shortened(Mark(value, schema), max, SchemaRequiredKeys(schema))
      fallback == Smallest(schema)
      valid    == SelectSeq(<<short, Mark(fallback, schema), fallback>>,
                            LAMBDA x : Size(x) <= max /\ Conforms(x, schema))
  IN  CASE value.type = "text" -> TruncateOutput(value, max)
        [] value.type # "text" /\ Size(value) <= max -> [output |-> value, truncated |-> FALSE]
        [] OTHER -> FirstOrLimit(valid)
=============================================================================
