----------------------------- MODULE ToolOutput -----------------------------
(***************************************************************************)
(* How the tool executor brings the output of a tool under a limit of      *)
(* characters (_serialize_and_truncate_output, app/tools/executor.py): the *)
(* length of a value, its validation, its shortening round by round, and   *)
(* the smallest value of a schema, by recursion over JSON values.          *)
(***************************************************************************)
EXTENDS ToolValue

RECURSIVE Chars(_)
(* len(_dump_json(value)), without spaces.                                 *)
Chars(x) ==
  LET commas(n) == IF n = 0 THEN 0 ELSE n - 1
  IN  CASE x.type = "string"  -> x.n + 2
        [] x.type = "boolean" -> IF x.b THEN 4 ELSE 5
        [] x.type = "number"  -> 1
        [] x.type = "null"    -> 4
        [] x.type = "array"   ->
             2 + commas(Len(x.items)) + FoldLeft(LAMBDA n, y : n + Chars(y), 0, x.items)
        [] x.type = "object"  ->
             2 + commas(Len(x.fields))
               + FoldLeft(LAMBDA n, f : n + Len(f[1]) + 3 + Chars(f[2]), 0, x.fields)

-----------------------------------------------------------------------------
(* Schemas.                                                                *)

(* _matches_type.                                                          *)
MatchesType(x, type) ==
  IF type = "integer" THEN x.type = "number" ELSE x.type = type

(* _validate_string.                                                       *)
ValidateString(x, schema) ==
  /\ "minLength" \in DOMAIN schema => x.n >= schema.minLength
  /\ "maxLength" \in DOMAIN schema => x.n <= schema.maxLength

(* _validate_number.                                                       *)
ValidateNumber(x, schema) ==
  /\ "minimum" \in DOMAIN schema => x.i >= schema.minimum
  /\ "maximum" \in DOMAIN schema => x.i <= schema.maximum

RECURSIVE ValidateSchema(_, _)

(* _validate_object.                                                       *)
ValidateObject(x, schema) ==
  LET known == DOMAIN Properties(schema)
  IN  /\ SchemaRequiredKeys(schema) \subseteq Keys(x)
      /\ ("additional" \in DOMAIN schema /\ ~schema.additional) => Keys(x) \subseteq known
      /\ \A key \in Keys(x) \cap known : ValidateSchema(Get(x, key), Properties(schema)[key])

(* _validate_schema.                                                       *)
ValidateSchema(x, schema) ==
  /\ "type" \in DOMAIN schema => MatchesType(x, schema.type)
  /\ "enum" \in DOMAIN schema => x \in schema.enum
  /\ "anyOf" \in DOMAIN schema => \E option \in schema.anyOf : ValidateSchema(x, option)
  /\ x.type = "object" => ValidateObject(x, schema)
  /\ x.type = "string" => ValidateString(x, schema)
  /\ x.type = "number" => ValidateNumber(x, schema)
  /\ (x.type = "array" /\ "items" \in DOMAIN schema)
       => \A y \in Range(x.items) : ValidateSchema(y, schema.items)

RECURSIVE SchemaFallback(_)
(* _schema_fallback, before the flag.                                      *)
SchemaFallback(schema) ==
  LET type == IF "type" \in DOMAIN schema THEN schema.type ELSE "string"
      value(key) == IF key \in DOMAIN Properties(schema)
                      THEN SchemaFallback(Properties(schema)[key]) ELSE Str("", 0)
  IN  CASE type = "object" ->
             Obj(IF "required" \in DOMAIN schema
                   THEN [i \in DOMAIN schema.required |->
                           <<schema.required[i], value(schema.required[i])>>]
                   ELSE <<>>)
        [] type = "array" -> Arr(<<>>)
        [] type = "boolean" -> Bool(FALSE)
        [] type \in {"number", "integer"} -> Num(0)
        [] type = "null" -> Null
        [] OTHER -> Str("", 0)

-----------------------------------------------------------------------------
(* One round of the shortening.                                            *)

NoString == [path |-> <<>>, n |-> -1]

Children(x) ==
  CASE x.type = "object" -> [i \in DOMAIN x.fields |-> x.fields[i][2]]
    [] x.type = "array" -> x.items
    [] OTHER -> <<>>

RECURSIVE FindLongestString(_)

(* Mutation: an identifier is a string like any other.                     *)
ChildStringAny(x, i) ==
  LET found == FindLongestString(Children(x)[i])
  IN  IF found = NoString THEN NoString ELSE [found EXCEPT !.path = <<i>> \o @]

(* The longest string of the i-th child, with its path from x.             *)
ChildString(x, i) ==
  LET protected == /\ x.type = "object" /\ Children(x)[i].type = "string"
                   /\ x.fields[i][1] \in ProtectedIdentifierKeys
      found == IF protected THEN NoString ELSE FindLongestString(Children(x)[i])
  IN  IF found = NoString THEN NoString ELSE [found EXCEPT !.path = <<i>> \o @]

(* _find_longest_string: the first of the longest.                         *)
FindLongestString(x) ==
  LET longer(best, found) == IF found.n > best.n THEN found ELSE best
  IN  IF x.type = "string" THEN [path |-> <<>>, n |-> x.n]
      ELSE FoldLeft(longer, NoString, [i \in DOMAIN Children(x) |-> ChildString(x, i)])

RECURSIVE SetJsonPath(_, _, _)
(* _set_json_path.                                                         *)
SetJsonPath(x, path, leaf) ==
  IF path = <<>> THEN leaf
  ELSE LET y == SetJsonPath(Children(x)[Head(path)], Tail(path), leaf)
       IN  IF x.type = "object" THEN [x EXCEPT !.fields[Head(path)][2] = y]
                                ELSE [x EXCEPT !.items[Head(path)] = y]

(* _truncate_longest_string: the excess, a quarter of the string, or one   *)
(* character, whichever is most.                                           *)
TruncateLongestString(x, max) ==
  LET longest   == FindLongestString(x)
      reduction == Max({Chars(x) - max, longest.n \div 4, 1})
  IN  IF longest.n <= 0 THEN x
      ELSE SetJsonPath(x, longest.path, Str("cut", Max({longest.n - reduction, 0})))

(* The first of the options that changes x, if one does.                   *)
FirstDifferent(x, options) ==
  LET i == SelectInSeq(options, LAMBDA y : y # x) IN IF i = 0 THEN x ELSE options[i]

(* any(...) over the children: the first that changes.                     *)
FirstChanged(x, Change(_)) ==
  FirstDifferent(x, [i \in DOMAIN Children(x) |-> SetJsonPath(x, <<i>>, Change(Children(x)[i]))])

RECURSIVE RemoveOneListItem(_)
(* _remove_one_list_item.                                                  *)
RemoveOneListItem(x) ==
  CASE x.type = "array" -> IF x.items = <<>> THEN x ELSE Arr(Front(x.items))
    [] x.type = "object" -> FirstChanged(x, RemoveOneListItem)
    [] OTHER -> x

RECURSIVE RemoveInner(_)
(* _remove_one_mapping_entry, below the root.                              *)
RemoveInner(x) ==
  CASE x.type = "object" -> IF x.fields = <<>> THEN x ELSE Obj(Front(x.fields))
    [] x.type = "array" -> FirstChanged(x, RemoveInner)
    [] OTHER -> x

(* _remove_one_mapping_entry: the last key the schema does not require.    *)
RemoveOneMappingEntry(x, protected) ==
  LET free == {i \in DOMAIN Children(x) :
                 x.type = "object" /\ x.fields[i][1] \notin protected \cup {"truncated"}}
  IN  IF free # {} THEN Obj(RemoveAt(x.fields, Max(free))) ELSE FirstChanged(x, RemoveInner)

RECURSIVE Shorten(_, _, _)
(* The loop of _serialize_and_truncate_output: strings, then list items,   *)
(* then entries, until the value fits or nothing is left to take.          *)
Shorten(x, max, protected) ==
  LET next == FirstDifferent(x, <<TruncateLongestString(x, max), RemoveOneListItem(x),
                                  RemoveOneMappingEntry(x, protected)>>)
  IN  IF Chars(x) <= max \/ next = x THEN x ELSE Shorten(next, max, protected)
=============================================================================
