------------------------------ MODULE Attributes ------------------------------
(***************************************************************************)
(* The attributes of instructions, variables and procedures (attributes/): *)
(* lists of names and strings, the definitions and constraints that they   *)
(* are validated against, and the values that they stand for.              *)
(*                                                                         *)
(* A string is a mark and a token: "@x" refers to the variable x, "$x" is  *)
(* a placeholder that an include fills in.  A value of the library sup-dto *)
(* is a tuple that starts with its type; only those types and conversions  *)
(* of it are modelled that the instructions tell apart.                    *)
(***************************************************************************)
EXTENDS Integers, Sequences, SequencesExt

CONSTANT NumberOf   \* the tokens that read as a number, with that number

Blank == <<"", "">>
Plain(token) == <<"", token>>

-----------------------------------------------------------------------------
(* Values.                                                                   *)

Empty == << >>
Struct(members) == <<"struct", members>>
Array(type, elements) == <<"array", type, elements>>

\* The types of numbers, clipped to the integers that TLC has; no float of the model
\* has a fraction.
Bounds == [uint8 |-> <<0, 255>>, int32 |-> <<-2147483647, 2147483647>>,
           uint32 |-> <<0, 2147483647>>, float64 |-> <<-2147483647, 2147483647>>]
Fits(type, n) == n >= Bounds[type][1] /\ n <= Bounds[type][2]

IsNumber(v) == v # Empty /\ v[1] \in DOMAIN Bounds
IsScalar(v) == IsNumber(v) \/ (v # Empty /\ v[1] \in {"bool", "string"})

TypeOf(v) == CASE v = Empty -> Empty
               [] v # Empty /\ v[1] = "struct" -> <<"struct", [m \in DOMAIN v[2] |-> v[2][m][1]]>>
               [] v # Empty /\ v[1] = "array" -> <<"array", v[2], Len(v[3])>>
               [] OTHER -> <<v[1]>>

\* Scalars convert when the number fits; anything is its own type's; else Empty.
ConvertScalar(v, type) ==
  CASE v[1] = type -> v
    [] type = "bool" /\ IsNumber(v) -> <<"bool", IF v[2] = 0 THEN 0 ELSE 1>>
    [] type \in DOMAIN Bounds /\ (IsNumber(v) \/ v[1] = "bool") ->
         IF Fits(type, v[2]) THEN <<type, v[2]>> ELSE Empty
    [] OTHER -> Empty

Convert(v, type) ==
  IF TypeOf(v) = type THEN v
  ELSE IF type # Empty /\ type[1] \notin {"struct", "array"} /\ IsScalar(v)
  THEN ConvertScalar(v, type[1]) ELSE Empty

TryAssignIfEmptyOrConvert(old, v) == IF old = Empty THEN v ELSE Convert(v, TypeOf(old))

-----------------------------------------------------------------------------
(* Strings to values and back.                                               *)

ParseAttributeString(type, repr) ==
  CASE type = "bool"   -> <<"bool", IF repr \in {Plain("true"), Plain("yes"), Plain("on")} THEN 1 ELSE 0>>
    [] type = "string" -> <<"string", repr>>
    [] type \in DOMAIN Bounds ->
         IF repr[1] = "" /\ repr[2] \in DOMAIN NumberOf /\ Fits(type, NumberOf[repr[2]])
         THEN <<type, NumberOf[repr[2]]>> ELSE Empty
    [] OTHER -> Empty

CreateAttributeString(v) ==
  CASE v[1] = "bool"   -> IF v[2] = 1 THEN Plain("true") ELSE Plain("false")
    [] v[1] = "string" -> v[2]
    [] OTHER -> Plain(CHOOSE token \in DOMAIN NumberOf : NumberOf[token] = v[2])

-----------------------------------------------------------------------------
(* Lists of attributes, and their definitions.                               *)

FindStringAttribute(attrs, name) == SelectInSeq(attrs, LAMBDA a : a[1] = name)
HasStringAttribute(attrs, name) == FindStringAttribute(attrs, name) # 0

GetStringAttributeValue(attrs, name) ==
  IF HasStringAttribute(attrs, name) THEN attrs[FindStringAttribute(attrs, name)][2] ELSE Blank

\* A name that is there already keeps its value.
AddStringAttribute(attrs, a) == IF HasStringAttribute(attrs, a[1]) THEN attrs ELSE Append(attrs, a)
AddAttributes(attrs, more) == FoldLeft(AddStringAttribute, attrs, more)

SetStringAttribute(attrs, a) ==
  IF HasStringAttribute(attrs, a[1])
  THEN [attrs EXCEPT ![FindStringAttribute(attrs, a[1])] = a] ELSE Append(attrs, a)

AttributeStartsWith(repr, mark) == repr[1] = mark

AttributeDefinition(name, type) ==
  [name |-> name, type |-> type, mandatory |-> FALSE, category |-> "literal"]
SetMandatory(d)   == [d EXCEPT !.mandatory = TRUE]
SetCategory(d, c) == [d EXCEPT !.category = c]

FindAttributeDefinition(defs, name) == SelectInSeq(defs, LAMBDA d : d.name = name)
HasAttributeDefinition(defs, name) == FindAttributeDefinition(defs, name) # 0

AttributeRefersToVariable(d, repr) ==
  d.category = "variable" \/ (d.category = "both" /\ AttributeStartsWith(repr, "@"))

TryCreateAnyValue(defs, a) ==
  IF HasAttributeDefinition(defs, a[1])
  THEN ParseAttributeString(defs[FindAttributeDefinition(defs, a[1])].type, a[2])
  ELSE <<"string", a[2]>>

\* AttributeHandler::GetValue
GetValue(defs, attrs, name) ==
  IF HasStringAttribute(attrs, name)
  THEN TryCreateAnyValue(defs, attrs[FindStringAttribute(attrs, name)]) ELSE Empty

TakenLiterally(defs, attrs, name) ==   \* faulty: "@" is not looked at
  [is_varname |-> HasAttributeDefinition(defs, name)
                  /\ defs[FindAttributeDefinition(defs, name)].category = "variable",
   value |-> GetStringAttributeValue(attrs, name)]

\* Where the value of an attribute comes from.
GetAttributeValueInfo(defs, attrs, name) ==
  LET repr == GetStringAttributeValue(attrs, name)
      category == IF HasAttributeDefinition(defs, name)
                  THEN defs[FindAttributeDefinition(defs, name)].category ELSE "literal"
  IN CASE category = "variable" -> [is_varname |-> TRUE, value |-> repr]
       [] category = "both" /\ AttributeStartsWith(repr, "@") -> [is_varname |-> TRUE, value |-> Plain(repr[2])]
       [] OTHER -> [is_varname |-> FALSE, value |-> repr]

-----------------------------------------------------------------------------
(* Constraints, and the validation of a list against them.                   *)

Exists(name)          == <<"Exists", name>>
FixedType(name, type) == <<"FixedType", name, type>>
Or(l, r)  == <<"Or", l, r>>
And(l, r) == <<"And", l, r>>
Xor(l, r) == <<"Xor", l, r>>
Not(c)    == <<"Not", c>>

RECURSIVE Validate(_, _)
ValidateOr(c, attrs)  == Validate(c[2], attrs) \/ Validate(c[3], attrs)
ValidateAnd(c, attrs) == Validate(c[2], attrs) /\ Validate(c[3], attrs)
ValidateXor(c, attrs) == Validate(c[2], attrs) # Validate(c[3], attrs)
ValidateNot(c, attrs) == ~Validate(c[2], attrs)
ValidateExists(c, attrs) == HasStringAttribute(attrs, c[2])
ValidateFixedType(c, attrs) ==
  /\ HasStringAttribute(attrs, c[2])
  /\ ParseAttributeString(c[3], GetStringAttributeValue(attrs, c[2])) # Empty
Validate(c, attrs) == CASE c[1] = "Exists"    -> ValidateExists(c, attrs)
                        [] c[1] = "FixedType" -> ValidateFixedType(c, attrs)
                        [] c[1] = "Or"        -> ValidateOr(c, attrs)
                        [] c[1] = "And"       -> ValidateAnd(c, attrs)
                        [] c[1] = "Xor"       -> ValidateXor(c, attrs)
                        [] c[1] = "Not"       -> ValidateNot(c, attrs)

CheckMandatoryConstraints(defs, attrs) ==
  {Exists(d.name) : d \in {e \in ToSet(defs) : e.mandatory /\ ~HasStringAttribute(attrs, e.name)}}

\* The constraints that failed; custom ones are counted by their own.
ValidateAttributes(defs, constraints, attrs) ==
  CheckMandatoryConstraints(defs, attrs)
  \union {FixedType(a[1], defs[FindAttributeDefinition(defs, a[1])].type) :
            a \in {b \in ToSet(attrs) :
                     /\ TryCreateAnyValue(defs, b) = Empty
                     /\ ~AttributeRefersToVariable(defs[FindAttributeDefinition(defs, b[1])], b[2])}}
  \union {c \in ToSet(constraints) : ~Validate(c, attrs)}

-----------------------------------------------------------------------------
(* InstructionHelper::InitialisePlaceholderAttributes                        *)

FillPlaceholders(attrs, source) ==
  LET Held(a) == AttributeStartsWith(a[2], "$")
      Known(a) == HasStringAttribute(source, a[2][2])
      Fill(filled, a) ==
        IF Held(a) /\ Known(a)
        THEN SetStringAttribute(filled, <<a[1], GetStringAttributeValue(source, a[2][2])>>) ELSE filled
  IN [attrs |-> FoldLeft(Fill, attrs, attrs),
      ok |-> \A k \in DOMAIN attrs : Held(attrs[k]) => Known(attrs[k])]
=============================================================================
