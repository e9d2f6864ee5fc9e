----------------------------- MODULE FormMapping -----------------------------
(***************************************************************************)
(* The mapping of form, query, header, path and multipart values to the    *)
(* fields of a Go value: binding/form_mapping.go and                       *)
(* binding/multipart_form_mapping.go, with the validation that follows.    *)
(*                                                                         *)
(* A field is a record, see Field; the value of a struct is the sequence   *)
(* of its fields' values, a pointer is a sequence of at most one value.    *)
(* Texts are few: "7", "300" and "-7" are numbers, "true" is a Boolean,    *)
(* "5s" a duration, "2024" a time in the field's layout, "{}" JSON.        *)
(* A source has the values of each key and the files of each key.          *)
(***************************************************************************)
EXTENDS Integers, SequencesExt

NoDefault == "no default"
Ignored == "-"

\* A field of a struct, or the target itself, whose key is "".  to has the
\* fields of a struct or the target of a pointer, elem the kind of the elements
\* of a slice or an array, len the length of an array.
Field(kind, key) ==
  [kind |-> kind, key |-> key, default |-> NoDefault, elem |-> kind, len |-> 0,
   to |-> <<>>, anonymous |-> FALSE, required |-> FALSE]

Pointer(f) == [f EXCEPT !.kind = "ptr", !.to = <<f>>]
Struct(key, fields) == [Field("struct", key) EXCEPT !.to = fields]
Slice(key, elem) == [Field("slice", key) EXCEPT !.elem = elem]
Array(key, elem, n) == [Field("array", key) EXCEPT !.elem = elem, !.len = n]

ZeroOf(kind) ==
  CASE kind = "string" -> ""
    [] kind = "bool" -> FALSE
    [] OTHER -> 0

RECURSIVE Zero(_)
Zero(f) ==
  CASE f.kind \in {"ptr", "slice"} -> <<>>
    [] f.kind = "array" -> [i \in 1..f.len |-> ZeroOf(f.elem)]
    [] f.kind = "struct" -> [i \in DOMAIN f.to |-> Zero(f.to[i])]
    [] OTHER -> ZeroOf(f.kind)

-----------------------------------------------------------------------------
(* Conversions: setWithProperType and the setters it calls *)

Number == [t \in {"7", "300", "-7"} |->
             CASE t = "7" -> 7 [] t = "300" -> 300 [] t = "-7" -> -7]

Width == [kind \in {"int8", "uint8", "float", "unix"} |->
            CASE kind = "int8" -> -128..127
              [] kind = "uint8" -> 0..255
              [] OTHER -> Int]

\* The value of a text as one of kind, in a sequence; <<>> if it is an error.
\* The empty text is zero for numbers, Booleans and times in a layout, but not
\* for a Unix time and a duration.
SetWithProperType(text, kind) ==
  CASE text = "" /\ kind \in {"int8", "uint8", "float", "bool", "time"} -> <<ZeroOf(kind)>>
    [] text \in DOMAIN Number /\ kind \in DOMAIN Width ->
         IF Number[text] \in Width[kind] THEN <<Number[text]>> ELSE <<>>
    [] kind = "bool" /\ text = "true" -> <<TRUE>>
    [] kind = "duration" /\ text = "5s" -> <<5>>
    [] kind = "time" /\ text = "2024" -> <<2024>>
    [] kind = "string" -> <<text>>
    [] OTHER -> <<>>

-----------------------------------------------------------------------------
(* One field: TrySet *)

Unset(v) == [set |-> FALSE, err |-> FALSE, val |-> v]
SetTo(v) == [set |-> TRUE, err |-> FALSE, val |-> v]
Failed(v) == [set |-> FALSE, err |-> TRUE, val |-> v]

Bad(texts, kind) == {i \in DOMAIN texts : SetWithProperType(texts[i], kind) = <<>>}

Converted(texts, kind) == [i \in DOMAIN texts |-> Head(SetWithProperType(texts[i], kind))]

\* A slice is set as a whole or not at all.
SetSlice(texts, f, v) ==
  IF Bad(texts, f.elem) = {} THEN SetTo(Converted(texts, f.elem)) ELSE Failed(v)

\* An array needs as many texts, and is set up to the first bad one.
SetArray(texts, f, v) ==
  IF Len(texts) # f.len THEN Failed(v)
  ELSE LET bad == Bad(texts, f.elem)
           good == {i \in 1..f.len : \A j \in bad : i < j}
           val == [i \in 1..f.len |->
                     IF i \in good THEN Head(SetWithProperType(texts[i], f.elem)) ELSE v[i]]
       IN IF bad = {} THEN SetTo(val) ELSE Failed(val)

\* A struct is read from JSON; a text that is no JSON is an error.
SetScalar(text, f, v) ==
  IF f.kind \in {"struct", "file"}
  THEN IF text = "{}" THEN SetTo(v) ELSE Failed(v)
  ELSE LET r == SetWithProperType(text, f.kind)
       IN IF r = <<>> THEN Failed(v) ELSE SetTo(Head(r))

\* Whether there is something that a field is set from.
HasTexts(f, src) == f.key \in DOMAIN src.values \/ f.default # NoDefault

\* The texts of such a field. A key may come with no text at all: that is an
\* empty slice or array, and an empty text for every other field.
TextsOf(f, src) ==
  LET texts == IF f.key \in DOMAIN src.values THEN src.values[f.key] ELSE <<f.default>>
  IN IF texts = <<>> /\ f.kind \notin {"slice", "array"} THEN <<"">> ELSE texts

SetByForm(f, v, src) ==
  CASE ~HasTexts(f, src) -> Unset(v)
    [] HasTexts(f, src) /\ f.kind = "slice" -> SetSlice(TextsOf(f, src), f, v)
    [] HasTexts(f, src) /\ f.kind = "array" -> SetArray(TextsOf(f, src), f, v)
    [] OTHER -> SetScalar(Head(TextsOf(f, src)), f, v)

\* Only file headers, and slices and arrays of them, take the files of a key.
SetByMultipartFormFile(f, v, files) ==
  CASE f.kind = "file" -> SetTo(Head(files))
    [] f.elem = "file" /\ f.kind = "slice" -> SetTo(files)
    [] f.elem = "file" /\ f.kind = "array" /\ f.len = Len(files) -> SetTo(files)
    [] OTHER -> Failed(v)

\* Of a multipart request the files come first; other sources have none.
TrySet(f, v, src) ==
  IF f.key \in DOMAIN src.files
  THEN SetByMultipartFormFile(f, v, src.files[f.key])
  ELSE SetByForm(f, v, src)

TryToSetValue(f, v, src) == IF f.key = "" THEN Unset(v) ELSE TrySet(f, v, src)

-----------------------------------------------------------------------------
(* mapping *)

RECURSIVE Mapping(_, _, _)

\* The fields in order, up to the first error.
MapFields(f, v, src) ==
  FoldLeft(LAMBDA r, i :
             IF r.err THEN r
             ELSE LET m == Mapping(f.to[i], r.val[i], src)
                  IN [set |-> r.set \/ m.set, err |-> m.err, val |-> [r.val EXCEPT ![i] = m.val]],
           Unset(v), [i \in DOMAIN f.to |-> i])

\* A nil pointer gets a new target, which is kept if something in it was set;
\* what was set in it before an error is dropped.
MapPointer(f, v, src) ==
  LET m == Mapping(f.to[1], IF v = <<>> THEN Zero(f.to[1]) ELSE v[1], src)
  IN [m EXCEPT !.val = IF v # <<>> \/ (m.set /\ ~m.err) THEN <<m.val>> ELSE <<>>]

\* Faulty variant of Mapping: a new target is kept in any case.
MappingKeepsTarget(f, v, src) ==
  IF f.key = Ignored THEN Unset(v)
  ELSE IF f.kind = "ptr"
  THEN LET m == Mapping(f.to[1], Zero(f.to[1]), src) IN [m EXCEPT !.val = <<m.val>>]
  ELSE IF f.kind = "struct" /\ f.anonymous THEN MapFields(f, v, src)
  ELSE LET r == TryToSetValue(f, v, src)
       IN IF r.err \/ r.set \/ f.kind # "struct" THEN r ELSE MapFields(f, v, src)

\* A struct under a key of its own is set from that; otherwise its fields are.
Mapping(f, v, src) ==
  IF f.key = Ignored THEN Unset(v)
  ELSE IF f.kind = "ptr" THEN MapPointer(f, v, src)
  ELSE IF f.kind = "struct" /\ f.anonymous THEN MapFields(f, v, src)
  ELSE LET r == TryToSetValue(f, v, src)
       IN IF r.err \/ r.set \/ f.kind # "struct" THEN r ELSE MapFields(f, v, src)

-----------------------------------------------------------------------------
(* The target of a binding *)

\* A map gets the last value of each key or all of them; a map of another kind
\* is an error, a nil map panics as soon as there is a key.
SetFormMap(f, src) ==
  [val |-> [k \in DOMAIN src.values |->
              IF f.elem = "texts" THEN src.values[k] ELSE Last(src.values[k])],
   err |-> f.elem \notin {"texts", "text"},
   panic |-> f.elem = "nil" /\ DOMAIN src.values # {}]

\* mapFormByTag for a new target: a map, or what a pointer points to.
MapFormByTag(f, src) ==
  IF f.kind = "map" THEN SetFormMap(f, src)
  ELSE LET m == Mapping(f, Zero(f), src) IN [val |-> m.val, err |-> m.err, panic |-> FALSE]

\* mappingByPtr for a new target, which has no map case.
MappingByPtr(f, src) ==
  IF f.kind = "map" THEN [val |-> <<>>, err |-> FALSE, panic |-> FALSE]
  ELSE MapFormByTag(f, src)

\* ValidateStruct: the required fields, of the structs inside too, are not zero.
RECURSIVE Valid(_, _)
Valid(f, v) ==
  CASE f.kind = "map" -> TRUE
    [] f.kind = "ptr" -> IF v = <<>> THEN ~f.required ELSE Valid(f.to[1], v[1])
    [] f.kind = "struct" -> \A i \in DOMAIN f.to : Valid(f.to[i], v[i])
    [] OTHER -> f.required => v # Zero(f)

-----------------------------------------------------------------------------
(* What the mapping should give, without the walk *)

\* The leaves of a value in order: the field, its value, and whether it is
\* behind a pointer.
RECURSIVE Leaves(_, _, _, _)
Leaves(f, v, src, behind) ==
  CASE f.key = Ignored -> <<>>
    [] f.key # Ignored /\ f.kind = "ptr" ->
         Leaves(f.to[1], IF v = <<>> THEN Zero(f.to[1]) ELSE v[1], src, TRUE)
    [] f.kind = "struct" /\ (f.anonymous \/ f.key \notin DOMAIN src.values) ->
         FlattenSeq([i \in DOMAIN f.to |-> Leaves(f.to[i], v[i], src, behind)])
    [] OTHER -> <<[field |-> f, val |-> v, behind |-> behind]>>

\* A leaf's value, from its texts or files alone.
Given(leaf, src) ==
  leaf.field.key \in DOMAIN src.files \/ HasTexts(leaf.field, src)

Offends(leaf, src) ==
  LET f == leaf.field
      texts == TextsOf(f, src)
  IN IF f.key \in DOMAIN src.files
     THEN f.elem # "file" \/ (f.kind = "array" /\ f.len # Len(src.files[f.key]))
     ELSE /\ HasTexts(f, src)
          /\ CASE f.kind \in {"slice", "array"} ->
                    Bad(texts, f.elem) # {} \/ (f.kind = "array" /\ f.len # Len(texts))
               [] f.kind \in {"struct", "file"} -> texts[1] # "{}"
               [] OTHER -> 1 \in Bad(texts, f.kind)

Wanted(leaf, src) ==
  LET f == leaf.field
      texts == TextsOf(f, src)
  IN CASE f.key \in DOMAIN src.files ->
            IF f.kind = "file" THEN Head(src.files[f.key]) ELSE src.files[f.key]
       [] f.key \notin DOMAIN src.files /\ f.kind \in {"struct", "file"} -> Zero(f)
       [] f.key \notin DOMAIN src.files /\ ~HasTexts(f, src) -> Zero(f)
       [] f.kind \in {"slice", "array"} /\ HasTexts(f, src) -> Converted(texts, f.elem)
       [] OTHER -> Converted(texts, f.kind)[1]

\* No pointer of the value is nil above something given, and none is set above
\* nothing.
RECURSIVE PointersFit(_, _, _)
PointersFit(f, v, src) ==
  CASE f.key = Ignored -> TRUE
    [] f.key # Ignored /\ f.kind = "ptr" ->
         LET target == IF v = <<>> THEN Zero(f.to[1]) ELSE v[1]
             under == Leaves(f.to[1], target, src, TRUE)
         IN /\ v = <<>> <=> \A i \in DOMAIN under : ~Given(under[i], src)
            /\ PointersFit(f.to[1], target, src)
    [] f.kind = "struct" /\ (f.anonymous \/ f.key \notin DOMAIN src.values) ->
         \A i \in DOMAIN f.to : PointersFit(f.to[i], v[i], src)
    [] OTHER -> TRUE

\* The value val, with or without an error, is what the source gives for f:
\* an error exactly if some leaf offends; the leaves before the first offender
\* as wanted (or dropped with a new pointer target), those after it untouched,
\* and the offender untouched unless it is an array.
Agrees(f, src, val, err) ==
  LET leaves == Leaves(f, val, src, FALSE)
      offenders == {i \in DOMAIN leaves : Offends(leaves[i], src)}
      Untouched(i) == leaves[i].val = Zero(leaves[i].field)
  IN /\ err <=> offenders # {}
     /\ ~err => PointersFit(f, val, src)
     /\ \A i \in DOMAIN leaves :
          CASE \A j \in offenders : i < j ->
                 \/ leaves[i].val = Wanted(leaves[i], src)
                 \/ err /\ leaves[i].behind /\ Untouched(i)
            [] \E j \in offenders : j < i -> Untouched(i)
            [] OTHER -> leaves[i].field.kind = "array" \/ Untouched(i)
=============================================================================
