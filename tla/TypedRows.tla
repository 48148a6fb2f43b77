------------------------------ MODULE TypedRows ------------------------------
(***************************************************************************)
(* A type that maps rows, and the rows it maps.  The compiler expands the  *)
(* derive macro attribute by attribute and field by field, or the caller   *)
(* writes the mapping by hand with the row decoder.  Then the rows of a    *)
(* read arrive, put together cell by cell as the merger does, and each is  *)
(* mapped by TypedRowStream.                                               *)
(***************************************************************************)
EXTENDS Derive

CONSTANTS
  Families,
  Names,            \* names of the struct's fields in order; also qualifiers
  AttributeChoices, \* what a programmer may write into #[bigtable(...)] of a field
  StructChoices,    \* and of the struct
  Types,            \* target types of plain decoders
  Values,           \* values of cells
  KeyValues,        \* values of row keys
  MaxCells          \* bound of the model: cells in a row

ASSUME BoundsAssumption == MaxCells \in Nat \ {0}

VARIABLES
  pc,         \* where the type and its stream are
  struct,     \* StructConfig
  config,     \* FieldConfig of the field being parsed
  written,    \* attributes written on that field so far, as <<attribute, times>>
  field,      \* the last field that was expanded: what was written, and its kind
  plan,       \* initializers of the fields so far
  refusal,    \* the compiler's diagnostic
  row, sent,  \* the row last received, and the cells the server sent for it
  emptied,    \* families and qualifiers of the columns its owner has emptied
  item,       \* what mapping it gave: the results of its fields
  answer      \* what a call of the decoder gave, with the call

vars == <<pc, struct, config, written, field, plan, refusal, row, sent, emptied, item, answer>>

Qualifiers == ToSet(Names)
NoField == [written |-> {}, option |-> FALSE, type |-> "Any", name |-> NoArgument]
NoAnswer == [call |-> "none", family |-> "none", qualifier |-> NoArgument, type |-> "Any", result |-> <<>>]

\* A cell as the server sends it; versions come with falling timestamps.
SentCells ==
  LET Stamped(cells) == [i \in DOMAIN cells |->
        [family |-> cells[i].family, qualifier |-> cells[i].qualifier, meta |-> MaxCells - i + 1, value |-> cells[i].value]]
  IN  {Stamped(cells) : cells \in
         UNION {[1..n -> [family : Families, qualifier : Qualifiers, value : Values]] : n \in 1..MaxCells}}

\* The row the merger builds of the cells.
RowOf(key, cells) ==
  LET Content(cell) == [meta |-> cell.meta, value |-> cell.value]
      families[n \in 0..Len(cells)] ==
        IF n = 0 THEN <<>>
        ELSE AddCell(families[n - 1], cells[n].family, cells[n].qualifier, Content(cells[n]))
  IN  [key |-> key, families |-> families[Len(cells)]]

Init ==
  /\ pc = "Struct" /\ struct = EmptyConfig(StructAttributes)
  /\ config = EmptyConfig(FieldAttributes) /\ written = {} /\ field = NoField
  /\ plan = <<>> /\ refusal = "None"
  /\ row = EmptyRow /\ sent = <<>> /\ emptied = {} /\ item = <<>> /\ answer = NoAnswer

UnchangedRows == UNCHANGED <<row, sent, emptied, item, answer>>

-----------------------------------------------------------------------------
(* expand_from_row.                                                        *)

Refuse(issue) == pc' = "Refused" /\ refusal' = issue

StructAttribute(attribute) ==
  /\ pc = "Struct"
  /\ struct' = ParseAttribute(struct, attribute)
  /\ IF struct'.issue # "None" THEN Refuse(struct'.issue) ELSE UNCHANGED <<pc, refusal>>
  /\ UNCHANGED <<config, written, field, plan>> /\ UnchangedRows

\* FromRow is for structs with named fields.
Shape(data) ==
  /\ pc = "Struct"
  /\ IF data = "NamedStruct" THEN pc' = "Fields" /\ UNCHANGED refusal ELSE Refuse(data)
  /\ UNCHANGED <<struct, config, written, field, plan>> /\ UnchangedRows

FieldAttribute(attribute) ==
  /\ pc = "Fields" /\ Len(plan) < Len(Names)
  /\ config' = ParseAttribute(config, attribute)
  /\ written' = written \cup {<<attribute, IF <<attribute, 1>> \in written THEN 2 ELSE 1>>}
  /\ IF config'.issue # "None"
       THEN Refuse(config'.issue) /\ field' = [field EXCEPT !.written = written']
       ELSE UNCHANGED <<pc, refusal, field>>
  /\ UNCHANGED <<struct, plan>> /\ UnchangedRows

DuplicateRowKey(c) ==
  Has(c, "row_key") /\ \E i \in DOMAIN plan : plan[i].source = "RowKey"

\* The field's attributes end; it is checked and expanded.
EndField(isOption, type) ==
  LET name == Names[Len(plan) + 1]
      expanded == FieldInitializer(name, config, isOption, type, struct)
      issues == <<ConflictIssue(config),
                  IF DuplicateRowKey(config) THEN "DuplicateRowKey" ELSE "None",
                  expanded.issue>>
      failing == SelectInSeq(issues, LAMBDA issue : issue # "None")
  IN  /\ pc = "Fields" /\ Len(plan) < Len(Names)
      /\ field' = [written |-> written, option |-> isOption, type |-> type, name |-> name]
      /\ IF failing # 0
           THEN Refuse(issues[failing]) /\ UNCHANGED plan
           ELSE /\ plan' = Append(plan, CHOOSE init \in expanded.init : TRUE)
                /\ UNCHANGED <<pc, refusal>>
      /\ config' = EmptyConfig(FieldAttributes) /\ written' = {}
      /\ UNCHANGED struct /\ UnchangedRows

\* The type is compiled, and a read with it has started.
Compiled ==
  /\ pc = "Fields" /\ written = {} /\ plan # <<>>
  /\ pc' = "Reading" /\ field' = NoField /\ struct' = EmptyConfig(StructAttributes)
  /\ UNCHANGED <<config, written, plan, refusal>> /\ UnchangedRows

-----------------------------------------------------------------------------
(* TypedRowStream.                                                         *)

UnchangedType == UNCHANGED <<struct, config, written, field, plan, refusal>>

\* map_row: the item may be an error, and the stream goes on.
NextRow(key, cells) ==
  /\ pc = "Reading" /\ item = <<>>
  /\ row' = RowOf(key, cells) /\ sent' = cells
  /\ item' \in FromRow(row', plan)
  /\ UNCHANGED <<pc, emptied, answer>> /\ UnchangedType

\* The caller has seen the item and asks for the next.
TakeItem ==
  /\ pc = "Reading" /\ item # <<>>
  /\ row' = EmptyRow /\ sent' = <<>> /\ item' = <<>>
  /\ UNCHANGED <<pc, emptied, answer>> /\ UnchangedType

\* The read fails: its error passes through as the last item, or the rows end.
NextEnds(status) ==
  /\ pc = "Reading" /\ item = <<>>
  /\ pc' = status
  /\ UnchangedRows /\ UnchangedType

-----------------------------------------------------------------------------
(* The decoder in the hands of a caller.                                   *)

\* A row of a plain read; its fields are public and its owner may empty them.
TakeRow(key, cells) ==
  /\ pc = "Struct" /\ struct = EmptyConfig(StructAttributes)
  /\ pc' = "Manual" /\ row' = RowOf(key, cells) /\ sent' = cells
  /\ UNCHANGED <<emptied, item, answer>> /\ UnchangedType

EmptyColumn(f, c) ==
  /\ pc = "Manual" /\ answer = NoAnswer
  /\ f \in DOMAIN row.families /\ c \in DOMAIN row.families[f].columns
  /\ row' = [row EXCEPT !.families[f].columns[c].cells = <<>>]
  /\ emptied' = emptied \cup {<<row.families[f].name, row.families[f].columns[c].qualifier>>}
  /\ UNCHANGED <<pc, sent, item, answer>> /\ UnchangedType

\* One call of the decoder.
Call(call, family, qualifier, type) ==
  /\ pc = "Manual"
  /\ \E result \in
       CASE call = "required"    -> {<<r>> : r \in Required(row, family, qualifier, "Plain", type)}
         [] call = "optional"    -> {<<r>> : r \in Optional(row, family, qualifier, "Plain", type)}
         [] call = "versions"    -> Versions(row, family, qualifier, type)
         [] call = "cells"       -> Cells(row, family, qualifier)
         [] call = "latest_cell" -> LatestCell(row, family, qualifier) :
       answer' = [call |-> call, family |-> family, qualifier |-> qualifier, type |-> type, result |-> result]
  /\ UNCHANGED <<pc, row, sent, emptied, item>> /\ UnchangedType

Next ==
  \/ \E attribute \in StructChoices : StructAttribute(attribute)
  \/ \E data \in {"NamedStruct", "UnnamedStruct", "Enum", "Union"} : Shape(data)
  \/ \E attribute \in AttributeChoices : FieldAttribute(attribute)
  \/ \E isOption \in BOOLEAN, type \in Types : EndField(isOption, type)
  \/ Compiled
  \/ \E key \in KeyValues, cells \in SentCells : NextRow(key, cells) \/ TakeRow(key, cells)
  \/ TakeItem
  \/ \E status \in {"Failed", "Complete"} : NextEnds(status)
  \/ \E f, c \in 1..MaxCells : EmptyColumn(f, c)
  \/ \E call \in {"required", "optional", "versions", "cells", "latest_cell"},
        family \in Families, qualifier \in Qualifiers, type \in Types : Call(call, family, qualifier, type)

Spec == Init /\ [][Next]_vars

-----------------------------------------------------------------------------
\* What was written on the last field, by attribute name.
Arguments(name) == {w[1].argument : w \in {w \in field.written : w[1].name = name}}
Wrote(name) == Arguments(name) # {}

\* An attribute that is unknown, malformed or written twice.
BadAttribute ==
  \/ \E w \in field.written : w[1].name \notin FieldAttributes \/ QualifierIssue(w[1]) # "None" \/ w[2] > 1
  \/ \E v, w \in field.written : v[1].name = w[1].name /\ v # w

\* Attributes that contradict each other, the field's type or the other fields.
Contradiction ==
  LET others == IF pc = "Refused" THEN plan ELSE Front(plan)
      keyTaken == \E i \in DOMAIN others : others[i].source = "RowKey"
  IN  \/ Wrote("json") /\ Wrote("with")
      \/ Wrote("row_key") /\ (keyTaken \/ Wrote("family") \/ Wrote("qualifier") \/ Wrote("default") \/ field.option)
      \/ ~Wrote("row_key") /\ ~Wrote("family") /\ ~Has(struct, "family")
      \/ field.option /\ Wrote("default")

\* A field compiles exactly when its attributes are known, written once and free
\* of contradictions, in whatever order they stand; its initializer then reads
\* the place they name, the field's own family before the struct's and its own
\* name when no qualifier is given (FieldConfig::parse, field_initializer).
DeriveExact ==
  field # NoField =>
    /\ pc = "Refused" <=> (BadAttribute \/ Contradiction)
    /\ pc # "Refused" =>
         LET init == Last(plan)
         IN  IF Wrote("row_key") THEN init.source = "RowKey"
             ELSE /\ init.source = "Column"
                  /\ {init.family} = IF Wrote("family") THEN Arguments("family") ELSE struct.set["family"]
                  /\ {init.qualifier} = IF Wrote("qualifier") THEN Arguments("qualifier") ELSE {field.name}
                  /\ init.mode = "Default" <=> Wrote("default")
                  /\ init.mode = "Option" <=> field.option

\* What a field must become, from what was sent and not from the merged row.
Expected(init) ==
  LET versions == SentTo(sent, init.family, init.qualifier)
      Decoded(at, value) ==
        IF Decodes(init.decoder, init.type, value) THEN Ok(at, value) ELSE Fail("InvalidValue", at)
  IN  IF init.source = "RowKey" THEN Decoded(AtRowKey, row.key)
      ELSE IF versions # <<>> THEN Decoded(versions[1].meta, versions[1].value)
      ELSE CASE init.mode = "Option" -> Absent
             [] init.mode = "Default" -> Ok(Nowhere, "default")
             [] init.mode = "Required" ->
                  Fail(IF init.family \in {cell.family : cell \in ToSet(sent)} THEN "MissingColumn" ELSE "MissingFamily",
                       Nowhere)

\* Every row is mapped as its type declares, whatever the order of its columns:
\* each field has the latest version of its column or the key, an absent column
\* is None or the default and never hides one that is there but does not decode,
\* and the error is that of the first field that fails (from_row, find_column).
MappedAsDeclared ==
  item # <<>> =>
    /\ \A i \in DOMAIN item : item[i] = Expected(plan[i])
    /\ \A i \in DOMAIN item : item[i].issue # "None" => i = Len(item)
    /\ Len(item) < Len(plan) => Last(item).issue # "None"

\* Calls of the decoder see every version of a column, latest first, and say
\* that it is missing only when nothing was sent of it or all of it was taken
\* out of the row (latest_cell, cells,
\* versions, required, optional).
AnswersExact ==
  answer # NoAnswer =>
    LET versions == IF <<answer.family, answer.qualifier>> \in emptied THEN <<>>
                    ELSE SentTo(sent, answer.family, answer.qualifier)
        missing == RowMappingIssue \ {"InvalidValue"}
        Decoded(cell) == IF FromCellValue(answer.type, cell.value) THEN Ok(cell.meta, cell.value)
                         ELSE Fail("InvalidValue", cell.meta)
        bad == SelectInSeq(versions, LAMBDA cell : ~FromCellValue(answer.type, cell.value))
    IN  IF versions = <<>>
          THEN CASE answer.call = "optional" -> answer.result = <<Absent>>
                 [] answer.call \in {"required", "versions"} -> answer.result[1].issue \in missing
                 [] OTHER -> answer.result.issue \in missing
          ELSE CASE answer.call \in {"required", "optional"} -> answer.result = <<Decoded(versions[1])>>
                 [] answer.call = "versions" ->
                      answer.result = IF bad # 0 THEN <<Decoded(versions[bad])>>
                                      ELSE [i \in DOMAIN versions |-> Decoded(versions[i])]
                 [] answer.call = "cells" -> answer.result.cells = versions
                 [] OTHER -> answer.result.cells = <<versions[1]>>
=============================================================================
