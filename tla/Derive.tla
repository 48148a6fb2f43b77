-------------------------------- MODULE Derive --------------------------------
(***************************************************************************)
(* The derive macro of bigtable-client-derive: from the attributes of a    *)
(* struct and its fields to the decoder call that fills each field.  A     *)
(* config maps every supported attribute to {} or to {its argument}; an    *)
(* attribute without an argument has the argument NoArgument.              *)
(***************************************************************************)
EXTENDS RowMapping

NoArgument == 0
BadLiteral == -1

StructAttributes == {"family"}
FieldAttributes == {"row_key", "family", "qualifier", "json", "with", "default"}

EmptyConfig(supported) == [issue |-> "None", set |-> [name \in supported |-> {}]]

\* Qualifier::parse: a string or a byte string.
QualifierIssue(attribute) ==
  IF attribute.name = "qualifier" /\ attribute.argument = BadLiteral THEN "InvalidQualifier" ELSE "None"

\* Faulty variant: the last one counts.
SetLast(config, attribute) == [config EXCEPT !.set[attribute.name] = {attribute.argument}]

\* set_once, set_flag
SetOnce(config, attribute) ==
  IF config.set[attribute.name] # {} THEN [config EXCEPT !.issue = "DuplicateAttribute"]
  ELSE [config EXCEPT !.set[attribute.name] = {attribute.argument}]

ParseAttribute(config, attribute) ==
  IF attribute.name \notin DOMAIN config.set THEN [config EXCEPT !.issue = "UnsupportedAttribute"]
  ELSE IF QualifierIssue(attribute) # "None" THEN [config EXCEPT !.issue = QualifierIssue(attribute)]
  ELSE SetOnce(config, attribute)

Has(config, name) == config.set[name] # {}

\* The end of FieldConfig::parse.
ConflictIssue(config) ==
  IF Has(config, "json") /\ Has(config, "with") THEN "ConflictingDecoder" ELSE "None"

ValidateRowKeyConfig(config, isOption) ==
  IF Has(config, "family") \/ Has(config, "qualifier") THEN "RowKeySelector"
  ELSE IF isOption THEN "RowKeyOption"
  ELSE IF Has(config, "default") THEN "RowKeyDefault"
  ELSE "None"

Decoder(config) == IF Has(config, "json") THEN "Json" ELSE IF Has(config, "with") THEN "With" ELSE "Plain"

\* How a field is filled.  The target type matters to a plain decoder only; the
\* others have theirs in the set of values they accept.
Initializer(source, family, qualifier, config, type, mode) ==
  [source |-> source, family |-> family, qualifier |-> qualifier, decoder |-> Decoder(config),
   type |-> IF Decoder(config) = "Plain" THEN type ELSE "Any", mode |-> mode]

Refused(issue) == [issue |-> issue, init |-> {}]
Filled(init) == [issue |-> "None", init |-> {init}]

\* A family on the field goes before the one on the struct.
FamilyOf(config, structConfig) ==
  IF Has(config, "family") THEN config.set["family"] ELSE structConfig.set["family"]

\* optional: the field is an Option or has a default.
Mode(config, isOption) == IF isOption THEN "Option" ELSE IF Has(config, "default") THEN "Default" ELSE "Required"

FieldInitializer(name, config, isOption, type, structConfig) ==
  LET families == FamilyOf(config, structConfig)
      qualifiers == IF Has(config, "qualifier") THEN config.set["qualifier"] ELSE {name}
      keyIssue == ValidateRowKeyConfig(config, isOption)
  IN  IF Has(config, "row_key")
        THEN IF keyIssue # "None" THEN Refused(keyIssue)
             ELSE Filled(Initializer("RowKey", "none", NoArgument, config, type, "Required"))
      ELSE IF families = {} THEN Refused("MissingFamily")
      ELSE IF isOption /\ Has(config, "default") THEN Refused("DefaultOption")
      ELSE Filled(Initializer("Column", CHOOSE f \in families : TRUE, CHOOSE q \in qualifiers : TRUE,
                              config, type, Mode(config, isOption)))

-----------------------------------------------------------------------------
(* The generated from_row.                                                 *)

\* What the decoder calls of one field may return.  An absent cell of a field
\* with a default is the type's default.
FieldResults(row, init) ==
  IF init.source = "RowKey" THEN {RowKey(row, init.decoder, init.type)}
  ELSE IF init.mode = "Required" THEN Required(row, init.family, init.qualifier, init.decoder, init.type)
  ELSE {IF result = Absent /\ init.mode = "Default" THEN Ok(Nowhere, "default") ELSE result :
          result \in Optional(row, init.family, init.qualifier, init.decoder, init.type)}

\* The fields are filled in the order they are declared, up to the first error.
FromRow(row, plan) ==
  LET Failed(results) == results # <<>> /\ Last(results).issue # "None"
      outcomes[n \in 0..Len(plan)] ==
        IF n = 0 THEN {<<>>}
        ELSE UNION {IF Failed(results) THEN {results}
                    ELSE {Append(results, result) : result \in FieldResults(row, plan[n])} :
                      results \in outcomes[n - 1]}
  IN  outcomes[Len(plan)]
=============================================================================
