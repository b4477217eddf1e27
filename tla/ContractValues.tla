--------------------------- MODULE ContractValues ---------------------------
(***************************************************************************)
(* Template definitions, the values of a contract and the form they are    *)
(* typed into: how a definition is made canonical, how a body becomes the  *)
(* values of a contract, how the browser fills a form and sends it.        *)
(*                                                                         *)
(* A value is a record of its JavaScript type and its text; a definition   *)
(* is a sequence of fields; a body, the values of a contract and a form    *)
(* are functions of the keys.  Issues are a set: their order only decides  *)
(* in which order they are shown.                                          *)
(***************************************************************************)
EXTENDS Naturals, Sequences, FiniteSets, SequencesExt

CONSTANTS
  LegalKeys,      \* keys that FIELD_KEY and its length admit
  MaxItems,       \* MAX_ITEMS
  Blanks,         \* texts without a character that is not a space
  CalendarDates,  \* texts isCalendarDate admits
  Trimmed,        \* String.prototype.trim, where it changes a text
  NumberOf,       \* Number of the texts a number input may hold
  Candidates,     \* definitions that are offered for publication
  Bodies,         \* values that are offered for a contract
  Clears,         \* keys an edit clears, with how often it names them
  None

Types == {"text", "number", "date", "boolean", "enum"}

Text(s) == [js |-> "string", v |-> s]
Number(n) == [js |-> "number", v |-> n]
Boolean(b) == [js |-> "boolean", v |-> b]
Null == [js |-> "null", v |-> "null"]

Refused(issues) == [is |-> "issues", issues |-> issues]
Resolved(values) == [is |-> "values", values |-> values]
Issue(key, code) == [key |-> key, code |-> code]

Trim(s) == IF s \in DOMAIN Trimmed THEN Trimmed[s] ELSE s

\* Negative zero becomes zero.
canonicalNumber(value) == IF value = Number("-0") THEN Number("0") ELSE value

Finite(value) == value.js = "number" /\ value.v \notin {"NaN", "Infinity"}

\* ContractValueIssueCode
Codes ==
  {"UNKNOWN_FIELD", "NULL_NOT_ALLOWED", "REQUIRED", "INVALID_TYPE", "INVALID_TEXT",
   "INVALID_DATE", "INVALID_ENUM", "DUPLICATE_FIELD", "AMBIGUOUS_FIELD"}

\* The values and the fields a request may hold.
Values ==
  [js : {"string", "number"}, v : STRING]
    \cup [js : {"boolean"}, v : {"true", "false"}] \cup {Null}
Drafted ==
  [key : STRING, label : STRING, type : STRING, required : BOOLEAN,
   options : Seq(STRING) \cup {None}, default : Values \cup {None}]

\* Number reads what String writes of a finite number, and that is not empty.
Legible(value) ==
  Finite(value) => LET n == canonicalNumber(value).v IN n # "" /\ NumberOf[n] = n

ASSUME ValuesAssumption ==
  /\ MaxItems \in Nat \ {0}
  /\ \A s \in DOMAIN Trimmed : Trimmed[s] \in STRING \ DOMAIN Trimmed
  /\ "" \notin CalendarDates
  /\ {"", "0", "true", "false", "null"} \subseteq STRING
  /\ None \notin STRING \cup Codes \cup Seq(STRING) \cup Values
  /\ \A keys \in SUBSET LegalKeys : None \notin [keys -> Values]

\* What is offered is what a request may hold.
ASSUME OffersAssumption ==
  /\ Candidates \subseteq Seq(Drafted)
  /\ \A c \in Candidates : \A i \in DOMAIN c : c[i].default # None =>
       Legible(c[i].default)
  /\ \A b \in Bodies : b \in [DOMAIN b -> Values] /\ \A k \in DOMAIN b : Legible(b[k])
  /\ \A c \in Clears : c \in [DOMAIN c -> Nat \ {0}]

-----------------------------------------------------------------------------
(***************************************************************************)
(* Template definitions.                                                   *)
(***************************************************************************)

Fields(definition) == Range(definition)
KeysOf(definition) == {f.key : f \in Fields(definition)}
FieldOf(definition, key) == CHOOSE f \in Fields(definition) : f.key = key

isCalendarDate(s) == s \in CalendarDates

canonicalOptions(options) == [i \in DOMAIN options |-> Trim(options[i])]

\* The options are an array within the limits, not blank and distinct.
OptionsOk(options) ==
  LET canonical == canonicalOptions(options) IN
  /\ Len(options) \in 1..MaxItems
  /\ "" \notin Range(canonical)
  /\ IsInjective(canonical)

\* Mutant of DefaultOk: the type is all that counts.
DefaultOfType(f) ==
  CASE f.type = "number" -> f.default.js = "number"
    [] f.type = "boolean" -> f.default.js = "boolean"
    [] OTHER -> f.default.js = "string"

\* canonicalDefault: the default is a value the field would take.
DefaultOk(f) ==
  CASE f.type = "text" -> /\ f.default.js = "string"
                          /\ f.required => f.default.v \notin Blanks
    [] f.type = "number" -> Finite(f.default)
    [] f.type = "date" -> f.default.js = "string" /\ isCalendarDate(f.default.v)
    [] f.type = "boolean" -> f.default.js = "boolean"
    [] OTHER -> /\ f.default.js = "string"
                /\ f.default.v \in Range(canonicalOptions(f.options))

\* canonicalField does not throw.  Only an enum has options.
FieldOk(f) ==
  /\ f.type \in Types
  /\ (f.options # None) = (f.type = "enum")
  /\ f.key \in LegalKeys
  /\ Trim(f.label) # ""
  /\ f.type = "enum" => OptionsOk(f.options)
  /\ f.default # None => DefaultOk(f)

\* What canonicalField returns.
Canonical(f) ==
  [f EXCEPT
     !.label = Trim(@),
     !.options = IF @ = None THEN None ELSE canonicalOptions(@),
     !.default = IF @ = None THEN None ELSE canonicalNumber(@)]

\* The definition, or None if it is invalid.
canonicalTemplateDefinition(input) ==
  IF /\ Len(input) \in 1..MaxItems
     /\ \A i \in DOMAIN input : FieldOk(input[i])
     /\ IsInjective([i \in DOMAIN input |-> input[i].key])
  THEN [i \in DOMAIN input |-> Canonical(input[i])]
  ELSE None

\* Mutant of Semantic: the options count in their order.
InOptionOrder(definition) == Fields(definition)

\* semanticDefinition sorts the fields and the options of each.
Semantic(definition) ==
  {[f EXCEPT !.options = IF @ = None THEN None ELSE Range(@)] :
     f \in Fields(definition)}

templateDefinitionsEqual(left, right) == Semantic(left) = Semantic(right)

-----------------------------------------------------------------------------
(***************************************************************************)
(* A body becomes the values of a contract.                                *)
(***************************************************************************)

\* validateValue: the code of the issue, or None.
validateValue(f, value) ==
  CASE value = Null -> "NULL_NOT_ALLOWED"
    [] value # Null /\ f.type = "number" ->
         IF Finite(value) THEN None ELSE "INVALID_TYPE"
    [] value # Null /\ f.type = "boolean" ->
         IF value.js = "boolean" THEN None ELSE "INVALID_TYPE"
    [] OTHER ->
         CASE value.js # "string" -> "INVALID_TYPE"
           [] value.js = "string" /\ f.type = "text" ->
                IF f.required /\ value.v \in Blanks THEN "INVALID_TEXT" ELSE None
           [] value.js = "string" /\ f.type = "date" ->
                IF isCalendarDate(value.v) THEN None ELSE "INVALID_DATE"
           [] OTHER ->
                IF value.v \in Range(f.options) THEN None ELSE "INVALID_ENUM"

\* Mutant of Given: a default stands in for a value that does not count as true.
GivenOrFalsy(f, supplied) ==
  IF /\ f.key \in DOMAIN supplied
     /\ f.default # None => supplied[f.key].v \notin {"", "0", "false"}
  THEN supplied[f.key] ELSE f.default

\* What a field gets: the supplied value, or the default if there is one.
Given(f, supplied) ==
  IF f.key \in DOMAIN supplied THEN supplied[f.key] ELSE f.default

\* The issue of a field that is not cleared.
IssueOf(f, supplied) ==
  IF f.key \in DOMAIN supplied THEN validateValue(f, supplied[f.key])
  ELSE IF f.required /\ f.default = None THEN "REQUIRED" ELSE None

resolveValues(definition, supplied, cleared) ==
  LET asked == {f \in Fields(definition) : f.key \notin cleared}
      wrong == {f \in asked : IssueOf(f, supplied) # None}
      issues == {Issue(f.key, IssueOf(f, supplied)) : f \in wrong}
        \cup {Issue(k, "UNKNOWN_FIELD") :
                k \in DOMAIN supplied \ KeysOf(definition)}
      filled == {f \in asked : Given(f, supplied) # None}
  IN IF issues # {} THEN Refused(issues)
     ELSE Resolved([k \in {f.key : f \in filled} |->
                     canonicalNumber(Given(FieldOf(definition, k), supplied))])

resolveContractValues(definition, supplied) ==
  resolveValues(definition, supplied, {})

\* What is wrong with the keys an edit clears; clears gives how often each is
\* named.
ClearIssues(definition, supplied, clears) ==
  LET known == {f \in Fields(definition) : f.key \in DOMAIN clears} IN
  {Issue(f.key, "REQUIRED") : f \in {g \in known : g.required}}
    \cup {Issue(f.key, "AMBIGUOUS_FIELD") :
            f \in {g \in known : g.key \in DOMAIN supplied}}
    \cup {Issue(k, "DUPLICATE_FIELD") : k \in {j \in DOMAIN clears : clears[j] > 1}}
    \cup {Issue(k, "UNKNOWN_FIELD") : k \in DOMAIN clears \ KeysOf(definition)}

resolveDraftEditValues(definition, supplied, clears) ==
  LET issues == ClearIssues(definition, supplied, clears) IN
  IF issues # {} THEN Refused(issues)
  ELSE resolveValues(definition, supplied, DOMAIN clears)

contractValuesEqual(left, right) ==
  /\ DOMAIN left = DOMAIN right
  /\ \A k \in DOMAIN left : canonicalNumber(left[k]) = canonicalNumber(right[k])

-----------------------------------------------------------------------------
(***************************************************************************)
(* The form of the browser.                                                *)
(***************************************************************************)

\* String of a value.
AsInput(value) == canonicalNumber(value).v

defaultValue(f) == IF f.default = None THEN "" ELSE AsInput(f.default)

\* Mutant of PersistedInput: what the contract does not have gets its default.
PersistedOrDefault(f, values) ==
  [included |-> f.required \/ f.key \in DOMAIN values \/ f.default # None,
   value |-> IF f.key \in DOMAIN values THEN AsInput(values[f.key])
             ELSE defaultValue(f)]

\* The input of a field that shows the saved value.
PersistedInput(f, values) ==
  [included |-> f.required \/ f.key \in DOMAIN values,
   value |-> IF f.key \in DOMAIN values THEN AsInput(values[f.key])
             ELSE defaultValue(f)]

\* The input of a field in a form for a new contract.
DefaultInput(f) ==
  [included |-> f.default # None \/ f.required \/ f.type # "text",
   value |-> defaultValue(f)]

\* createContractValueForm, from the values of a contract or from defaults.
createContractValueForm(definition, persisted) ==
  [k \in KeysOf(definition) |->
     LET f == FieldOf(definition, k) IN
     IF persisted = None THEN DefaultInput(f) ELSE PersistedInput(f, persisted)]

\* Mutant of Sent: an empty input is never sent.
SentUnlessEmpty(f, input) == input.included /\ input.value # ""

Sent(f, input) == input.included /\ (input.value # "" \/ f.type = "text")

\* The value of an input, as it arrives: JSON has no negative zero and writes
\* null for a number that is not finite.
Transported(f, input) ==
  CASE f.type = "number" ->
         LET n == Number(NumberOf[input.value]) IN
         IF Finite(n) THEN canonicalNumber(n) ELSE Null
    [] f.type = "boolean" ->
         Boolean(IF input.value = "true" THEN "true" ELSE "false")
    [] OTHER -> Text(input.value)

\* serializeContractValueForm.
serializeContractValueForm(definition, form) ==
  LET sent == {f \in Fields(definition) : Sent(f, form[f.key])} IN
  [values |-> [k \in {f.key : f \in sent} |->
                 Transported(FieldOf(definition, k), form[k])],
   excludedOptionalKeys |->
     {f.key : f \in {g \in Fields(definition) \ sent : ~g.required}}]

-----------------------------------------------------------------------------
(***************************************************************************)
(* What the values of a contract may be, whatever way they came about.     *)
(***************************************************************************)

\* The values a field may have.
Fits(f, value) ==
  /\ value.js = CASE f.type = "number" -> "number"
                  [] f.type = "boolean" -> "boolean"
                  [] OTHER -> "string"
  /\ f.type = "text" /\ f.required => value.v \notin Blanks
  /\ f.type = "number" => value.v \notin {"NaN", "Infinity", "-0"}
  /\ f.type = "date" => value.v \in CalendarDates
  /\ f.type = "enum" => value.v \in Range(f.options)

Conforms(definition, values) ==
  /\ DOMAIN values \subseteq KeysOf(definition)
  /\ \A f \in Fields(definition) :
       IF f.key \in DOMAIN values THEN Fits(f, values[f.key]) ELSE ~f.required

Accepted == {canonicalTemplateDefinition(c) : c \in Candidates} \ {None}

\* The keys an edit clears can be cleared: each once, each known and optional,
\* and none of them supplied.
MayClear(definition, supplied, clears) ==
  \A k \in DOMAIN clears :
    /\ clears[k] = 1
    /\ k \in {f.key : f \in {g \in Fields(definition) : ~g.required}}
    /\ k \notin DOMAIN supplied

\* The defaults of a definition without the cleared keys, and what is supplied
\* laid over them.
Overlay(definition, supplied, clears) ==
  LET defaults == {f.key : f \in {g \in Fields(definition) : g.default # None}}
                    \ DOMAIN clears IN
  [k \in defaults \cup DOMAIN supplied |->
     canonicalNumber(IF k \in DOMAIN supplied THEN supplied[k]
                     ELSE FieldOf(definition, k).default)]

\* A body resolves to its overlay when that is a contract the definition allows,
\* and is refused otherwise.
EveryBodyOverlaid ==
  \A d \in Accepted, supplied \in Bodies, clears \in Clears :
    LET overlay == Overlay(d, supplied, clears)
        result == resolveDraftEditValues(d, supplied, clears)
    IN IF MayClear(d, supplied, clears) /\ Conforms(d, overlay)
       THEN result = Resolved(overlay)
       ELSE result.is = "issues"

\* The edit that a form filled from saved values asks for when it is sent
\* untouched.
UntouchedEdit(definition, saved) ==
  LET form == createContractValueForm(definition, saved)
      sent == serializeContractValueForm(definition, form)
  IN resolveDraftEditValues(definition, sent.values,
                            [k \in sent.excludedOptionalKeys |-> 1])

\* No contract, however it was edited, changes when its form is sent untouched.
EveryFormKept ==
  \A d \in Accepted, supplied \in Bodies, clears \in Clears :
    LET saved == resolveDraftEditValues(d, supplied, clears) IN
    saved.is = "values" =>
      LET again == UntouchedEdit(d, saved.values) IN
      again.is = "values" /\ contractValuesEqual(again.values, saved.values)

\* a can be turned into b by moving fields and options around.
Reordering(a, b) ==
  \E p \in Bijection(DOMAIN a, DOMAIN b) :
    \A i \in DOMAIN a :
      /\ [a[i] EXCEPT !.options = None] = [b[p[i]] EXCEPT !.options = None]
      /\ a[i].type = "enum" =>
           \E q \in Bijection(DOMAIN a[i].options, DOMAIN b[p[i]].options) :
             \A j \in DOMAIN q : a[i].options[j] = b[p[i]].options[q[j]]

\* Definitions are equal when they differ in their order only, and then no body
\* can tell them apart.
EqualIsReordered ==
  \A a, b \in Accepted :
    /\ templateDefinitionsEqual(a, b) <=> Reordering(a, b)
    /\ templateDefinitionsEqual(a, b) =>
         \A supplied \in Bodies :
           resolveContractValues(a, supplied) = resolveContractValues(b, supplied)

=============================================================================
