-------------------------- MODULE WorkspaceHomeProofs -------------------------
(***************************************************************************)
(* What the workspace home shows is true, for any number of contracts,     *)
(* template versions, colleagues, addresses and page sizes, and for every  *)
(* definition and every body.                                              *)
(*                                                                         *)
(* First the rules of ContractValues, which hold of any definition that is *)
(* published: what a body resolves to, what an untouched form sends, which *)
(* definitions are equal.  Then the list: the order of createdAt and id is *)
(* one order for all rows, so a page is an interval of it, and the walk is *)
(* one long page although rows arrive between two of them.  Last the form: *)
(* what it sends is resolved against a version that may be newer than the  *)
(* one it shows, and still every value it showed is stored.                *)
(***************************************************************************)
EXTENDS WorkspaceHome, FiniteSetTheorems, SequenceTheorems, TLAPS

-----------------------------------------------------------------------------
(***************************************************************************)
(* The definitions that are published.                                     *)
(***************************************************************************)

\* A field of a definition that is published.
SoundField(f) ==
  /\ f \in Drafted
  /\ f.key \in LegalKeys
  /\ f.type \in Types
  /\ f.options # None <=> f.type = "enum"
  /\ f.type = "enum" => IsInjective(f.options) /\ "" \notin Range(f.options)
  /\ f.default # None =>
       /\ f.default \in Values
       /\ Fits(f, f.default)
       /\ canonicalNumber(f.default) = f.default
       /\ Legible(f.default)

\* A definition that is published: no two fields of it have one key.
Sound(definition) ==
  /\ definition = [i \in DOMAIN definition |-> definition[i]]
  /\ \A i \in DOMAIN definition : SoundField(definition[i])
  /\ \A i, j \in DOMAIN definition : definition[i].key = definition[j].key => i = j

\* Values as they are stored: of their types, and zero without a sign.
Clean(value) == value \in Values /\ canonicalNumber(value) = value

LEMMA NoneIsNone ==
  /\ None \notin STRING
  /\ None \notin Seq(STRING)
  /\ None \notin Values
BY ValuesAssumption

LEMMA ValueForms ==
  ASSUME NEW value \in Values
  PROVE  /\ value.js \in {"string", "number", "boolean", "null"}
         /\ value.js = "null" <=> value = Null
         /\ value.v \in STRING
         /\ value = [js |-> value.js, v |-> value.v]
         /\ value.js = "boolean" => value.v \in {"true", "false"}
<1>1. CASE value = Null
  BY <1>1, ValuesAssumption DEF Null
<1>2. CASE value \in [js : {"boolean"}, v : {"true", "false"}]
  <2>1. value.js = "boolean" /\ value.v \in {"true", "false"} /\ value # Null
    BY <1>2 DEF Null
  <2>2. value.v \in STRING
    BY <2>1, ValuesAssumption
  <2>3. value = [js |-> value.js, v |-> value.v]
    BY <1>2
  <2> QED BY <2>1, <2>2, <2>3
<1>3. CASE value \in [js : {"string", "number"}, v : STRING]
  BY <1>3 DEF Null
<1> QED BY <1>1, <1>2, <1>3 DEF Values

\* Making a number canonical only takes the sign of zero.
LEMMA CanonicalNumbers ==
  ASSUME NEW value \in Values
  PROVE  /\ canonicalNumber(value) \in Values
         /\ canonicalNumber(value).js = value.js
         /\ canonicalNumber(canonicalNumber(value)) = canonicalNumber(value)
         /\ value.js # "number" => canonicalNumber(value) = value
         /\ Finite(canonicalNumber(value)) <=> Finite(value)
         /\ canonicalNumber(value).js = "number" => canonicalNumber(value).v # "-0"
         /\ Legible(value) <=> Legible(canonicalNumber(value))
<1>1. CASE value = Number("-0")
  <2>1. canonicalNumber(value) = Number("0") /\ Number("0") # Number("-0")
    BY <1>1 DEF canonicalNumber, Number
  <2>2. canonicalNumber(Number("0")) = Number("0")
    BY <2>1 DEF canonicalNumber
  <2>3. /\ Number("0") \in Values /\ Number("0").js = "number"
        /\ Number("0").v = "0" /\ Number("-0").v = "-0" /\ Number("-0").js = "number"
    BY ValuesAssumption DEF Number, Values
  <2> QED BY <1>1, <2>1, <2>2, <2>3 DEF Finite, Legible
<1>2. CASE value # Number("-0")
  <2>1. canonicalNumber(value) = value
    BY <1>2 DEF canonicalNumber
  <2>2. value.js = "number" => value.v # "-0"
    BY <1>2, ValueForms DEF Number
  <2> QED BY <2>1, <2>2
<1> QED BY <1>1, <1>2

\* validateValue, type by type.
LEMMA ValidationOfNull ==
  ASSUME NEW f
  PROVE  validateValue(f, Null) = "NULL_NOT_ALLOWED"
BY DEF validateValue

LEMMA ValidationOfNumbers ==
  ASSUME NEW f, NEW value, f.type = "number", value # Null
  PROVE  validateValue(f, value) = IF Finite(value) THEN None ELSE "INVALID_TYPE"
BY DEF validateValue

LEMMA ValidationOfBooleans ==
  ASSUME NEW f, NEW value, f.type = "boolean", value # Null
  PROVE  validateValue(f, value) = IF value.js = "boolean" THEN None ELSE "INVALID_TYPE"
BY DEF validateValue

LEMMA ValidationOfTexts ==
  ASSUME NEW f, NEW value, f.type = "text", value # Null
  PROVE  validateValue(f, value) =
           IF value.js # "string" THEN "INVALID_TYPE"
           ELSE IF f.required /\ value.v \in Blanks THEN "INVALID_TEXT" ELSE None
<1>1. CASE value.js # "string"
  BY <1>1 DEF validateValue
<1>2. CASE value.js = "string"
  BY <1>2 DEF validateValue
<1> QED BY <1>1, <1>2

LEMMA ValidationOfDates ==
  ASSUME NEW f, NEW value, f.type = "date", value # Null
  PROVE  validateValue(f, value) =
           IF value.js # "string" THEN "INVALID_TYPE"
           ELSE IF value.v \in CalendarDates THEN None ELSE "INVALID_DATE"
<1>1. CASE value.js # "string"
  BY <1>1 DEF validateValue
<1>2. CASE value.js = "string"
  BY <1>2 DEF validateValue, isCalendarDate
<1> QED BY <1>1, <1>2

LEMMA ValidationOfChoices ==
  ASSUME NEW f, NEW value, f.type = "enum", value # Null
  PROVE  validateValue(f, value) =
           IF value.js # "string" THEN "INVALID_TYPE"
           ELSE IF value.v \in Range(f.options) THEN None ELSE "INVALID_ENUM"
<1>1. CASE value.js # "string"
  BY <1>1 DEF validateValue
<1>2. CASE value.js = "string"
  BY <1>2 DEF validateValue
<1> QED BY <1>1, <1>2

\* A value passes validateValue if what is stored of it fits.
LEMMA ValidIsFitting ==
  ASSUME NEW f, f.type \in Types, NEW value \in Values
  PROVE  validateValue(f, value) = None <=> Fits(f, canonicalNumber(value))
<1>1. /\ None # "NULL_NOT_ALLOWED" /\ None # "INVALID_TYPE" /\ None # "INVALID_TEXT"
      /\ None # "INVALID_DATE" /\ None # "INVALID_ENUM"
  BY ValuesAssumption DEF Codes
<1> DEFINE w == canonicalNumber(value)
<1>2. /\ w.js = value.js
      /\ value.js # "number" => w = value
      /\ Finite(w) <=> Finite(value)
      /\ w.js = "number" => w.v # "-0"
  BY CanonicalNumbers
<1>3. value.js = "null" <=> value = Null
  BY ValueForms
<1> HIDE DEF w
<1>4. CASE value = Null
  <2>1. w.js = "null"
    BY <1>2, <1>4 DEF Null
  <2> QED BY <1>1, <1>4, <2>1, ValidationOfNull DEF Fits, w
<1>5. CASE value # Null /\ f.type = "number"
  BY <1>1, <1>2, <1>5, ValidationOfNumbers DEF Fits, Finite, w
<1>6. CASE value # Null /\ f.type = "boolean"
  BY <1>1, <1>2, <1>6, ValidationOfBooleans DEF Fits, w
<1>7. CASE value # Null /\ f.type = "text"
  BY <1>1, <1>2, <1>7, ValidationOfTexts DEF Fits, w
<1>8. CASE value # Null /\ f.type = "date"
  BY <1>1, <1>2, <1>8, ValidationOfDates DEF Fits, w
<1>9. CASE value # Null /\ f.type = "enum"
  BY <1>1, <1>2, <1>9, ValidationOfChoices DEF Fits, w
<1> QED BY <1>4, <1>5, <1>6, <1>7, <1>8, <1>9 DEF Types

LEMMA TrimmedTexts ==
  ASSUME NEW s \in STRING
  PROVE  Trim(s) \in STRING
BY ValuesAssumption DEF Trim

LEMMA CanonicalOptions ==
  ASSUME NEW options \in Seq(STRING)
  PROVE  /\ canonicalOptions(options) \in Seq(STRING)
         /\ canonicalOptions(options) # None
<1>1. DOMAIN options = 1..Len(options) /\ Len(options) \in Nat
  OBVIOUS
<1>2. ASSUME NEW i \in 1..Len(options)
      PROVE  Trim(options[i]) \in STRING
  <2>1. options[i] \in STRING
    OBVIOUS
  <2> QED BY <2>1, TrimmedTexts
<1>3. canonicalOptions(options) = [i \in 1..Len(options) |-> Trim(options[i])]
  BY <1>1 DEF canonicalOptions
<1>4. canonicalOptions(options) \in Seq(STRING)
  BY <1>1, <1>2, <1>3
<1> QED BY <1>4, ValuesAssumption

\* What canonicalField returns is sound.
LEMMA CanonicalSound ==
  ASSUME NEW f \in Drafted, FieldOk(f), f.default # None => Legible(f.default)
  PROVE  /\ SoundField(Canonical(f))
         /\ Canonical(f).key = f.key
<1> DEFINE options == IF f.options = None THEN None ELSE canonicalOptions(f.options)
           default == IF f.default = None THEN None ELSE canonicalNumber(f.default)
           c == Canonical(f)
<1>1. /\ c = [f EXCEPT !.label = Trim(f.label), !.options = options,
                      !.default = default]
      /\ f.label \in STRING /\ f.required \in BOOLEAN
      /\ f.options \in Seq(STRING) \cup {None}
      /\ f.default \in Values \cup {None}
  BY DEF Canonical, Drafted
<1>2. /\ options \in Seq(STRING) \cup {None}
      /\ options = None <=> f.options = None
  BY <1>1, CanonicalOptions
<1>3. /\ default \in Values \cup {None}
      /\ default = None <=> f.default = None
  BY <1>1, CanonicalNumbers, ValuesAssumption
<1> HIDE DEF options, default
<1>4. /\ c \in Drafted
      /\ c.key = f.key /\ c.type = f.type /\ c.required = f.required
      /\ c.options = options /\ c.default = default
  BY <1>1, <1>2, <1>3, TrimmedTexts DEF Drafted
<1>5. /\ f.key \in LegalKeys
      /\ f.type \in Types /\ (f.options # None <=> f.type = "enum")
  BY DEF FieldOk
<1>6. ASSUME f.type = "enum"
      PROVE  /\ options = canonicalOptions(f.options)
             /\ IsInjective(options) /\ "" \notin Range(options)
  <2>1. options = canonicalOptions(f.options)
    BY <1>5, <1>6 DEF options
  <2> QED BY <1>6, <2>1 DEF FieldOk, OptionsOk
<1>7. ASSUME f.default # None
      PROVE  /\ default \in Values /\ canonicalNumber(default) = default
             /\ Legible(default)
             /\ Fits(c, default)
  <2>1. f.default \in Values /\ default = canonicalNumber(f.default)
    BY <1>1, <1>7 DEF default
  <2>2. /\ default \in Values /\ canonicalNumber(default) = default
        /\ Legible(default)
        /\ default.js = f.default.js
        /\ f.default.js # "number" => default = f.default
        /\ Finite(default) <=> Finite(f.default)
        /\ default.js = "number" => default.v # "-0"
    BY <1>7, <2>1, CanonicalNumbers
  <2>3. DefaultOk(f)
    BY <1>7 DEF FieldOk
  <2>4. CASE f.type = "text"
    BY <1>4, <2>2, <2>3, <2>4 DEF DefaultOk, Fits
  <2>5. CASE f.type = "number"
    BY <1>4, <2>2, <2>3, <2>5 DEF DefaultOk, Fits, Finite
  <2>6. CASE f.type = "date"
    BY <1>4, <2>2, <2>3, <2>6 DEF DefaultOk, Fits, isCalendarDate
  <2>7. CASE f.type = "boolean"
    BY <1>4, <2>2, <2>3, <2>7 DEF DefaultOk, Fits
  <2>8. CASE f.type = "enum"
    BY <1>4, <1>6, <2>2, <2>3, <2>8 DEF DefaultOk, Fits
  <2> QED BY <1>5, <2>2, <2>4, <2>5, <2>6, <2>7, <2>8 DEF Types
<1> HIDE DEF c
<1>8. SoundField(c)
  BY <1>2, <1>3, <1>4, <1>5, <1>6, <1>7 DEF SoundField
<1> QED BY <1>4, <1>8 DEF c

\* And so is what is published.
LEMMA PublishedIsSound ==
  ASSUME NEW candidate \in Candidates,
         canonicalTemplateDefinition(candidate) # None
  PROVE  Sound(canonicalTemplateDefinition(candidate))
<1> DEFINE d == canonicalTemplateDefinition(candidate)
<1>1. /\ d = [i \in DOMAIN candidate |-> Canonical(candidate[i])]
      /\ \A i \in DOMAIN candidate : FieldOk(candidate[i])
      /\ IsInjective([i \in DOMAIN candidate |-> candidate[i].key])
  BY DEF canonicalTemplateDefinition
<1>2. \A i \in DOMAIN candidate : candidate[i] \in Drafted
  BY OffersAssumption
<1>3. \A i \in DOMAIN candidate :
        SoundField(Canonical(candidate[i])) /\ Canonical(candidate[i]).key = candidate[i].key
  BY <1>1, <1>2, CanonicalSound, OffersAssumption
<1> HIDE DEF d
<1>4. \A i, j \in DOMAIN candidate : candidate[i].key = candidate[j].key => i = j
  BY <1>1 DEF IsInjective
<1> QED BY <1>1, <1>3, <1>4 DEF Sound, d

LEMMA AcceptedIsSound ==
  ASSUME NEW d \in Accepted
  PROVE  Sound(d)
BY PublishedIsSound DEF Accepted

\* The fields of a sound definition are told apart by their keys.
LEMMA FieldsByKey ==
  ASSUME NEW d, Sound(d)
  PROVE  /\ \A f \in Fields(d) : SoundField(f)
         /\ \A f, g \in Fields(d) : f.key = g.key => f = g
         /\ \A f \in Fields(d) : f.key \in KeysOf(d) /\ FieldOf(d, f.key) = f
         /\ \A k \in KeysOf(d) : FieldOf(d, k) \in Fields(d) /\ FieldOf(d, k).key = k
<1>1. \A f \in Fields(d) : \E i \in DOMAIN d : f = d[i]
  BY DEF Fields, Range
<1>2. \A f \in Fields(d) : SoundField(f)
  BY <1>1 DEF Sound
<1>3. \A f, g \in Fields(d) : f.key = g.key => f = g
  BY <1>1 DEF Sound
<1>4. ASSUME NEW k \in KeysOf(d)
      PROVE  FieldOf(d, k) \in Fields(d) /\ FieldOf(d, k).key = k
  <2>1. \E f \in Fields(d) : f.key = k
    BY DEF KeysOf
  <2> QED BY <2>1 DEF FieldOf
<1>5. ASSUME NEW f \in Fields(d)
      PROVE  f.key \in KeysOf(d) /\ FieldOf(d, f.key) = f
  <2>1. f.key \in KeysOf(d)
    BY DEF KeysOf
  <2> QED BY <1>3, <1>4, <2>1
<1> QED BY <1>2, <1>3, <1>4, <1>5

-----------------------------------------------------------------------------
(***************************************************************************)
(* A body resolves to its overlay.                                         *)
(***************************************************************************)

\* A body, whatever its values and its keys.
IsBody(supplied) ==
  /\ supplied = [k \in DOMAIN supplied |-> supplied[k]]
  /\ \A k \in DOMAIN supplied : supplied[k] \in Values

IsClears(clears) == \A k \in DOMAIN clears : clears[k] \in Nat \ {0}

LEMMA OfferedBodies ==
  /\ \A b \in Bodies : IsBody(b) /\ \A k \in DOMAIN b : Legible(b[k])
  /\ \A c \in Clears : IsClears(c)
BY OffersAssumption DEF IsBody, IsClears

\* The keys to clear are refused unless each is optional, named once and not
\* supplied.
LEMMA ClearingIsChecked ==
  ASSUME NEW d, Sound(d), NEW supplied, NEW clears, IsClears(clears)
  PROVE  ClearIssues(d, supplied, clears) = {} <=> MayClear(d, supplied, clears)
<1>1. \A k \in DOMAIN clears : clears[k] > 1 <=> clears[k] # 1
  BY DEF IsClears
<1>2. ASSUME ClearIssues(d, supplied, clears) = {}, NEW k \in DOMAIN clears
      PROVE  /\ clears[k] = 1
             /\ k \in {f.key : f \in {g \in Fields(d) : ~g.required}}
             /\ k \notin DOMAIN supplied
  <2>1. clears[k] = 1
    BY <1>1, <1>2 DEF ClearIssues
  <2>2. k \in KeysOf(d)
    BY <1>2 DEF ClearIssues
  <2>3. PICK f \in Fields(d) : f.key = k
    BY <2>2 DEF KeysOf
  <2>4. f \in {g \in Fields(d) : g.key \in DOMAIN clears}
    BY <2>3
  <2>5. ~f.required /\ f.key \notin DOMAIN supplied
    BY <1>2, <2>4 DEF ClearIssues
  <2> QED BY <2>1, <2>3, <2>5
<1>3. ASSUME MayClear(d, supplied, clears)
      PROVE  ClearIssues(d, supplied, clears) = {}
  <2>1. \A f \in Fields(d) : f.key \in DOMAIN clears =>
          ~f.required /\ f.key \notin DOMAIN supplied
    BY <1>3, FieldsByKey DEF MayClear
  <2>2. \A k \in DOMAIN clears : clears[k] = 1 /\ k \in KeysOf(d)
    BY <1>3 DEF MayClear, KeysOf
  <2>3. \A k \in DOMAIN clears : ~(clears[k] > 1)
    BY <1>1, <2>2
  <2> QED BY <2>1, <2>2, <2>3 DEF ClearIssues
<1> QED BY <1>2, <1>3 DEF MayClear

LEMMA NoIssueOrValid ==
  ASSUME NEW f, SoundField(f), NEW supplied, IsBody(supplied)
  PROVE  IssueOf(f, supplied) = None <=>
           IF f.key \in DOMAIN supplied THEN Fits(f, canonicalNumber(supplied[f.key]))
           ELSE ~(f.required /\ f.default = None)
<1>1. f.type \in Types /\ None # "REQUIRED"
  BY ValuesAssumption DEF SoundField, Codes
<1>2. CASE f.key \in DOMAIN supplied
  BY <1>1, <1>2, ValidIsFitting DEF IssueOf, IsBody
<1>3. CASE f.key \notin DOMAIN supplied
  BY <1>1, <1>3 DEF IssueOf
<1> QED BY <1>2, <1>3

\* What resolveValues is about.
Asked(d, cleared) == {f \in Fields(d) : f.key \notin cleared}
IssuesOf(d, supplied, cleared) ==
  {Issue(f.key, IssueOf(f, supplied)) :
     f \in {g \in Asked(d, cleared) : IssueOf(g, supplied) # None}}
    \cup {Issue(k, "UNKNOWN_FIELD") : k \in DOMAIN supplied \ KeysOf(d)}
Filled(d, supplied, cleared) ==
  [k \in {f.key : f \in {g \in Asked(d, cleared) : Given(g, supplied) # None}} |->
     canonicalNumber(Given(FieldOf(d, k), supplied))]

LEMMA ResolveValuesIs ==
  ASSUME NEW d, NEW supplied, NEW cleared
  PROVE  resolveValues(d, supplied, cleared) =
           IF IssuesOf(d, supplied, cleared) # {}
           THEN Refused(IssuesOf(d, supplied, cleared))
           ELSE Resolved(Filled(d, supplied, cleared))
BY DEF resolveValues, IssuesOf, Filled, Asked

LEMMA NoIssuesIs ==
  ASSUME NEW d, NEW supplied, NEW cleared
  PROVE  IssuesOf(d, supplied, cleared) = {} <=>
           /\ \A f \in Asked(d, cleared) : IssueOf(f, supplied) = None
           /\ DOMAIN supplied \subseteq KeysOf(d)
BY DEF IssuesOf

\* With no issue, every field that is asked for gets its value of the overlay.
LEMMA FilledIsOverlay ==
  ASSUME NEW d, Sound(d), NEW supplied, IsBody(supplied), NEW clears,
         MayClear(d, supplied, clears), DOMAIN supplied \subseteq KeysOf(d)
  PROVE  Filled(d, supplied, DOMAIN clears) = Overlay(d, supplied, clears)
<1> DEFINE keys == {f.key : f \in {g \in Asked(d, DOMAIN clears) :
                                     Given(g, supplied) # None}}
           defaults == {f.key : f \in {g \in Fields(d) : g.default # None}}
                         \ DOMAIN clears
<1>1. ASSUME NEW k
      PROVE  k \in keys <=> k \in defaults \cup DOMAIN supplied
  <2>1. ASSUME k \in keys PROVE k \in defaults \cup DOMAIN supplied
    <3>1. PICK f \in Fields(d) : /\ f.key = k /\ k \notin DOMAIN clears
                                 /\ Given(f, supplied) # None
      BY <2>1 DEF Asked
    <3> QED BY <3>1 DEF Given
  <2>2. ASSUME k \in defaults PROVE k \in keys
    <3>1. PICK f \in Fields(d) : /\ f.key = k /\ k \notin DOMAIN clears
                                 /\ f.default # None
      BY <2>2
    <3>2. Given(f, supplied) # None
      BY <3>1, ValuesAssumption DEF Given, IsBody
    <3> QED BY <3>1, <3>2 DEF Asked
  <2>3. ASSUME k \in DOMAIN supplied PROVE k \in keys
    <3>1. PICK f \in Fields(d) : f.key = k
      BY <2>3 DEF KeysOf
    <3>2. k \notin DOMAIN clears
      BY <2>3 DEF MayClear
    <3>3. Given(f, supplied) # None
      BY <2>3, <3>1, ValuesAssumption DEF Given, IsBody
    <3> QED BY <3>1, <3>2, <3>3 DEF Asked
  <2> QED BY <2>1, <2>2, <2>3
<1>2. keys = defaults \cup DOMAIN supplied
  BY <1>1
<1>3. ASSUME NEW k \in keys
      PROVE  Given(FieldOf(d, k), supplied) =
               IF k \in DOMAIN supplied THEN supplied[k] ELSE FieldOf(d, k).default
  <2>1. k \in KeysOf(d)
    BY DEF KeysOf, Asked
  <2> QED BY <2>1, FieldsByKey DEF Given
<1>4. Filled(d, supplied, DOMAIN clears) =
        [k \in keys |-> canonicalNumber(Given(FieldOf(d, k), supplied))]
  BY DEF Filled
<1>5. Overlay(d, supplied, clears) =
        [k \in defaults \cup DOMAIN supplied |->
           canonicalNumber(IF k \in DOMAIN supplied THEN supplied[k]
                           ELSE FieldOf(d, k).default)]
  BY DEF Overlay
<1> HIDE DEF keys, defaults
<1> QED BY <1>2, <1>3, <1>4, <1>5

\* There is no issue when the overlay is a contract the definition allows.
LEMMA ConformingIsAccepted ==
  ASSUME NEW d, Sound(d), NEW supplied, IsBody(supplied), NEW clears,
         MayClear(d, supplied, clears)
  PROVE  IssuesOf(d, supplied, DOMAIN clears) = {} <=>
           Conforms(d, Overlay(d, supplied, clears))
<1> DEFINE overlay == Overlay(d, supplied, clears)
           cleared == DOMAIN clears
<1>1. \A f \in Fields(d) : f.key \in cleared =>
        ~f.required /\ f.key \notin DOMAIN supplied
  BY FieldsByKey DEF MayClear
<1>2. /\ DOMAIN supplied \subseteq DOMAIN overlay
      /\ \A k \in DOMAIN supplied : overlay[k] = canonicalNumber(supplied[k])
      /\ DOMAIN overlay \subseteq KeysOf(d) \cup DOMAIN supplied
  BY DEF Overlay, KeysOf
<1>3. ASSUME NEW f \in Fields(d), f.key \notin DOMAIN supplied
      PROVE  /\ f.key \in DOMAIN overlay <=> f.default # None /\ f.key \notin cleared
             /\ f.key \in DOMAIN overlay => overlay[f.key] = canonicalNumber(f.default)
  <2>1. f.key \in {g.key : g \in {h \in Fields(d) : h.default # None}} <=>
          f.default # None
    BY FieldsByKey
  <2>2. FieldOf(d, f.key) = f
    BY FieldsByKey
  <2> QED BY <1>3, <2>1, <2>2 DEF Overlay
<1> HIDE DEF overlay, cleared
<1>4. ASSUME NEW f \in Fields(d)
      PROVE  (f \in Asked(d, cleared) => IssueOf(f, supplied) = None) <=>
               IF f.key \in DOMAIN overlay THEN Fits(f, overlay[f.key]) ELSE ~f.required
  <2>0. SoundField(f)
    BY FieldsByKey
  <2>1. CASE f.key \in cleared
    <3>1. f.key \notin DOMAIN overlay
      BY <1>1, <1>3, <2>1
    <3> QED BY <1>1, <2>1, <3>1 DEF Asked
  <2>2. CASE f.key \in DOMAIN supplied
    <3>1. f \in Asked(d, cleared)
      BY <1>1, <2>2 DEF Asked
    <3> QED BY <1>2, <2>0, <2>2, <3>1, NoIssueOrValid
  <2>3. CASE f.key \notin cleared /\ f.key \notin DOMAIN supplied /\ f.default # None
    <3>1. f \in Asked(d, cleared) /\ f.key \in DOMAIN overlay
      BY <1>3, <2>3 DEF Asked
    <3>2. Fits(f, overlay[f.key])
      BY <1>3, <2>0, <2>3, <3>1 DEF SoundField
    <3> QED BY <2>0, <2>3, <3>1, <3>2, NoIssueOrValid
  <2>4. CASE f.key \notin cleared /\ f.key \notin DOMAIN supplied /\ f.default = None
    <3>1. f \in Asked(d, cleared) /\ f.key \notin DOMAIN overlay
      BY <1>3, <2>4 DEF Asked
    <3> QED BY <2>0, <2>4, <3>1, NoIssueOrValid
  <2> QED BY <2>1, <2>2, <2>3, <2>4
<1>5. DOMAIN supplied \subseteq KeysOf(d) <=> DOMAIN overlay \subseteq KeysOf(d)
  BY <1>2
<1>6. IssuesOf(d, supplied, cleared) = {} <=>
        /\ \A f \in Fields(d) : f \in Asked(d, cleared) => IssueOf(f, supplied) = None
        /\ DOMAIN supplied \subseteq KeysOf(d)
  BY NoIssuesIs DEF Asked
<1>7. Conforms(d, overlay) <=>
        /\ \A f \in Fields(d) :
             IF f.key \in DOMAIN overlay THEN Fits(f, overlay[f.key]) ELSE ~f.required
        /\ DOMAIN overlay \subseteq KeysOf(d)
  BY DEF Conforms
<1> QED BY <1>4, <1>5, <1>6, <1>7 DEF overlay, cleared

\* resolveDraftEditValues, for every sound definition and every body.
LEMMA ResolvedIsOverlay ==
  ASSUME NEW d, Sound(d), NEW supplied, IsBody(supplied), NEW clears, IsClears(clears)
  PROVE  LET overlay == Overlay(d, supplied, clears)
             result == resolveDraftEditValues(d, supplied, clears)
         IN IF MayClear(d, supplied, clears) /\ Conforms(d, overlay)
            THEN result = Resolved(overlay)
            ELSE result.is = "issues"
<1> DEFINE overlay == Overlay(d, supplied, clears)
           result == resolveDraftEditValues(d, supplied, clears)
<1>1. \A issues : Refused(issues).is = "issues"
  BY DEF Refused
<1>2. CASE ~MayClear(d, supplied, clears)
  <2>1. ClearIssues(d, supplied, clears) # {}
    BY <1>2, ClearingIsChecked
  <2>2. result = Refused(ClearIssues(d, supplied, clears))
    BY <2>1 DEF resolveDraftEditValues
  <2> QED BY <1>1, <1>2, <2>2
<1>3. CASE MayClear(d, supplied, clears)
  <2>1. ClearIssues(d, supplied, clears) = {}
    BY <1>3, ClearingIsChecked
  <2>2. result = resolveValues(d, supplied, DOMAIN clears)
    BY <2>1 DEF resolveDraftEditValues
  <2>3. IssuesOf(d, supplied, DOMAIN clears) = {} <=> Conforms(d, overlay)
    BY <1>3, ConformingIsAccepted
  <2>4. CASE Conforms(d, overlay)
    <3>1. DOMAIN supplied \subseteq KeysOf(d)
      BY <2>3, <2>4, NoIssuesIs
    <3>2. Filled(d, supplied, DOMAIN clears) = overlay
      BY <1>3, <3>1, FilledIsOverlay
    <3> QED BY <1>3, <2>2, <2>3, <2>4, <3>2, ResolveValuesIs
  <2>5. CASE ~Conforms(d, overlay)
    BY <1>1, <2>2, <2>3, <2>5, ResolveValuesIs
  <2> QED BY <2>4, <2>5
<1> QED BY <1>2, <1>3

\* Every body that is offered resolves to its overlay or is refused.
LEMMA EveryBodyIsOverlaid == EveryBodyOverlaid
BY AcceptedIsSound, OfferedBodies, ResolvedIsOverlay DEF EveryBodyOverlaid

-----------------------------------------------------------------------------
(***************************************************************************)
(* A form that is sent untouched.                                          *)
(***************************************************************************)

\* Values a contract may have: what is stored, and what the definition allows.
IsStored(d, values) ==
  /\ IsBody(values)
  /\ \A k \in DOMAIN values :
       Legible(values[k]) /\ canonicalNumber(values[k]) = values[k]
  /\ Conforms(d, values)

LEMMA StoredIsSome ==
  ASSUME NEW d, Sound(d), NEW values, IsStored(d, values)
  PROVE  values # None
<1>1. ASSUME NEW k \in KeysOf(d)
      PROVE  k \in LegalKeys
  <2>1. PICK f \in Fields(d) : f.key = k
    BY DEF KeysOf
  <2>2. SoundField(f)
    BY FieldsByKey
  <2> QED BY <2>1, <2>2 DEF SoundField
<1>2. DOMAIN values \in SUBSET LegalKeys
  BY <1>1 DEF IsStored, Conforms
<1>3. values \in [DOMAIN values -> Values]
  BY DEF IsStored, IsBody
<1>4. \A keys \in SUBSET LegalKeys : None \notin [keys -> Values]
  BY ValuesAssumption
<1> QED BY <1>2, <1>3, <1>4

\* The form a contract is edited in has an input for each field; the ones with a
\* value are those that are included.
LEMMA PersistedForm ==
  ASSUME NEW d, Sound(d), NEW values, IsStored(d, values),
         NEW f \in Fields(d)
  PROVE  LET input == createContractValueForm(d, values)[f.key] IN
         /\ input.included <=> f.key \in DOMAIN values
         /\ f.key \in DOMAIN values => input.value = values[f.key].v
<1>1. createContractValueForm(d, values)[f.key] = PersistedInput(f, values)
  BY FieldsByKey, StoredIsSome DEF createContractValueForm
<1>2. f.key \notin DOMAIN values => ~f.required
  BY DEF IsStored, Conforms
<1>3. f.key \in DOMAIN values => AsInput(values[f.key]) = values[f.key].v
  BY DEF IsStored, AsInput
<1>4. PersistedInput(f, values).included = (f.required \/ f.key \in DOMAIN values)
  BY DEF PersistedInput
<1>5. PersistedInput(f, values).included <=> f.key \in DOMAIN values
  BY <1>2, <1>4
<1>6. f.key \in DOMAIN values => PersistedInput(f, values).value = values[f.key].v
  BY <1>3 DEF PersistedInput
<1> QED BY <1>1, <1>5, <1>6

\* A value that fits its field survives the way into an input and back.
LEMMA FittingIsSent ==
  ASSUME NEW f, SoundField(f), NEW value \in Values, Fits(f, value), Legible(value),
         canonicalNumber(value) = value,
         NEW input, input.included, input.value = value.v
  PROVE  Sent(f, input) /\ Transported(f, input) = value
<1>1. f.type \in Types
  BY DEF SoundField
<1>2. value = [js |-> value.js, v |-> value.v]
  BY ValueForms
<1>3. CASE f.type = "number"
  <2>1. value.js = "number" /\ Finite(value) /\ value = Number(value.v)
    BY <1>2, <1>3 DEF Fits, Finite, Number
  <2>2. value.v # "" /\ NumberOf[value.v] = value.v
    BY <2>1 DEF Legible
  <2>3. Transported(f, input) = LET n == Number(NumberOf[input.value]) IN
                                IF Finite(n) THEN canonicalNumber(n) ELSE Null
    BY <1>3 DEF Transported
  <2> QED BY <2>1, <2>2, <2>3 DEF Sent
<1>4. CASE f.type = "boolean"
  <2>1. value.js = "boolean" /\ value.v \in {"true", "false"}
    BY <1>4, ValueForms DEF Fits
  <2>2. Transported(f, input) = Boolean(IF input.value = "true" THEN "true" ELSE "false")
    BY <1>4 DEF Transported
  <2>3. Transported(f, input) = value
    BY <1>2, <2>1, <2>2 DEF Boolean
  <2> QED BY <2>1, <2>3 DEF Sent
<1>5. CASE f.type \in {"text", "date", "enum"}
  <2>1. value.js = "string"
    BY <1>5 DEF Fits
  <2>2. Transported(f, input) = Text(input.value)
    BY <1>5 DEF Transported
  <2>3. Transported(f, input) = value
    BY <1>2, <2>1, <2>2 DEF Text
  <2>4. f.type = "date" => value.v # ""
    BY ValuesAssumption DEF Fits
  <2>5. f.type = "enum" => value.v # ""
    BY DEF Fits, SoundField
  <2> QED BY <1>5, <2>3, <2>4, <2>5 DEF Sent
<1> QED BY <1>1, <1>3, <1>4, <1>5 DEF Types

\* What the form of a contract sends: the values it has, and the keys it has not.
LEMMA UntouchedIsSent ==
  ASSUME NEW d, Sound(d), NEW values, IsStored(d, values)
  PROVE  LET sent == serializeContractValueForm(d, createContractValueForm(d, values)) IN
         /\ sent.values = values
         /\ sent.excludedOptionalKeys = KeysOf(d) \ DOMAIN values
         /\ \A f \in Fields(d) : f.key \notin DOMAIN values => ~f.required
<1> DEFINE filled == createContractValueForm(d, values)
           sentFields == {f \in Fields(d) : Sent(f, filled[f.key])}
           keys == {f.key : f \in sentFields}
           excluded == {f.key : f \in {g \in Fields(d) \ sentFields : ~g.required}}
           result == serializeContractValueForm(d, filled)
<1>1. /\ result.values = [k \in keys |-> Transported(FieldOf(d, k), filled[k])]
      /\ result.excludedOptionalKeys = excluded
  BY DEF serializeContractValueForm
<1>2. /\ DOMAIN values \subseteq KeysOf(d)
      /\ \A f \in Fields(d) :
           IF f.key \in DOMAIN values THEN Fits(f, values[f.key]) ELSE ~f.required
  BY DEF IsStored, Conforms
<1>3. ASSUME NEW f \in Fields(d)
      PROVE  /\ Sent(f, filled[f.key]) <=> f.key \in DOMAIN values
             /\ f.key \in DOMAIN values => Transported(f, filled[f.key]) = values[f.key]
  <2> HIDE DEF filled
  <2>1. /\ filled[f.key].included <=> f.key \in DOMAIN values
        /\ f.key \in DOMAIN values => filled[f.key].value = values[f.key].v
    BY PersistedForm DEF filled
  <2>2. CASE f.key \in DOMAIN values
    <3>1. /\ values[f.key] \in Values /\ Legible(values[f.key])
          /\ canonicalNumber(values[f.key]) = values[f.key]
      BY <2>2 DEF IsStored, IsBody
    <3>2. SoundField(f) /\ Fits(f, values[f.key])
      BY <1>2, <2>2, FieldsByKey
    <3> QED BY <2>1, <2>2, <3>1, <3>2, FittingIsSent
  <2>3. CASE f.key \notin DOMAIN values
    BY <2>1, <2>3 DEF Sent
  <2> QED BY <2>2, <2>3
<1> HIDE DEF filled
<1>4. \A f \in Fields(d) : f \in sentFields <=> f.key \in DOMAIN values
  BY <1>3
<1>5. keys = DOMAIN values
  <2>1. \A k \in DOMAIN values : \E f \in Fields(d) : f.key = k
    BY <1>2 DEF KeysOf
  <2> QED BY <1>4, <2>1
<1>6. \A k \in keys : Transported(FieldOf(d, k), filled[k]) = values[k]
  <2>1. \A k \in keys : FieldOf(d, k) \in Fields(d) /\ FieldOf(d, k).key = k
    BY <1>2, <1>5, FieldsByKey
  <2> QED BY <1>3, <1>5, <2>1
<1>7. excluded = KeysOf(d) \ DOMAIN values
  <2>1. ASSUME NEW k \in excluded PROVE k \in KeysOf(d) \ DOMAIN values
    BY <1>4 DEF KeysOf
  <2>2. ASSUME NEW k \in KeysOf(d) \ DOMAIN values PROVE k \in excluded
    <3>1. PICK f \in Fields(d) : f.key = k
      BY DEF KeysOf
    <3>2. f \notin sentFields /\ ~f.required
      BY <1>2, <1>4, <3>1
    <3> QED BY <3>1, <3>2
  <2> HIDE DEF excluded
  <2> QED BY <2>1, <2>2
<1> HIDE DEF keys, excluded, result, sentFields
<1>8. values = [k \in DOMAIN values |-> values[k]]
  BY DEF IsStored, IsBody
<1>9. result.values = values
  BY <1>1, <1>5, <1>6, <1>8
<1> QED BY <1>1, <1>2, <1>7, <1>9 DEF result, filled

\* The edit it asks for leaves the contract as it is.
LEMMA UntouchedEditIsKept ==
  ASSUME NEW d, Sound(d), NEW values, IsStored(d, values)
  PROVE  UntouchedEdit(d, values) = Resolved(values)
<1> DEFINE sent == serializeContractValueForm(d, createContractValueForm(d, values))
           clears == [k \in sent.excludedOptionalKeys |-> 1]
<1>1. /\ sent.values = values
      /\ sent.excludedOptionalKeys = KeysOf(d) \ DOMAIN values
      /\ \A f \in Fields(d) : f.key \notin DOMAIN values => ~f.required
  BY UntouchedIsSent
<1>2. UntouchedEdit(d, values) = resolveDraftEditValues(d, sent.values, clears)
  BY DEF UntouchedEdit
<1> HIDE DEF sent
<1>3. /\ DOMAIN clears = KeysOf(d) \ DOMAIN values
      /\ \A k \in DOMAIN clears : clears[k] = 1
  BY <1>1
<1> HIDE DEF clears
<1>4. IsClears(clears) /\ IsBody(values)
  BY <1>3 DEF IsClears, IsStored
<1>5. MayClear(d, values, clears)
  <2> SUFFICES ASSUME NEW k \in DOMAIN clears
               PROVE  k \in {f.key : f \in {g \in Fields(d) : ~g.required}}
    BY <1>3 DEF MayClear
  <2>1. PICK f \in Fields(d) : f.key = k
    BY <1>3 DEF KeysOf
  <2> QED BY <1>1, <1>3, <2>1
<1>6. Overlay(d, values, clears) = values
  <2> DEFINE defaults == {f.key : f \in {g \in Fields(d) : g.default # None}}
                           \ DOMAIN clears
  <2>1. defaults \subseteq DOMAIN values
    BY <1>3 DEF KeysOf
  <2>2. Overlay(d, values, clears) =
          [k \in defaults \cup DOMAIN values |->
             canonicalNumber(IF k \in DOMAIN values THEN values[k]
                             ELSE FieldOf(d, k).default)]
    BY DEF Overlay
  <2> HIDE DEF defaults
  <2>3. defaults \cup DOMAIN values = DOMAIN values
    BY <2>1
  <2> QED BY <2>2, <2>3 DEF IsStored, IsBody
<1>7. Conforms(d, Overlay(d, values, clears))
  BY <1>6 DEF IsStored
<1> QED BY <1>1, <1>2, <1>4, <1>5, <1>6, <1>7, ResolvedIsOverlay

\* What a body resolves to is a contract.
LEMMA OverlayIsStored ==
  ASSUME NEW d, Sound(d), NEW supplied, IsBody(supplied),
         \A k \in DOMAIN supplied : Legible(supplied[k]),
         NEW clears, Conforms(d, Overlay(d, supplied, clears))
  PROVE  IsStored(d, Overlay(d, supplied, clears))
<1> DEFINE overlay == Overlay(d, supplied, clears)
<1>1. overlay = [k \in DOMAIN overlay |-> overlay[k]]
  BY DEF Overlay
<1>2. ASSUME NEW k \in DOMAIN overlay
      PROVE  \E value \in Values : Legible(value) /\ overlay[k] = canonicalNumber(value)
  <2>1. CASE k \in DOMAIN supplied
    BY <1>2, <2>1 DEF Overlay, IsBody
  <2>2. CASE k \notin DOMAIN supplied
    <3>1. PICK f \in Fields(d) : f.key = k /\ f.default # None
      BY <1>2, <2>2 DEF Overlay
    <3>2. FieldOf(d, k) = f /\ SoundField(f)
      BY <3>1, FieldsByKey
    <3>3. overlay[k] = canonicalNumber(f.default)
      BY <1>2, <2>2, <3>2 DEF Overlay
    <3> QED BY <3>1, <3>2, <3>3 DEF SoundField
  <2> QED BY <2>1, <2>2
<1> HIDE DEF overlay
<1> QED BY <1>1, <1>2, CanonicalNumbers DEF IsStored, IsBody, overlay

\* Whatever a contract holds, its form changes nothing when it is sent untouched.
LEMMA EveryFormIsKept == EveryFormKept
<1> SUFFICES ASSUME NEW d \in Accepted, NEW supplied \in Bodies, NEW clears \in Clears,
                    resolveDraftEditValues(d, supplied, clears).is = "values"
             PROVE  LET saved == resolveDraftEditValues(d, supplied, clears)
                        again == UntouchedEdit(d, saved.values)
                    IN again.is = "values" /\ contractValuesEqual(again.values, saved.values)
  BY DEF EveryFormKept
<1> DEFINE overlay == Overlay(d, supplied, clears)
<1>1. Sound(d) /\ IsBody(supplied) /\ IsClears(clears)
      /\ \A k \in DOMAIN supplied : Legible(supplied[k])
  BY AcceptedIsSound, OfferedBodies
<1>2. resolveDraftEditValues(d, supplied, clears).is # "issues"
  OBVIOUS
<1>3. /\ Conforms(d, overlay)
      /\ resolveDraftEditValues(d, supplied, clears) = Resolved(overlay)
  BY <1>1, <1>2, ResolvedIsOverlay
<1>4. IsStored(d, overlay)
  BY <1>1, <1>3, OverlayIsStored
<1> HIDE DEF overlay
<1>5. UntouchedEdit(d, overlay) = Resolved(overlay)
  BY <1>1, <1>4, UntouchedEditIsKept
<1> QED BY <1>3, <1>5 DEF Resolved, contractValuesEqual

-----------------------------------------------------------------------------
(***************************************************************************)
(* Definitions that are equal.                                             *)
(***************************************************************************)

\* A field without the order of its options.
SemanticField(f) ==
  [f EXCEPT !.options = IF @ = None THEN None ELSE Range(@)]

\* Fields that differ in the order of their options only.
Alike(f, g) ==
  /\ [f EXCEPT !.options = None] = [g EXCEPT !.options = None]
  /\ f.type = "enum" => Range(f.options) = Range(g.options)

LEMMA WithOptions ==
  ASSUME NEW f \in Drafted, NEW options
  PROVE  [f EXCEPT !.options = options] =
           [key |-> f.key, label |-> f.label, type |-> f.type,
            required |-> f.required, options |-> options, default |-> f.default]
<1> DEFINE O == Seq(STRING) \cup {None}
           V == Values \cup {None}
<1>1. f \in [key : STRING, label : STRING, type : STRING, required : BOOLEAN,
             options : O, default : V]
  BY DEF Drafted
<1> HIDE DEF O, V
<1> QED BY <1>1

LEMMA AlikeFields ==
  ASSUME NEW f, SoundField(f), NEW g, SoundField(g)
  PROVE  Alike(f, g) <=>
           /\ f.key = g.key /\ f.label = g.label /\ f.type = g.type
           /\ f.required = g.required /\ f.default = g.default
           /\ f.type = "enum" => Range(f.options) = Range(g.options)
<1> DEFINE F == [f EXCEPT !.options = None]
           G == [g EXCEPT !.options = None]
<1>1. /\ F = [key |-> f.key, label |-> f.label, type |-> f.type,
              required |-> f.required, options |-> None, default |-> f.default]
      /\ G = [key |-> g.key, label |-> g.label, type |-> g.type,
              required |-> g.required, options |-> None, default |-> g.default]
  BY WithOptions DEF SoundField
<1>2. F = G <=> /\ f.key = g.key /\ f.label = g.label /\ f.type = g.type
                /\ f.required = g.required /\ f.default = g.default
  BY <1>1
<1> QED BY <1>2 DEF Alike

LEMMA SemanticIsAlike ==
  ASSUME NEW f, SoundField(f), NEW g, SoundField(g)
  PROVE  SemanticField(f) = SemanticField(g) <=> Alike(f, g)
<1> DEFINE F == SemanticField(f)
           G == SemanticField(g)
           options(h) == IF h.options = None THEN None ELSE Range(h.options)
<1>1. /\ F = [key |-> f.key, label |-> f.label, type |-> f.type,
              required |-> f.required, options |-> options(f), default |-> f.default]
      /\ G = [key |-> g.key, label |-> g.label, type |-> g.type,
              required |-> g.required, options |-> options(g), default |-> g.default]
  BY WithOptions DEF SemanticField, SoundField
<1>2. F = G <=> /\ f.key = g.key /\ f.label = g.label /\ f.type = g.type
                /\ f.required = g.required /\ f.default = g.default
                /\ options(f) = options(g)
  <2> HIDE DEF options
  <2> QED BY <1>1
<1>3. f.type = g.type =>
        (options(f) = options(g) <=> (f.type = "enum" => Range(f.options) = Range(g.options)))
  BY DEF SoundField
<1> QED BY <1>2, <1>3, AlikeFields

LEMMA SemanticFields ==
  ASSUME NEW d
  PROVE  Semantic(d) = {SemanticField(f) : f \in Fields(d)}
BY DEF Semantic, SemanticField

\* Each field of the one has a field of the other that is alike.
Matched(a, b) == \A f \in Fields(a) : \E g \in Fields(b) : Alike(f, g)

LEMMA AlikeIsSymmetric ==
  ASSUME NEW f, NEW g, Alike(f, g), SoundField(f), SoundField(g)
  PROVE  Alike(g, f)
BY AlikeFields

LEMMA EqualIsMatched ==
  ASSUME NEW a, Sound(a), NEW b, Sound(b)
  PROVE  templateDefinitionsEqual(a, b) <=> Matched(a, b) /\ Matched(b, a)
<1>1. ASSUME templateDefinitionsEqual(a, b)
      PROVE  Matched(a, b) /\ Matched(b, a)
  <2>1. {SemanticField(f) : f \in Fields(a)} = {SemanticField(g) : g \in Fields(b)}
    BY <1>1, SemanticFields DEF templateDefinitionsEqual
  <2>2. \A f \in Fields(a) : \E g \in Fields(b) : SemanticField(f) = SemanticField(g)
    BY <2>1
  <2>3. \A g \in Fields(b) : \E f \in Fields(a) : SemanticField(g) = SemanticField(f)
    BY <2>1
  <2> QED BY <2>2, <2>3, SemanticIsAlike, FieldsByKey DEF Matched
<1>2. ASSUME Matched(a, b), Matched(b, a)
      PROVE  templateDefinitionsEqual(a, b)
  <2>1. \A f \in Fields(a) : \E g \in Fields(b) : SemanticField(f) = SemanticField(g)
    BY <1>2, SemanticIsAlike, FieldsByKey DEF Matched
  <2>2. \A g \in Fields(b) : \E f \in Fields(a) : SemanticField(g) = SemanticField(f)
    BY <1>2, SemanticIsAlike, FieldsByKey DEF Matched
  <2>3. {SemanticField(f) : f \in Fields(a)} = {SemanticField(g) : g \in Fields(b)}
    BY <2>1, <2>2
  <2> QED BY <2>3, SemanticFields DEF templateDefinitionsEqual
<1> QED BY <1>1, <1>2

\* Sequences without repetition that have the same elements are rearranged.
LEMMA SameElements ==
  ASSUME NEW s, IsInjective(s), NEW t, IsInjective(t), Range(s) = Range(t)
  PROVE  \E q \in Bijection(DOMAIN s, DOMAIN t) : \A j \in DOMAIN q : s[j] = t[q[j]]
<1> DEFINE q == [j \in DOMAIN s |-> CHOOSE l \in DOMAIN t : t[l] = s[j]]
<1>1. \A j \in DOMAIN s : \E l \in DOMAIN t : t[l] = s[j]
  BY DEF Range
<1>2. \A j \in DOMAIN s : q[j] \in DOMAIN t /\ t[q[j]] = s[j]
  BY <1>1
<1>3. \A l \in DOMAIN t : \E j \in DOMAIN s : s[j] = t[l]
  BY DEF Range
<1>4. DOMAIN q = DOMAIN s /\ q \in [DOMAIN s -> DOMAIN t]
  BY <1>2
<1> HIDE DEF q
<1>5. \A i, j \in DOMAIN s : q[i] = q[j] => i = j
  BY <1>2 DEF IsInjective
<1>6. \A l \in DOMAIN t : \E j \in DOMAIN s : q[j] = l
  BY <1>2, <1>3 DEF IsInjective
<1>7. q \in Bijection(DOMAIN s, DOMAIN t)
  BY <1>4, <1>5, <1>6 DEF Bijection, Injection, Surjection, IsInjective
<1> QED BY <1>2, <1>4, <1>7

LEMMA RearrangedElements ==
  ASSUME NEW s, NEW t, NEW q \in Bijection(DOMAIN s, DOMAIN t),
         \A j \in DOMAIN q : s[j] = t[q[j]]
  PROVE  Range(s) = Range(t)
<1>1. DOMAIN q = DOMAIN s /\ \A j \in DOMAIN s : q[j] \in DOMAIN t
  BY DEF Bijection, Injection
<1>2. \A l \in DOMAIN t : \E j \in DOMAIN s : q[j] = l
  BY DEF Bijection, Surjection
<1> QED BY <1>1, <1>2 DEF Range

\* Definitions that are equal differ in their order.
LEMMA MatchedIsReordering ==
  ASSUME NEW a, Sound(a), NEW b, Sound(b), Matched(a, b), Matched(b, a)
  PROVE  Reordering(a, b)
<1> DEFINE p == [i \in DOMAIN a |-> CHOOSE j \in DOMAIN b : Alike(a[i], b[j])]
<1>1. \A i \in DOMAIN a : \E j \in DOMAIN b : Alike(a[i], b[j])
  BY DEF Matched, Fields, Range
<1>2. \A i \in DOMAIN a : p[i] \in DOMAIN b /\ Alike(a[i], b[p[i]])
  BY <1>1
<1>3. DOMAIN p = DOMAIN a /\ p \in [DOMAIN a -> DOMAIN b]
  BY <1>2
<1> HIDE DEF p
<1>4. /\ \A i \in DOMAIN a : SoundField(a[i])
      /\ \A j \in DOMAIN b : SoundField(b[j])
  BY DEF Sound
<1>5. \A i \in DOMAIN a : a[i].key = b[p[i]].key /\ a[i].type = b[p[i]].type
  BY <1>2, <1>4, AlikeFields
<1>6. \A i, j \in DOMAIN a : p[i] = p[j] => i = j
  BY <1>5 DEF Sound
<1>7. ASSUME NEW l \in DOMAIN b
      PROVE  \E i \in DOMAIN a : p[i] = l
  <2>1. PICK i \in DOMAIN a : Alike(b[l], a[i])
    BY DEF Matched, Fields, Range
  <2>2. b[l].key = b[p[i]].key
    BY <1>4, <1>5, <2>1, AlikeFields
  <2>3. p[i] \in DOMAIN b
    BY <1>2
  <2> QED BY <2>2, <2>3 DEF Sound
<1>8. p \in Bijection(DOMAIN a, DOMAIN b)
  BY <1>3, <1>6, <1>7 DEF Bijection, Injection, Surjection, IsInjective
<1>9. ASSUME NEW i \in DOMAIN a
      PROVE  /\ [a[i] EXCEPT !.options = None] = [b[p[i]] EXCEPT !.options = None]
             /\ a[i].type = "enum" =>
                  \E q \in Bijection(DOMAIN a[i].options, DOMAIN b[p[i]].options) :
                    \A j \in DOMAIN q : a[i].options[j] = b[p[i]].options[q[j]]
  <2>1. Alike(a[i], b[p[i]]) /\ p[i] \in DOMAIN b
    BY <1>2
  <2>2. a[i].type = "enum" =>
          /\ IsInjective(a[i].options) /\ IsInjective(b[p[i]].options)
          /\ Range(a[i].options) = Range(b[p[i]].options)
    BY <1>4, <1>5, <2>1 DEF Alike, SoundField
  <2>3. [a[i] EXCEPT !.options = None] = [b[p[i]] EXCEPT !.options = None]
    BY <2>1 DEF Alike
  <2> QED BY <2>2, <2>3, SameElements
<1> QED BY <1>8, <1>9 DEF Reordering

LEMMA ReorderingIsMatched ==
  ASSUME NEW a, Sound(a), NEW b, Sound(b), Reordering(a, b)
  PROVE  Matched(a, b) /\ Matched(b, a)
<1>1. PICK p \in Bijection(DOMAIN a, DOMAIN b) :
        \A i \in DOMAIN a :
          /\ [a[i] EXCEPT !.options = None] = [b[p[i]] EXCEPT !.options = None]
          /\ a[i].type = "enum" =>
               \E q \in Bijection(DOMAIN a[i].options, DOMAIN b[p[i]].options) :
                 \A j \in DOMAIN q : a[i].options[j] = b[p[i]].options[q[j]]
  BY DEF Reordering
<1>2. \A i \in DOMAIN a : p[i] \in DOMAIN b
  BY DEF Bijection, Injection
<1>3. \A l \in DOMAIN b : \E i \in DOMAIN a : p[i] = l
  BY DEF Bijection, Surjection
<1>4. ASSUME NEW i \in DOMAIN a
      PROVE  Alike(a[i], b[p[i]])
  <2>1. [a[i] EXCEPT !.options = None] = [b[p[i]] EXCEPT !.options = None]
    BY <1>1
  <2>2. CASE a[i].type = "enum"
    <3>1. PICK q \in Bijection(DOMAIN a[i].options, DOMAIN b[p[i]].options) :
            \A j \in DOMAIN q : a[i].options[j] = b[p[i]].options[q[j]]
      BY <1>1, <2>2
    <3>2. Range(a[i].options) = Range(b[p[i]].options)
      BY <3>1, RearrangedElements
    <3> QED BY <2>1, <3>2 DEF Alike
  <2>3. CASE a[i].type # "enum"
    BY <2>1, <2>3 DEF Alike
  <2> QED BY <2>2, <2>3
<1>5. \A i \in DOMAIN a : Alike(b[p[i]], a[i])
  BY <1>2, <1>4, AlikeIsSymmetric DEF Sound
<1> QED BY <1>2, <1>3, <1>4, <1>5 DEF Matched, Fields, Range

\* Fields that are alike have the same issues and are given the same values.
LEMMA AlikeIsTreatedAlike ==
  ASSUME NEW f, SoundField(f), NEW g, SoundField(g), Alike(f, g), NEW supplied
  PROVE  /\ IssueOf(f, supplied) = IssueOf(g, supplied)
         /\ Given(f, supplied) = Given(g, supplied)
<1>1. /\ f.key = g.key /\ f.type = g.type
      /\ f.required = g.required /\ f.default = g.default
      /\ f.type = "enum" => Range(f.options) = Range(g.options)
      /\ f.type \in Types
  BY AlikeFields DEF SoundField
<1>2. Given(f, supplied) = Given(g, supplied)
  BY <1>1 DEF Given
<1>3. ASSUME NEW value
      PROVE  validateValue(f, value) = validateValue(g, value)
  <2>1. CASE value = Null
    BY <2>1, ValidationOfNull
  <2>2. CASE value # Null
    BY <1>1, <2>2, ValidationOfNumbers, ValidationOfBooleans, ValidationOfTexts,
       ValidationOfDates, ValidationOfChoices DEF Types
  <2> QED BY <2>1, <2>2
<1> QED BY <1>1, <1>2, <1>3 DEF IssueOf

LEMMA MatchedIssues ==
  ASSUME NEW a, Sound(a), NEW b, Sound(b), Matched(a, b), Matched(b, a), NEW supplied
  PROVE  IssuesOf(a, supplied, {}) \subseteq IssuesOf(b, supplied, {})
<1>1. ASSUME NEW f \in Fields(a), IssueOf(f, supplied) # None
      PROVE  Issue(f.key, IssueOf(f, supplied)) \in IssuesOf(b, supplied, {})
  <2>1. PICK g \in Fields(b) : Alike(f, g)
    BY DEF Matched
  <2>2. f.key = g.key /\ IssueOf(f, supplied) = IssueOf(g, supplied)
    BY <2>1, AlikeFields, AlikeIsTreatedAlike, FieldsByKey
  <2> QED BY <1>1, <2>2 DEF IssuesOf, Asked
<1>2. KeysOf(b) \subseteq KeysOf(a)
  <2> SUFFICES ASSUME NEW g \in Fields(b) PROVE g.key \in KeysOf(a)
    BY DEF KeysOf
  <2>1. PICK f \in Fields(a) : Alike(g, f)
    BY DEF Matched
  <2> QED BY <2>1, AlikeFields, FieldsByKey
<1> QED BY <1>1, <1>2 DEF IssuesOf, Asked

LEMMA MatchedKeys ==
  ASSUME NEW a, Sound(a), NEW b, Sound(b), Matched(a, b), NEW supplied
  PROVE  /\ DOMAIN Filled(a, supplied, {}) \subseteq DOMAIN Filled(b, supplied, {})
         /\ \A k \in DOMAIN Filled(a, supplied, {}) :
              Given(FieldOf(a, k), supplied) = Given(FieldOf(b, k), supplied)
<1> SUFFICES ASSUME NEW k \in DOMAIN Filled(a, supplied, {})
             PROVE  /\ k \in DOMAIN Filled(b, supplied, {})
                    /\ Given(FieldOf(a, k), supplied) = Given(FieldOf(b, k), supplied)
  OBVIOUS
<1>1. PICK f \in Fields(a) : f.key = k /\ Given(f, supplied) # None
  BY DEF Filled, Asked
<1>2. PICK g \in Fields(b) : Alike(f, g)
  BY DEF Matched
<1>3. g.key = k /\ Given(f, supplied) = Given(g, supplied)
  BY <1>1, <1>2, AlikeFields, AlikeIsTreatedAlike, FieldsByKey
<1>4. k \in DOMAIN Filled(b, supplied, {})
  BY <1>1, <1>3 DEF Filled, Asked
<1>5. FieldOf(a, k) = f /\ FieldOf(b, k) = g
  BY <1>1, <1>3, FieldsByKey
<1> QED BY <1>3, <1>4, <1>5

\* No body can tell equal definitions apart.
LEMMA MatchedResolveAlike ==
  ASSUME NEW a, Sound(a), NEW b, Sound(b), Matched(a, b), Matched(b, a), NEW supplied
  PROVE  resolveContractValues(a, supplied) = resolveContractValues(b, supplied)
<1>1. IssuesOf(a, supplied, {}) = IssuesOf(b, supplied, {})
  BY MatchedIssues
<1>2. DOMAIN Filled(a, supplied, {}) = DOMAIN Filled(b, supplied, {})
  BY MatchedKeys
<1>3. \A k \in DOMAIN Filled(a, supplied, {}) :
        Given(FieldOf(a, k), supplied) = Given(FieldOf(b, k), supplied)
  BY MatchedKeys
<1>4. Filled(a, supplied, {}) = Filled(b, supplied, {})
  <2> DEFINE F == Filled(a, supplied, {})
             G == Filled(b, supplied, {})
  <2>1. /\ F = [k \in DOMAIN F |-> canonicalNumber(Given(FieldOf(a, k), supplied))]
        /\ G = [k \in DOMAIN G |-> canonicalNumber(Given(FieldOf(b, k), supplied))]
    BY DEF Filled
  <2> HIDE DEF F, G
  <2>2. DOMAIN F = DOMAIN G /\ \A k \in DOMAIN F :
          Given(FieldOf(a, k), supplied) = Given(FieldOf(b, k), supplied)
    BY <1>2, <1>3 DEF F, G
  <2>3. F = G
    BY <2>1, <2>2
  <2> QED BY <2>3 DEF F, G
<1> QED BY <1>1, <1>4, ResolveValuesIs DEF resolveContractValues

\* Published definitions are equal exactly when one is the other in another order,
\* and then every body gets the same answer from both.
LEMMA EqualIsMoved == EqualIsReordered
<1> SUFFICES ASSUME NEW a \in Accepted, NEW b \in Accepted
             PROVE  /\ templateDefinitionsEqual(a, b) <=> Reordering(a, b)
                    /\ templateDefinitionsEqual(a, b) =>
                         \A supplied \in Bodies :
                           resolveContractValues(a, supplied)
                             = resolveContractValues(b, supplied)
  BY DEF EqualIsReordered
<1>1. Sound(a) /\ Sound(b)
  BY AcceptedIsSound
<1>2. templateDefinitionsEqual(a, b) <=> Matched(a, b) /\ Matched(b, a)
  BY <1>1, EqualIsMatched
<1>3. Matched(a, b) /\ Matched(b, a) <=> Reordering(a, b)
  BY <1>1, MatchedIsReordering, ReorderingIsMatched
<1> QED BY <1>1, <1>2, <1>3, MatchedResolveAlike

-----------------------------------------------------------------------------
(***************************************************************************)
(* The register: the order of the contracts and the pages.                 *)
(***************************************************************************)

\* The rows that are there, and what is needed of them.
RowsAreTimed ==
  /\ contracts = [id \in Ids |-> contracts[id]]
  /\ \A id \in Ids : contracts[id] # None => contracts[id].createdAt \in Times

LEMMA BoundaryOfRow ==
  ASSUME RowsAreTimed, NEW id \in Ids, contracts[id] # None
  PROVE  /\ Boundary(id) \in [createdAt : Times, id : Ids]
         /\ Boundary(id) # None
         /\ Boundary(id).createdAt = contracts[id].createdAt
         /\ Boundary(id).id = id
         /\ id \in Nat /\ contracts[id].createdAt \in Nat
BY HomeAssumption, NoneAssumption DEF RowsAreTimed, Boundary

\* Older is a strict order, and total on the rows.
LEMMA OlderIsOrder ==
  ASSUME RowsAreTimed,
         NEW a \in Ids, contracts[a] # None,
         NEW b \in Ids, contracts[b] # None
  PROVE  /\ ~Older(Boundary(a), Boundary(a))
         /\ Older(Boundary(a), Boundary(b)) => ~Older(Boundary(b), Boundary(a))
         /\ a # b => Older(Boundary(a), Boundary(b)) \/ Older(Boundary(b), Boundary(a))
         /\ \A c \in Ids :
              contracts[c] # None /\ Older(Boundary(a), Boundary(b))
                /\ Older(Boundary(b), Boundary(c))
              => Older(Boundary(a), Boundary(c))
BY BoundaryOfRow DEF Older

\* Rows that are sorted, the newest first.
Descending(s) ==
  \A i, j \in DOMAIN s : i < j => Older(Boundary(s[j]), Boundary(s[i]))

LEMMA SomeOrderExists ==
  ASSUME RowsAreTimed, NEW rows \in SUBSET Ids, \A id \in rows : contracts[id] # None
  PROVE  \E s \in [1..Cardinality(rows) -> rows] :
           /\ IsInjective(s)
           /\ \A i, j \in DOMAIN s : i < j => ~Older(Boundary(s[i]), Boundary(s[j]))
<1> DEFINE n == Cardinality(rows)
           newer(x) == {y \in rows : y = x \/ Older(Boundary(x), Boundary(y))}
           rank == [x \in rows |-> Cardinality(newer(x))]
<1>1. IsFiniteSet(rows) /\ n \in Nat
  BY HomeAssumption, FS_Subset, FS_CardinalityType
<1>2. ASSUME NEW x \in rows
      PROVE  /\ IsFiniteSet(newer(x)) /\ Cardinality(newer(x)) \in 1..n
  <2>1. newer(x) \in SUBSET rows /\ x \in newer(x)
    OBVIOUS
  <2> HIDE DEF newer
  <2>2. IsFiniteSet(newer(x)) /\ Cardinality(newer(x)) <= n
    BY <1>1, <2>1, FS_Subset
  <2>3. Cardinality(newer(x)) \in Nat /\ Cardinality(newer(x)) # 0
    BY <2>1, <2>2, FS_CardinalityType, FS_EmptySet
  <2> QED BY <1>1, <2>2, <2>3
\* The older a row, the higher its rank.
<1>3. ASSUME NEW x \in rows, NEW y \in rows, Older(Boundary(x), Boundary(y))
      PROVE  rank[y] < rank[x]
  <2>1. newer(y) \in SUBSET newer(x)
    BY <1>3, OlderIsOrder
  <2>2. x \in newer(x) /\ x \notin newer(y)
    BY <1>3, OlderIsOrder
  <2>3. /\ IsFiniteSet(newer(x)) /\ Cardinality(newer(x)) \in Nat
        /\ Cardinality(newer(y)) \in Nat
    BY <1>2
  <2> HIDE DEF newer
  <2>4. /\ Cardinality(newer(y)) <= Cardinality(newer(x))
        /\ Cardinality(newer(x)) # Cardinality(newer(y))
    BY <2>1, <2>2, <2>3, FS_Subset
  <2> QED BY <2>3, <2>4
<1>4. rank \in [rows -> 1..n]
  BY <1>2
<1>5. \A x \in rows : rank[x] \in Nat
  BY <1>1, <1>4
<1> HIDE DEF rank, newer
<1>6. \A x, y \in rows : rank[x] = rank[y] => x = y
  BY <1>3, <1>5, OlderIsOrder
<1>7. rank \in Injection(rows, 1..n)
  BY <1>4, <1>6 DEF Injection, IsInjective
<1>8. IsFiniteSet(1..n) /\ Cardinality(1..n) = n
  BY <1>1, FS_Interval
<1>9. rank \in Surjection(rows, 1..n)
  BY <1>7, <1>8, FS_Injection
<1> DEFINE s == [i \in 1..n |-> CHOOSE x \in rows : rank[x] = i]
<1>10. \A i \in 1..n : s[i] \in rows /\ rank[s[i]] = i
  BY <1>9 DEF Surjection
<1>11. s \in [1..n -> rows] /\ DOMAIN s = 1..n
  BY <1>10
<1> HIDE DEF s
<1>12. IsInjective(s)
  BY <1>10, <1>11 DEF IsInjective
<1>13. ASSUME NEW i \in 1..n, NEW j \in 1..n, i < j
       PROVE  ~Older(Boundary(s[i]), Boundary(s[j]))
  <2>1. ~(rank[s[j]] < rank[s[i]])
    BY <1>1, <1>10, <1>13
  <2> QED BY <1>3, <1>10, <2>1
<1> QED BY <1>11, <1>12, <1>13

\* findPage's order: every row once, the newest first.
LEMMA NewestFirstSorts ==
  ASSUME RowsAreTimed, NEW rows \in SUBSET Ids, \A id \in rows : contracts[id] # None
  PROVE  /\ Cardinality(rows) \in Nat
         /\ NewestFirst(rows) \in Seq(rows)
         /\ Len(NewestFirst(rows)) = Cardinality(rows)
         /\ Range(NewestFirst(rows)) = rows
         /\ Descending(NewestFirst(rows))
<1> DEFINE n == Cardinality(rows)
           s == NewestFirst(rows)
<1>1. IsFiniteSet(rows) /\ n \in Nat
  BY HomeAssumption, FS_Subset, FS_CardinalityType
<1>2. /\ s \in [1..n -> rows]
      /\ IsInjective(s)
      /\ \A i, j \in DOMAIN s : i < j => ~Older(Boundary(s[i]), Boundary(s[j]))
  BY SomeOrderExists DEF NewestFirst
<1> HIDE DEF s
<1>3. DOMAIN s = 1..n /\ s \in Seq(rows) /\ Len(s) = n
  BY <1>1, <1>2
<1>4. s \in Injection(1..n, rows)
  BY <1>2, <1>3 DEF Injection
<1>5. IsFiniteSet(1..n) /\ Cardinality(1..n) = n
  BY <1>1, FS_Interval
<1>6. s \in Surjection(1..n, rows)
  BY <1>1, <1>4, <1>5, FS_Injection
<1>7. Range(s) = rows
  BY <1>2, <1>3, <1>6 DEF Surjection, Range
<1>8. ASSUME NEW i \in 1..n, NEW j \in 1..n, i < j
      PROVE  Older(Boundary(s[j]), Boundary(s[i]))
  <2>1. i # j
    BY <1>8, <1>1
  <2>2. s[i] # s[j]
    BY <1>2, <1>3, <2>1 DEF IsInjective
  <2>3. ~Older(Boundary(s[i]), Boundary(s[j]))
    BY <1>2, <1>3, <1>8
  <2>4. s[i] \in rows /\ s[j] \in rows
    BY <1>2
  <2> QED BY <2>2, <2>3, <2>4, OlderIsOrder
<1> QED BY <1>1, <1>3, <1>7, <1>8 DEF Descending, s

\* Rows that are shown after a boundary: existing ones of the tenant, in order.
Shown(items, after) ==
  /\ items \in Seq(Ids)
  /\ Descending(items)
  /\ \A i \in DOMAIN items :
       /\ Exists(items[i], Home)
       /\ after # None => Older(Boundary(items[i]), after)

\* The boundary that follows is the one of the last row.
NextIsLast(items, next) ==
  next # None => items # <<>> /\ next = Boundary(items[Len(items)])

\* Each of these rows was shown or comes later.
Accounted(present, items, next) ==
  \A id \in present :
    /\ id \in Ids /\ Exists(id, Home)
    /\ id \in Range(items) \/ (next # None /\ Older(Boundary(id), next))

LEMMA PageIsSound ==
  ASSUME RowsAreTimed, NEW limit \in Nat \ {0}, NEW after
  PROVE  LET page == Page(Home, limit, after) IN
         /\ page.is = "page"
         /\ Shown(page.items, after)
         /\ NextIsLast(page.items, page.next)
         /\ Accounted(Rows(Home, after), page.items, page.next)
<1> DEFINE rows == Rows(Home, after)
           s == NewestFirst(rows)
           n == Len(s)
           m == IF n < limit THEN n ELSE limit
           items == SubSeq(s, 1, m)
           page == Page(Home, limit, after)
<1>1. /\ rows \in SUBSET Ids
      /\ \A id \in rows : contracts[id] # None /\ Exists(id, Home)
      /\ \A id \in rows : after # None => Older(Boundary(id), after)
  BY DEF Rows, Of, Exists
<1>2. page = [is |-> "page", items |-> items,
              next |-> IF n > limit THEN Boundary(Last(items)) ELSE None]
  BY DEF Page
<1> HIDE DEF rows, page
<1>3. s \in Seq(rows) /\ n \in Nat /\ Range(s) = rows /\ Descending(s)
  BY <1>1, NewestFirstSorts
<1> HIDE DEF s
<1>4. m \in Nat /\ m <= n /\ m <= limit
  BY <1>3
<1>5. /\ items \in Seq(rows) /\ Len(items) = m
      /\ DOMAIN items = 1..m
      /\ \A i \in 1..m : items[i] = s[i]
  BY <1>3, <1>4, SubSeqProperties
<1> HIDE DEF items
<1>6. \A i \in 1..m : items[i] \in rows
  BY <1>5
<1>7. items \in Seq(Ids)
  BY <1>1, <1>5, SeqMonotonic
<1>8. DOMAIN s = 1..n
  BY <1>3
<1>9. Descending(items)
  BY <1>3, <1>4, <1>5, <1>8 DEF Descending
<1>10. Shown(items, after)
  BY <1>1, <1>5, <1>6, <1>7, <1>9 DEF Shown
<1>11. CASE n > limit
  <2>1. m = limit /\ m \in 1..n
    BY <1>3, <1>4, <1>11
  <2>2. page.next = Boundary(items[m]) /\ items[m] = s[m]
    BY <1>2, <1>5, <1>11, <2>1 DEF Last
  <2>3. s[m] \in rows /\ Boundary(s[m]) # None
    BY <1>1, <1>5, <1>6, <2>1, BoundaryOfRow
  <2>4. ASSUME NEW id \in rows
        PROVE  id \in Range(items) \/ Older(Boundary(id), Boundary(s[m]))
    <3>1. PICK i \in 1..n : s[i] = id
      BY <1>3, <1>8 DEF Range
    <3>2. CASE i <= m
      <4>1. i \in DOMAIN items /\ items[i] = id
        BY <1>4, <1>5, <3>1, <3>2
      <4> QED BY <4>1 DEF Range
    <3>3. CASE m < i
      BY <1>3, <1>8, <2>1, <3>1, <3>3 DEF Descending
    <3> QED BY <1>4, <3>2, <3>3
  <2>5. Accounted(rows, page.items, page.next)
    BY <1>1, <1>2, <2>2, <2>3, <2>4 DEF Accounted
  <2>6. NextIsLast(page.items, page.next)
    BY <1>2, <1>5, <2>1, <2>2 DEF NextIsLast
  <2> QED BY <1>2, <1>10, <2>5, <2>6 DEF rows, page
<1>12. CASE ~(n > limit)
  <2>1. m = n
    BY <1>3, <1>12
  <2>2. page.next = None
    BY <1>2, <1>12
  <2>3. ASSUME NEW id \in rows
        PROVE  id \in Range(items)
    <3>1. PICK i \in 1..n : s[i] = id
      BY <1>3, <1>8 DEF Range
    <3>2. i \in DOMAIN items /\ items[i] = id
      BY <1>5, <2>1, <3>1
    <3> QED BY <3>2 DEF Range
  <2>4. Accounted(rows, page.items, page.next)
    BY <1>1, <1>2, <2>3 DEF Accounted
  <2> QED BY <1>2, <1>10, <2>2, <2>4 DEF NextIsLast, rows, page
<1> QED BY <1>11, <1>12

-----------------------------------------------------------------------------
(***************************************************************************)
(* The walk.                                                               *)
(***************************************************************************)

\* A request that was answered with a page.
Answering(r) == r.answer # None /\ r.answer.is = "page"

\* At most one request may still show its answer, and it asks for the page the
\* effect last ran for: what its cleanup is for.
RequestsInv ==
  /\ \A r \in requests :
       r = [query |-> r.query, active |-> r.active, answer |-> r.answer,
            present |-> r.present]
  /\ \A r, s \in requests : r.active /\ s.active => r = s
  /\ \A r \in requests : r.active => r.query = asked

\* The page that is shown is the page the effect last ran for.
PageIsAsked == register.status = "ready" => register.query = asked

\* What a page that was served shows: rows of the workspace from its cursor on,
\* newest first, and among the rows that were there when it was served every one
\* between the cursor and the next one.
PageOk(r) ==
  Answering(r) =>
    /\ Shown(r.answer.items, r.query.after)
    /\ NextIsLast(r.answer.items, r.answer.next)
    /\ Accounted(r.present, r.answer.items, r.answer.next)

PagesInv == \A r \in requests : PageOk(r)

\* What was shown since the newest page is one long page: the walk adds the pages
\* up, and a row that was there all along is on it or still to come.
WalkInv ==
  walk # None =>
    /\ Shown(walk.seen, None)
    /\ NextIsLast(walk.seen, walk.next)
    /\ Accounted(walk.present, walk.seen, walk.next)

\* The page that may go on with the walk was read with every row in sight that is
\* still to come.
Covers(r) ==
  r.active /\ Answering(r) /\ walk # None /\ walk.next # None
    /\ walk.next = r.query.after =>
  \A id \in walk.present : Older(Boundary(id), walk.next) => id \in r.present

CoverInv == \A r \in requests : Covers(r)

\* The inductive invariant of the list.  RowsAreTimed is in it because a row that
\* two times fit would be on two pages; CoverInv because the next page is asked
\* for before the walk goes on to it, and rows are inserted in between.
ListInv ==
  /\ RowsAreTimed /\ RequestsInv /\ PageIsAsked
  /\ PagesInv /\ WalkInv /\ CoverInv

\* Rows are only added.
Kept == \A id \in Ids : contracts[id] # None => contracts'[id] = contracts[id]

LEMMA InsertKeeps ==
  ASSUME RowsAreTimed, NEW id \in Ids, NEW tenant, NEW values, Insert(id, tenant, values)
  PROVE  RowsAreTimed' /\ Kept
<1>1. PICK time \in Times :
        contracts' = [contracts EXCEPT ![id] = Row(tenant, time, Len(versions), values)]
  BY DEF Insert
<1> DEFINE row == Row(tenant, time, Len(versions), values)
<1>2. row.createdAt = time
  BY DEF Row
<1> HIDE DEF row
<1>3. contracts' = [contracts EXCEPT ![id] = row]
  BY <1>1 DEF row
<1>4. contracts[id] = None
  BY DEF Insert
<1> QED BY <1>2, <1>3, <1>4 DEF RowsAreTimed, Kept

LEMMA KeptBoundaries ==
  ASSUME RowsAreTimed, Kept, NEW id \in Ids, Exists(id, Home)
  PROVE  Exists(id, Home)' /\ Boundary(id)' = Boundary(id)
BY DEF Kept, Exists, Boundary

LEMMA KeptShown ==
  ASSUME RowsAreTimed, Kept, NEW items, NEW after, Shown(items, after)
  PROVE  Shown(items, after)'
<1>1. /\ items \in Seq(Ids)
      /\ \A i \in DOMAIN items : items[i] \in Ids /\ Exists(items[i], Home)
  BY DEF Shown
<1>2. \A i \in DOMAIN items :
        Exists(items[i], Home)' /\ Boundary(items[i])' = Boundary(items[i])
  BY <1>1, KeptBoundaries
<1>3. \A a, b : Older(a, b) <=> Older(a, b)'
  BY DEF Older
<1>4. Descending(items)'
  BY <1>2 DEF Shown, Descending, Older
<1> QED BY <1>1, <1>2, <1>4 DEF Shown, Older

LEMMA KeptAccounts ==
  ASSUME RowsAreTimed, Kept, NEW present, NEW items, NEW next,
         Shown(items, None), NextIsLast(items, next), Accounted(present, items, next)
  PROVE  NextIsLast(items, next)' /\ Accounted(present, items, next)'
<1>1. NextIsLast(items, next)'
  <2>1. CASE next = None
    BY <2>1 DEF NextIsLast
  <2>2. CASE next # None
    <3>1. items # <<>> /\ items \in Seq(Ids)
      BY <2>2 DEF NextIsLast, Shown
    <3>2. Len(items) \in DOMAIN items
      BY <3>1, EmptySeq
    <3>3. items[Len(items)] \in Ids /\ Exists(items[Len(items)], Home)
      BY <3>1, <3>2 DEF Shown
    <3>4. Boundary(items[Len(items)])' = Boundary(items[Len(items)])
      BY <3>3, KeptBoundaries
    <3> QED BY <2>2, <3>4 DEF NextIsLast
  <2> QED BY <2>1, <2>2
<1>2. Accounted(present, items, next)'
  BY KeptBoundaries DEF Accounted, Older
<1> QED BY <1>1, <1>2

LEMMA ShownAnyway ==
  ASSUME NEW items, NEW after, Shown(items, after)
  PROVE  Shown(items, None)
BY DEF Shown

LEMMA KeptPage ==
  ASSUME RowsAreTimed, Kept, NEW r, PageOk(r)
  PROVE  PageOk(r)'
<1> SUFFICES ASSUME Answering(r)
             PROVE  /\ Shown(r.answer.items, r.query.after)'
                    /\ NextIsLast(r.answer.items, r.answer.next)'
                    /\ Accounted(r.present, r.answer.items, r.answer.next)'
  BY DEF PageOk, Answering
<1>1. /\ Shown(r.answer.items, r.query.after)
      /\ NextIsLast(r.answer.items, r.answer.next)
      /\ Accounted(r.present, r.answer.items, r.answer.next)
  BY DEF PageOk
<1>2. Shown(r.answer.items, r.query.after)'
  BY <1>1, KeptShown
<1>3. Shown(r.answer.items, None)
  BY <1>1, ShownAnyway
<1> QED BY <1>1, <1>2, <1>3, KeptAccounts

LEMMA KeptWalk ==
  ASSUME RowsAreTimed, Kept, WalkInv, UNCHANGED walk
  PROVE  WalkInv'
<1> SUFFICES ASSUME walk # None
             PROVE  /\ Shown(walk.seen, None)'
                    /\ NextIsLast(walk.seen, walk.next)'
                    /\ Accounted(walk.present, walk.seen, walk.next)'
  BY DEF WalkInv
<1>1. /\ Shown(walk.seen, None)
      /\ NextIsLast(walk.seen, walk.next)
      /\ Accounted(walk.present, walk.seen, walk.next)
  BY DEF WalkInv
<1> DEFINE seen == walk.seen
           next == walk.next
           present == walk.present
<1>2. seen' = seen /\ next' = next /\ present' = present
  OBVIOUS
<1>3. \A items, after : Shown(items, after) => Shown(items, after)'
  BY KeptShown
<1>4. \A p, items, n : Shown(items, None) /\ NextIsLast(items, n) /\ Accounted(p, items, n)
        => NextIsLast(items, n)' /\ Accounted(p, items, n)'
  BY KeptAccounts
<1> QED BY <1>1, <1>3, <1>4

LEMMA KeptCover ==
  ASSUME RowsAreTimed, Kept, WalkInv, UNCHANGED walk, NEW r, Covers(r)
  PROVE  Covers(r)'
<1>1. walk # None => \A id \in walk.present : id \in Ids /\ Exists(id, Home)
  BY DEF WalkInv, Accounted
<1>2. walk # None => \A id \in walk.present : Boundary(id)' = Boundary(id)
  BY <1>1, KeptBoundaries
<1> QED BY <1>2 DEF Covers, Answering, Older

\* The register is left alone, and rows are added at most.
LEMMA ListKept ==
  ASSUME ListInv, RowsAreTimed', Kept, UNCHANGED <<asked, register, requests, walk>>
  PROVE  ListInv'
<1>1. UNCHANGED <<asked, register, requests, walk>>
  OBVIOUS
<1>2. RequestsInv' /\ PageIsAsked'
  BY <1>1 DEF ListInv, RequestsInv, PageIsAsked
<1>3. PagesInv'
  BY <1>1, KeptPage DEF ListInv, PagesInv
<1>4. WalkInv'
  BY <1>1, KeptWalk DEF ListInv
<1>5. CoverInv'
  BY <1>1, KeptCover DEF ListInv, CoverInv
<1> QED BY <1>2, <1>3, <1>4, <1>5 DEF ListInv

LEMMA UnchangedKeeps ==
  ASSUME RowsAreTimed, UNCHANGED contracts
  PROVE  RowsAreTimed' /\ Kept
BY DEF RowsAreTimed, Kept

LEMMA RequestRecords ==
  ASSUME NEW r, NEW v,
         r = [query |-> r.query, active |-> r.active, answer |-> r.answer,
              present |-> r.present]
  PROVE  /\ [r EXCEPT !.active = v] =
              [query |-> r.query, active |-> v, answer |-> r.answer,
               present |-> r.present]
         /\ [r EXCEPT !.answer = v] =
              [query |-> r.query, active |-> r.active, answer |-> v,
               present |-> r.present]
         /\ [r EXCEPT !.present = v] =
              [query |-> r.query, active |-> r.active, answer |-> r.answer,
               present |-> v]
<1>1. r \in [query : {r.query}, active : {r.active}, answer : {r.answer},
             present : {r.present}]
  OBVIOUS
<1> QED BY <1>1

LEMMA LimitIsPositive ==
  ASSUME NEW query, LimitOf(query) # None
  PROVE  LimitOf(query) \in Nat \ {0}
<1> DEFINE limit == IF query.limit = None THEN DefaultLimit ELSE query.limit
<1>1. LimitOf(query) = IF limit \in 1..MaxLimit THEN limit ELSE None
  BY DEF LimitOf
<1> HIDE DEF limit
<1> QED BY <1>1, HomeAssumption

\* What the API answers to a request, and the rows in its sight.
LEMMA ServedPage ==
  ASSUME ListInv, NEW r \in requests, ServePage(r)
  PROVE  \E q : /\ requests' = (requests \ {r}) \cup {q}
                /\ q = [query |-> r.query, active |-> r.active,
                        answer |-> q.answer, present |-> q.present]
                /\ PageOk(q)
                /\ Answering(q) => q.present = Rows(Home, r.query.after)
<1>1. PICK a \in {ServerError, [is |-> "unauthorized"],
                  IF LimitOf(r.query) = None THEN [is |-> "invalid"]
                  ELSE Page(Home, LimitOf(r.query), r.query.after)} :
        requests' = (requests \ {r})
          \cup {[r EXCEPT !.answer = a,
                          !.present = IF a.is = "page"
                                      THEN Rows(Home, r.query.after) ELSE {}]}
  BY DEF ServePage
<1> DEFINE present == IF a.is = "page" THEN Rows(Home, r.query.after) ELSE {}
           q == [r EXCEPT !.answer = a, !.present = present]
<1>2. r = [query |-> r.query, active |-> r.active, answer |-> r.answer,
           present |-> r.present]
  BY DEF ListInv, RequestsInv
<1>3. q = [query |-> r.query, active |-> r.active, answer |-> a, present |-> present]
  <2> DEFINE s == [r EXCEPT !.answer = a]
  <2>1. s = [query |-> r.query, active |-> r.active, answer |-> a, present |-> r.present]
    BY <1>2, RequestRecords
  <2>2. q = [s EXCEPT !.present = present]
    OBVIOUS
  <2> HIDE DEF present, s, q
  <2>3. [s EXCEPT !.present = present] =
          [query |-> s.query, active |-> s.active, answer |-> s.answer,
           present |-> present]
    BY <2>1, RequestRecords
  <2> QED BY <2>1, <2>2, <2>3
<1>4. a.is = "page" =>
        /\ Shown(a.items, r.query.after)
        /\ NextIsLast(a.items, a.next)
        /\ Accounted(Rows(Home, r.query.after), a.items, a.next)
  <2>1. CASE a = ServerError \/ a = [is |-> "unauthorized"]
    BY <2>1 DEF ServerError
  <2>2. CASE LimitOf(r.query) = None /\ a = [is |-> "invalid"]
    BY <2>2
  <2>3. CASE LimitOf(r.query) # None /\ a = Page(Home, LimitOf(r.query), r.query.after)
    BY <2>3, LimitIsPositive, PageIsSound DEF ListInv
  <2> QED BY <2>1, <2>2, <2>3
<1>5. requests' = (requests \ {r}) \cup {q}
  BY <1>1
<1> HIDE DEF q
<1>6. q.query = r.query /\ q.answer = a /\ q.present = present /\ q.active = r.active
  BY <1>3
<1>7. PageOk(q)
  BY <1>4, <1>6 DEF PageOk, Answering
<1>8. Answering(q) => q.present = Rows(Home, r.query.after)
  BY <1>6 DEF Answering
<1> QED BY <1>3, <1>5, <1>6, <1>7, <1>8

\* The API reads a page of the rows there are.
LEMMA ServePageKeeps ==
  ASSUME ListInv, NEW r \in requests, ServePage(r)
  PROVE  ListInv'
<1>1. UNCHANGED <<contracts, asked, register, walk>>
  BY DEF ServePage, database
<1>2. PICK q : /\ requests' = (requests \ {r}) \cup {q}
               /\ q = [query |-> r.query, active |-> r.active,
                       answer |-> q.answer, present |-> q.present]
               /\ PageOk(q)
               /\ Answering(q) => q.present = Rows(Home, r.query.after)
  BY ServedPage
<1>3. q.active = r.active /\ q.query = r.query
  BY <1>2
<1>4. q = [query |-> q.query, active |-> q.active, answer |-> q.answer,
           present |-> q.present]
  BY <1>2, <1>3
<1>5. RowsAreTimed' /\ Kept
  BY <1>1, UnchangedKeeps DEF ListInv
<1>6. RequestsInv'
  BY <1>1, <1>2, <1>3, <1>4 DEF ListInv, RequestsInv
<1>7. PageIsAsked'
  BY <1>1 DEF ListInv, PageIsAsked
<1>8. PagesInv'
  BY <1>2, <1>5, KeptPage DEF ListInv, PagesInv
<1>9. WalkInv'
  BY <1>1, <1>5, KeptWalk DEF ListInv
<1>10. Covers(q)
  <2> SUFFICES ASSUME Answering(q), walk # None, walk.next = r.query.after,
                      walk.next # None,
                      NEW id \in walk.present, Older(Boundary(id), walk.next)
               PROVE  id \in q.present
    BY <1>3 DEF Covers
  <2>1. id \in Ids /\ Exists(id, Home)
    BY DEF ListInv, WalkInv, Accounted
  <2>2. id \in Rows(Home, r.query.after)
    BY <2>1 DEF Rows, Of
  <2> QED BY <1>2, <2>2
<1>11. CoverInv'
  BY <1>1, <1>2, <1>5, <1>10, KeptCover DEF ListInv, CoverInv
<1> QED BY <1>5, <1>6, <1>7, <1>8, <1>9, <1>11 DEF ListInv

\* The effect of a new address, or of another try: no request but the new one
\* counts.
LEMMA OpenKeeps ==
  ASSUME ListInv, Open, UNCHANGED <<contracts, walk>>
  PROVE  ListInv'
<1> DEFINE query == address
<1>1. /\ requests' = Superseded \cup {Request(query)} /\ register' = [status |-> "loading"]
      /\ asked' = query
  BY DEF Open
<1> HIDE DEF query
<1>2. \A r \in requests :
        [r EXCEPT !.active = FALSE] =
          [query |-> r.query, active |-> FALSE, answer |-> r.answer,
           present |-> r.present]
  <2> SUFFICES ASSUME NEW r \in requests
               PROVE  [r EXCEPT !.active = FALSE] =
                        [query |-> r.query, active |-> FALSE, answer |-> r.answer,
                         present |-> r.present]
    OBVIOUS
  <2>1. r = [query |-> r.query, active |-> r.active, answer |-> r.answer,
             present |-> r.present]
    BY DEF ListInv, RequestsInv
  <2> QED BY <2>1, RequestRecords
<1>3. \A s \in requests' :
        \/ s = Request(query)
        \/ \E r \in requests :
             s = [query |-> r.query, active |-> FALSE, answer |-> r.answer,
                  present |-> r.present]
  BY <1>1, <1>2 DEF Superseded
<1>4. RowsAreTimed' /\ Kept
  BY UnchangedKeeps DEF ListInv
<1>5. RequestsInv'
  <2>1. \A s \in requests' :
          s = [query |-> s.query, active |-> s.active, answer |-> s.answer,
               present |-> s.present]
    BY <1>3 DEF Request
  <2>2. \A s \in requests' : s.active => s = Request(query)
    BY <1>3
  <2>3. Request(query).query = asked'
    BY <1>1 DEF Request
  <2> QED BY <2>1, <2>2, <2>3 DEF RequestsInv
<1>6. PageIsAsked'
  BY <1>1 DEF PageIsAsked
<1>7. PagesInv'
  <2> SUFFICES ASSUME NEW s \in requests' PROVE PageOk(s)'
    BY DEF PagesInv
  <2>1. CASE s = Request(query)
    BY <2>1 DEF PageOk, Answering, Request
  <2>2. CASE \E r \in requests :
               s = [query |-> r.query, active |-> FALSE, answer |-> r.answer,
                    present |-> r.present]
    <3>1. PICK r \in requests :
            s.query = r.query /\ s.answer = r.answer /\ s.present = r.present
      BY <2>2
    <3>2. PageOk(s)
      BY <3>1 DEF ListInv, PagesInv, PageOk, Answering
    <3> QED BY <1>4, <3>2, KeptPage DEF ListInv
  <2> QED BY <1>3, <2>1, <2>2
<1>8. WalkInv'
  BY <1>4, KeptWalk DEF ListInv
<1>9. CoverInv'
  BY <1>3 DEF CoverInv, Covers, Answering, Request
<1> QED BY <1>4, <1>5, <1>6, <1>7, <1>8, <1>9 DEF ListInv

\* Two stretches of a walk, the second of which is past the end of the first.
LEMMA ShownOn ==
  ASSUME RowsAreTimed,
         NEW seen, Shown(seen, None), seen # <<>>,
         NEW items, Shown(items, Boundary(seen[Len(seen)]))
  PROVE  /\ Shown(seen \o items, None)
         /\ Range(seen \o items) = Range(seen) \cup Range(items)
         /\ items # <<>> => /\ seen \o items # <<>>
                            /\ (seen \o items)[Len(seen \o items)] = items[Len(items)]
<1> DEFINE n == Len(seen)
           m == Len(items)
           both == seen \o items
           last == seen[n]
<1>1. /\ seen \in Seq(Ids) /\ items \in Seq(Ids)
      /\ n \in Nat \ {0} /\ m \in Nat
      /\ DOMAIN seen = 1..n /\ DOMAIN items = 1..m
  BY EmptySeq, LenProperties DEF Shown
<1>2. /\ both \in Seq(Ids) /\ Len(both) = n + m
      /\ \A i \in 1..(n + m) : both[i] = IF i <= n THEN seen[i] ELSE items[i - n]
  BY <1>1, ConcatProperties
<1>3. DOMAIN both = 1..(n + m)
  BY <1>1, <1>2
<1> HIDE DEF both
<1>4. /\ \A i \in 1..n : seen[i] \in Ids /\ Exists(seen[i], Home)
      /\ \A i \in 1..m : items[i] \in Ids /\ Exists(items[i], Home)
  BY <1>1 DEF Shown
<1>5. \A id : Exists(id, Home) => contracts[id] # None
  BY DEF Exists
<1>6. last \in Ids /\ contracts[last] # None /\ Boundary(last) # None
  BY <1>1, <1>4, <1>5, BoundaryOfRow
<1>7. /\ \A i, j \in 1..n : i < j => Older(Boundary(seen[j]), Boundary(seen[i]))
      /\ \A i, j \in 1..m : i < j => Older(Boundary(items[j]), Boundary(items[i]))
      /\ \A i \in 1..m : Older(Boundary(items[i]), Boundary(last))
  BY <1>1, <1>6 DEF Shown, Descending
<1>0. n \in Nat \ {0} /\ m \in Nat
  BY <1>1
<1> HIDE DEF n, m
<1>8. ASSUME NEW i \in 1..n, NEW j \in 1..m
      PROVE  Older(Boundary(items[j]), Boundary(seen[i]))
  <2>1. CASE i = n
    BY <1>7, <2>1
  <2>2. CASE i # n
    <3>0. n \in 1..n /\ i < n
      BY <1>0, <2>2
    <3>1. Older(Boundary(last), Boundary(seen[i]))
      BY <1>7, <3>0
    <3>2. seen[i] \in Ids /\ contracts[seen[i]] # None
      BY <1>4, <1>5
    <3>3. items[j] \in Ids /\ contracts[items[j]] # None
      BY <1>4, <1>5
    <3>4. Older(Boundary(items[j]), Boundary(last))
      BY <1>7
    <3> QED BY <1>6, <3>1, <3>2, <3>3, <3>4, OlderIsOrder
  <2> QED BY <2>1, <2>2
<1>9. Descending(both)
  <2> SUFFICES ASSUME NEW i \in 1..(n + m), NEW j \in 1..(n + m), i < j
               PROVE  Older(Boundary(both[j]), Boundary(both[i]))
    BY <1>3 DEF Descending
  <2>1. CASE j <= n
    <3>1. i \in 1..n /\ j \in 1..n
      BY <1>1, <2>1
    <3> QED BY <1>1, <1>2, <1>7, <2>1, <3>1
  <2>2. CASE i <= n /\ n < j
    <3>1. i \in 1..n /\ (j - n) \in 1..m /\ both[i] = seen[i] /\ both[j] = items[j - n]
      BY <1>1, <1>2, <2>2
    <3> QED BY <1>8, <3>1
  <2>3. CASE n < i
    <3>1. /\ (i - n) \in 1..m /\ (j - n) \in 1..m /\ i - n < j - n
          /\ both[i] = items[i - n] /\ both[j] = items[j - n]
      BY <1>1, <1>2, <2>3
    <3> QED BY <1>7, <3>1
  <2> QED BY <1>1, <2>1, <2>2, <2>3
<1>10. \A i \in 1..(n + m) : Exists(both[i], Home)
  <2> SUFFICES ASSUME NEW i \in 1..(n + m) PROVE Exists(both[i], Home)
    OBVIOUS
  <2>1. CASE i <= n
    <3>1. i \in 1..n /\ both[i] = seen[i]
      BY <1>1, <1>2, <2>1
    <3> QED BY <1>4, <3>1
  <2>2. CASE n < i
    <3>1. (i - n) \in 1..m /\ both[i] = items[i - n]
      BY <1>1, <1>2, <2>2
    <3> QED BY <1>4, <3>1
  <2> QED BY <1>1, <2>1, <2>2
<1>11. Shown(both, None)
  BY <1>2, <1>3, <1>9, <1>10 DEF Shown
<1>12. Range(both) = Range(seen) \cup Range(items)
  <2>1. \A i \in 1..n : i \in 1..(n + m) /\ both[i] = seen[i]
    BY <1>1, <1>2
  <2>2. \A i \in 1..m : (i + n) \in 1..(n + m) /\ both[i + n] = items[i]
    BY <1>1, <1>2
  <2>3. \A i \in 1..(n + m) :
          \/ i \in 1..n /\ both[i] = seen[i]
          \/ (i - n) \in 1..m /\ both[i] = items[i - n]
    BY <1>1, <1>2
  <2> QED BY <1>1, <1>3, <2>1, <2>2, <2>3 DEF Range
<1>13. items # <<>> => both # <<>> /\ both[Len(both)] = items[m]
  <2> SUFFICES ASSUME items # <<>>
               PROVE  both # <<>> /\ both[Len(both)] = items[m]
    OBVIOUS
  <2>1. m \in Nat \ {0}
    BY <1>1, EmptySeq DEF m
  <2>2. Len(both) \in 1..(n + m) /\ ~(Len(both) <= n) /\ Len(both) - n = m
    BY <1>0, <1>2, <2>1
  <2>3. Len(both) # 0
    BY <1>0, <1>2, <2>1
  <2>4. both # <<>>
    BY <2>3, EmptySeq
  <2> QED BY <1>2, <2>2, <2>4
<1> QED BY <1>11, <1>12, <1>13 DEF both, m

\* The page that goes on with the walk loses none of it.
LEMMA WalkedOn ==
  ASSUME ListInv, NEW r \in requests, r.active, Answering(r)
  PROVE  LET on == Walked(r) IN
         /\ Shown(on.seen, None)
         /\ NextIsLast(on.seen, on.next)
         /\ Accounted(on.present, on.seen, on.next)
<1> DEFINE page == r.answer
           follows == IF walk = None THEN FALSE
                      ELSE walk.next # None /\ walk.next = r.query.after
           on == Walked(r)
<1>1. on = [present |-> IF follows THEN walk.present ELSE r.present,
            seen |-> IF follows THEN walk.seen \o page.items ELSE page.items,
            next |-> page.next]
  BY DEF Walked
<1>2. /\ Shown(page.items, r.query.after)
      /\ NextIsLast(page.items, page.next)
      /\ Accounted(r.present, page.items, page.next)
  BY DEF ListInv, PagesInv, PageOk
<1>3. CASE ~follows
  <2>1. on.seen = page.items /\ on.next = page.next /\ on.present = r.present
    BY <1>1, <1>3
  <2> HIDE DEF on
  <2>2. Shown(page.items, None)
    BY <1>2, ShownAnyway
  <2> QED BY <1>2, <2>1, <2>2 DEF on
<1>4. CASE follows
  <2> DEFINE seen == walk.seen
             items == page.items
  <2>1. walk # None /\ walk.next # None /\ walk.next = r.query.after
    BY <1>4
  <2>2. on.seen = seen \o items /\ on.next = page.next /\ on.present = walk.present
    <3> HIDE DEF follows, on
    <3>1. on = [present |-> walk.present, seen |-> walk.seen \o page.items,
                next |-> page.next]
      BY <1>1, <1>4
    <3> QED BY <3>1
  <2> HIDE DEF on, follows
  <2>3. /\ Shown(seen, None)
        /\ NextIsLast(seen, walk.next)
        /\ Accounted(walk.present, seen, walk.next)
    BY <2>1 DEF ListInv, WalkInv
  <2>4. seen # <<>> /\ walk.next = Boundary(seen[Len(seen)])
    BY <2>1, <2>3 DEF NextIsLast
  <2>5. Shown(items, Boundary(seen[Len(seen)]))
    <3>1. r.query.after = Boundary(seen[Len(seen)])
      BY <2>1, <2>4
    <3> HIDE DEF seen, items
    <3>2. Shown(items, r.query.after)
      BY <1>2 DEF items
    <3> QED BY <3>1, <3>2
  <2>6. RowsAreTimed
    BY DEF ListInv
  <2> HIDE DEF seen, items
  <2>7. /\ Shown(seen \o items, None)
        /\ Range(seen \o items) = Range(seen) \cup Range(items)
        /\ items # <<>> => /\ seen \o items # <<>>
                           /\ (seen \o items)[Len(seen \o items)] = items[Len(items)]
    BY <2>3, <2>4, <2>5, <2>6, ShownOn
  <2>8. NextIsLast(on.seen, on.next)
    BY <1>2, <2>2, <2>7 DEF NextIsLast, items
  <2>9. Accounted(on.present, on.seen, on.next)
    <3> SUFFICES ASSUME NEW id \in walk.present
                 PROVE  /\ id \in Ids /\ Exists(id, Home)
                        /\ \/ id \in Range(seen) \cup Range(items)
                           \/ page.next # None /\ Older(Boundary(id), page.next)
      BY <2>2, <2>7 DEF Accounted
    <3>1. /\ id \in Ids /\ Exists(id, Home)
          /\ id \in Range(seen) \/ Older(Boundary(id), walk.next)
      BY <2>3 DEF Accounted
    <3>2. ASSUME Older(Boundary(id), walk.next)
          PROVE  id \in r.present
      BY <2>1, <3>2 DEF ListInv, CoverInv, Covers
    <3>3. id \in r.present =>
            id \in Range(items) \/ (page.next # None /\ Older(Boundary(id), page.next))
      BY <1>2 DEF Accounted, items
    <3> QED BY <3>1, <3>2, <3>3
  <2> QED BY <2>2, <2>7, <2>8, <2>9 DEF on
<1> QED BY <1>3, <1>4

\* The page shows its answer, or drops it.
LEMMA PageAnsweredKeeps ==
  ASSUME ListInv, NEW r \in requests, PageAnswered(r)
  PROVE  ListInv'
<1>1. requests' = requests \ {r} /\ UNCHANGED <<contracts, asked>>
  BY DEF PageAnswered, database
<1>2. RowsAreTimed' /\ Kept
  BY <1>1, UnchangedKeeps DEF ListInv
<1>3. RequestsInv'
  BY <1>1 DEF ListInv, RequestsInv
<1>4. PagesInv'
  BY <1>1, <1>2, KeptPage DEF ListInv, PagesInv
<1>5. CASE UNCHANGED walk
  <2>1. WalkInv'
    BY <1>2, <1>5, KeptWalk DEF ListInv
  <2>2. CoverInv'
    BY <1>1, <1>2, <1>5, KeptCover DEF ListInv, CoverInv
  <2>3. \/ UNCHANGED register
        \/ register'.status \in {"invalidPage", "failed"}
        \/ r.active /\ register' = [status |-> "ready", query |-> r.query, page |-> r.answer]
    BY DEF PageAnswered
  <2>4. PageIsAsked'
    BY <1>1, <2>3 DEF ListInv, PageIsAsked, RequestsInv
  <2> QED BY <1>2, <1>3, <1>4, <2>1, <2>2, <2>4 DEF ListInv
<1>6. CASE /\ r.active /\ Answering(r)
           /\ register' = [status |-> "ready", query |-> r.query, page |-> r.answer]
           /\ walk' = Walked(r)
  <2>1. PICK on : on = Walked(r)
    OBVIOUS
  <2>2. /\ Shown(on.seen, None)
        /\ NextIsLast(on.seen, on.next)
        /\ Accounted(on.present, on.seen, on.next)
    BY <1>6, <2>1, WalkedOn
  <2>3. walk' = on
    BY <1>6, <2>1
  <2>4. Shown(on.seen, None)'
    BY <1>2, <2>2, KeptShown DEF ListInv
  <2>5. NextIsLast(on.seen, on.next)' /\ Accounted(on.present, on.seen, on.next)'
    BY <1>2, <2>2, KeptAccounts DEF ListInv
  <2>6. WalkInv'
    BY <2>3, <2>4, <2>5 DEF WalkInv
  <2>7. \A s \in requests' : ~s.active
    BY <1>1, <1>6 DEF ListInv, RequestsInv
  <2>8. CoverInv'
    BY <2>7 DEF CoverInv, Covers
  <2>9. r.query = asked'
    BY <1>1, <1>6 DEF ListInv, RequestsInv
  <2>10. PageIsAsked'
    BY <1>6, <2>9 DEF PageIsAsked
  <2> QED BY <1>2, <1>3, <1>4, <2>6, <2>8, <2>10 DEF ListInv
<1> QED BY <1>5, <1>6 DEF PageAnswered, Answering

LEMMA GoToKeeps ==
  ASSUME ListInv, NEW query, GoTo(query)
  PROVE  ListInv'
BY ListKept, UnchangedKeeps DEF GoTo, database, ListInv

LEMMA CreatesKeeps ==
  ASSUME ListInv,
         (\E id \in Ids : ColleagueCreates(id)) \/ ServeCreate
  PROVE  ListInv'
<1>1. UNCHANGED <<asked, register, requests, walk>>
  BY DEF ColleagueCreates, ServeCreate, list
<1>2. RowsAreTimed' /\ Kept
  <2>1. CASE \E id \in Ids : ColleagueCreates(id)
    BY <2>1, InsertKeeps DEF ColleagueCreates, ListInv
  <2>2. CASE ServeCreate
    <3>1. UNCHANGED contracts \/ \E id \in OwnIds : \E values : Insert(id, Home, values)
      <4> DEFINE saved == resolveContractValues(Active, creation.values)
      <4>1. UNCHANGED contracts \/ \E id \in OwnIds : Insert(id, Home, saved.values)
        BY <2>2 DEF ServeCreate
      <4> QED BY <4>1
    <3>2. OwnIds \subseteq Ids
      BY HomeAssumption
    <3> QED BY <3>1, <3>2, InsertKeeps, UnchangedKeeps DEF ListInv
  <2> QED BY <2>1, <2>2
<1> QED BY <1>1, <1>2, ListKept

LEMMA ListInit ==
  ASSUME Init
  PROVE  ListInv
<1>1. RowsAreTimed
  <2>1. CASE contracts = [id \in Ids |-> None]
    BY <2>1 DEF RowsAreTimed
  <2>2. CASE \E other \in Ids \cup {None}, time \in Times, t \in Tenants \ {Home} :
               contracts = [id \in Ids |-> IF id = other THEN Row(t, time, 1, <<>>)
                                           ELSE None]
    <3>1. \A t, time : Row(t, time, 1, <<>>).createdAt = time
      BY DEF Row
    <3> QED BY <2>2, <3>1 DEF RowsAreTimed
  <2> QED BY <2>1, <2>2 DEF Init
<1>2. /\ register.status # "ready" /\ walk = None
      /\ \A r \in requests : r = Request(asked)
  BY DEF Init, Absent
<1>3. RequestsInv
  <2>1. ASSUME NEW r \in requests
        PROVE  r = [query |-> r.query, active |-> r.active, answer |-> r.answer,
                    present |-> r.present] /\ r.query = asked
    BY <1>2 DEF Request
  <2> QED BY <1>2, <2>1 DEF RequestsInv
<1>4. PagesInv /\ CoverInv
  BY <1>2 DEF PagesInv, PageOk, Answering, Request, CoverInv, Covers
<1> QED BY <1>1, <1>2, <1>3, <1>4 DEF ListInv, PageIsAsked, WalkInv

\* Every step of the program keeps the invariant of the list.
LEMMA ListNext ==
  ASSUME ListInv, [Next]_vars
  PROVE  ListInv'
<1>1. CASE UNCHANGED vars
  BY <1>1, ListKept, UnchangedKeeps DEF vars, list, database, ListInv
<1>2. CASE \E candidate \in Offers : Publish(candidate)
  BY <1>2, ListKept, UnchangedKeeps DEF Publish, list, ListInv
<1>3. CASE (\E id \in Ids : ColleagueCreates(id)) \/ ServeCreate
  BY <1>3, CreatesKeeps
<1>4. CASE ServeTemplate \/ TemplateLoaded \/ RetryLoad \/ Update \/ Submit
  BY <1>4, ListKept, UnchangedKeeps
     DEF ServeTemplate, TemplateLoaded, RetryLoad, Update, Submit, list, database, ListInv
<1>5. CASE CreateAnswered
  BY <1>5, ListKept, UnchangedKeeps DEF CreateAnswered, list, database, ListInv
<1>6. CASE \E r \in requests : ServePage(r) \/ PageAnswered(r)
  BY <1>6, ServePageKeeps, PageAnsweredKeeps
<1>7. CASE OlderContracts
  BY <1>7, GoToKeeps DEF OlderContracts
<1>8. CASE ReturnToNewest
  BY <1>8, GoToKeeps DEF ReturnToNewest
<1>9. CASE RetryPage \/ EffectRuns
  <2>1. Open /\ UNCHANGED <<contracts, walk>>
    BY <1>9 DEF RetryPage, EffectRuns, database
  <2> QED BY <2>1, OpenKeeps
<1>10. CASE \E query \in Addresses : Visit(query)
  BY <1>10, GoToKeeps DEF Visit
<1> QED
  BY <1>1, <1>2, <1>3, <1>4, <1>5, <1>6, <1>7, <1>8, <1>9, <1>10 DEF Next

\* At any time at most one request may show its answer, each page is an interval of
\* the rows, and the walk is one long page (ContractRegister, findPage).
THEOREM ListInvariant == Spec => []ListInv
BY ListInit, ListNext, PTL DEF Spec

\* The page that is shown is the page of the address once the effect has run for it,
\* however navigation, retries and late answers interleave.
THEOREM PagesAreOfTheirAddress == Spec => []PageIsOfAddress
<1>1. ListInv => PageIsOfAddress
  BY DEF ListInv, PageIsAsked, PageIsOfAddress
<1> QED BY <1>1, ListInvariant, PTL

LEMMA WalkIsOnce ==
  ASSUME ListInv
  PROVE  PagesWalkOnce
<1> DEFINE Time(id) == contracts[id].createdAt
<1> SUFFICES ASSUME walk # None
             PROVE  /\ \A i, j \in DOMAIN walk.seen :
                         i < j => /\ walk.seen[i] # walk.seen[j]
                                  /\ Time(walk.seen[i]) >= Time(walk.seen[j])
                    /\ \A id \in walk.present :
                         \/ id \in Range(walk.seen)
                         \/ walk.next # None /\ Time(id) <= walk.next.createdAt
                    /\ \A id \in Range(walk.seen) : Exists(id, Home)
  BY DEF PagesWalkOnce
<1>1. /\ Shown(walk.seen, None)
      /\ NextIsLast(walk.seen, walk.next)
      /\ Accounted(walk.present, walk.seen, walk.next)
      /\ RowsAreTimed
  BY DEF ListInv, WalkInv
<1>2. \A i \in DOMAIN walk.seen :
        /\ walk.seen[i] \in Ids /\ Exists(walk.seen[i], Home)
        /\ contracts[walk.seen[i]] # None
  BY <1>1 DEF Shown, Exists
<1>3. ASSUME NEW i \in DOMAIN walk.seen, NEW j \in DOMAIN walk.seen, i < j
      PROVE  walk.seen[i] # walk.seen[j] /\ Time(walk.seen[i]) >= Time(walk.seen[j])
  <2> DEFINE a == walk.seen[i]
             b == walk.seen[j]
  <2>1. Older(Boundary(b), Boundary(a))
    BY <1>1, <1>3 DEF Shown, Descending
  <2>2. a \in Ids /\ b \in Ids /\ contracts[a] # None /\ contracts[b] # None
    BY <1>2
  <2> HIDE DEF a, b
  <2>3. a # b
    BY <1>1, <2>1, <2>2, OlderIsOrder
  <2>4. contracts[a].createdAt \in Nat /\ contracts[b].createdAt \in Nat
    BY <1>1, <2>2, BoundaryOfRow
  <2>5. contracts[a].createdAt >= contracts[b].createdAt
    BY <2>1, <2>4 DEF Older, Boundary
  <2> QED BY <2>3, <2>5 DEF a, b
<1>4. ASSUME NEW id \in walk.present, id \notin Range(walk.seen)
      PROVE  walk.next # None /\ Time(id) <= walk.next.createdAt
  <2>1. id \in Ids /\ contracts[id] # None /\ walk.next # None
        /\ Older(Boundary(id), walk.next)
    BY <1>1, <1>4 DEF Accounted, Exists
  <2>2. PICK last \in Ids : contracts[last] # None /\ walk.next = Boundary(last)
    <3>1. walk.seen # <<>> /\ walk.next = Boundary(walk.seen[Len(walk.seen)])
      BY <1>1, <2>1 DEF NextIsLast
    <3>2. Len(walk.seen) \in DOMAIN walk.seen
      BY <1>1, <3>1, EmptySeq DEF Shown
    <3> QED BY <1>2, <3>1, <3>2
  <2>3. contracts[id].createdAt \in Nat /\ contracts[last].createdAt \in Nat
    BY <1>1, <2>1, <2>2, BoundaryOfRow
  <2> QED BY <2>1, <2>2, <2>3 DEF Older, Boundary
<1>5. \A id \in Range(walk.seen) : Exists(id, Home)
  BY <1>2 DEF Range
<1> QED BY <1>3, <1>4, <1>5

\* A walk shows each of the tenant's contracts once, and loses none, however many
\* contracts share a millisecond and however many are created on the way.
THEOREM WalksShowEachOnce == Spec => []PagesWalkOnce
BY WalkIsOnce, ListInvariant, PTL

-----------------------------------------------------------------------------
(***************************************************************************)
(* The form.                                                               *)
(***************************************************************************)

\* What a field's box and input may hold.
InputOk(f, input) ==
  /\ input = [included |-> input.included, value |-> input.value]
  /\ input.included \in BOOLEAN
  /\ input.value \in STRING
  /\ f.type = "number" => NumberOf[input.value] \in STRING
  /\ f.type = "boolean" => input.value \in {"", "true", "false"}

\* The form of a version has an input for each of its fields.
FormOk(version, typed) ==
  /\ version \in 1..Len(versions)
  /\ DOMAIN typed = KeysOf(versions[version])
  /\ typed = [k \in DOMAIN typed |-> typed[k]]
  /\ \A f \in Fields(versions[version]) : InputOk(f, typed[f.key])

\* The body of SavedIsStored, of any contract and any form.
ShownFields(version, typed) ==
  {f \in Fields(versions[version]) :
     LET input == typed[f.key] IN
     input.included /\ (input.value # "" \/ f.type = "text")}

\* The contract has what the form of that version showed, and else defaults.
StoredAsTyped(id, version, typed) ==
  LET saved == contracts[id]
      bound == versions[saved.version]
      shown == ShownFields(version, typed)
  IN /\ Exists(id, Home)
     /\ Conforms(bound, saved.values)
     /\ \A f \in shown : /\ f.key \in DOMAIN saved.values
                         /\ Typed(f, typed[f.key], saved.values[f.key])
     /\ \A k \in DOMAIN saved.values \ {f.key : f \in shown} :
          saved.values[k] = FieldOf(bound, k).default

\* The same, and the versions it speaks of are there to stay.
Stored(id, version, typed) ==
  /\ id \in Ids
  /\ version \in 1..Len(versions)
  /\ contracts[id].version \in 1..Len(versions)
  /\ StoredAsTyped(id, version, typed)

\* The form is one of a version that is there, with an input for each field.
LoadInv ==
  /\ load.status = "loading" =>
       /\ load = Loading(load.answer)
       /\ load.answer # None /\ load.answer.is = "template" =>
            load.answer.version \in 1..Len(versions)
  /\ load.status = "ready" =>
       /\ load = Ready(load.version, load.form)
       /\ FormOk(load.version, load.form)

\* What was sent is what the form still shows, an answer that it was created says
\* of a contract that it holds as much, and so does the notice.
CreationInv ==
  /\ creation.status = "submitting" =>
       /\ creation = Submitting(creation.values, creation.answer)
       /\ load.status = "ready"
       /\ creation.values =
            serializeContractValueForm(versions[load.version], load.form).values
       /\ creation.answer # None /\ creation.answer.is = "created" =>
            Stored(creation.answer.id, load.version, load.form)
  /\ creation.status = "saved" =>
       Stored(creation.id, creation.version, creation.form)

\* The inductive invariant of the form.  It speaks of the answer, because between
\* the save and the notice another version may become active; versions are there
\* as Accepted because what is stored must fit what was loaded before.
FormInv ==
  /\ versions \in Seq(Accepted)
  /\ contracts = [id \in Ids |-> contracts[id]]
  /\ LoadInv
  /\ CreationInv

\* What an input sends is a value, and if it is not null the one that was typed.
LEMMA TransportedIsTyped ==
  ASSUME NEW f, f.type \in Types, NEW input, InputOk(f, input), Sent(f, input)
  PROVE  /\ Transported(f, input) \in Values
         /\ Transported(f, input) # Null =>
              Typed(f, input, canonicalNumber(Transported(f, input)))
<1> DEFINE v == Transported(f, input)
<1>1. CASE f.type = "number"
  <2> DEFINE n == Number(NumberOf[input.value])
  <2>1. n \in Values
    BY <1>1 DEF InputOk, Number, Values
  <2>2. v = IF Finite(n) THEN canonicalNumber(n) ELSE Null
    BY <1>1 DEF Transported
  <2>3. Null \in Values
    BY DEF Values
  <2> HIDE DEF n, v
  <2>4. v \in Values /\ (v # Null => canonicalNumber(v) = canonicalNumber(n))
    BY <2>1, <2>2, <2>3, CanonicalNumbers
  <2> QED BY <1>1, <2>4 DEF Typed, n, v
<1>2. CASE f.type = "boolean"
  <2> DEFINE b == IF input.value = "true" THEN "true" ELSE "false"
  <2>1. v = Boolean(b) /\ b = input.value
    BY <1>2 DEF Transported, InputOk, Sent
  <2>2. b \in {"true", "false"}
    OBVIOUS
  <2> HIDE DEF b, v
  <2>3. v \in Values /\ v.v = b /\ v.js # "number"
    BY <2>1, <2>2 DEF Boolean, Values
  <2>4. canonicalNumber(v) = v
    BY <2>3, CanonicalNumbers
  <2> QED BY <1>2, <2>1, <2>3, <2>4 DEF Typed, v
<1>3. CASE f.type \in {"text", "date", "enum"}
  <2>1. v = Text(input.value)
    BY <1>3 DEF Transported
  <2> HIDE DEF v
  <2>2. v \in Values /\ v.v = input.value /\ v.js # "number"
    BY <2>1 DEF Text, Values, InputOk
  <2>3. canonicalNumber(v) = v
    BY <2>2, CanonicalNumbers
  <2> QED BY <1>3, <2>2, <2>3 DEF Typed, v
<1> QED BY <1>1, <1>2, <1>3 DEF Types

\* What a form sends.
LEMMA SentForm ==
  ASSUME NEW d, Sound(d), NEW typed, \A f \in Fields(d) : InputOk(f, typed[f.key])
  PROVE  LET supplied == serializeContractValueForm(d, typed).values
             sent == {f \in Fields(d) : Sent(f, typed[f.key])}
         IN /\ IsBody(supplied)
            /\ DOMAIN supplied = {f.key : f \in sent}
            /\ \A f \in sent : supplied[f.key] = Transported(f, typed[f.key])
<1> DEFINE supplied == serializeContractValueForm(d, typed).values
           sent == {f \in Fields(d) : Sent(f, typed[f.key])}
           keys == {f.key : f \in sent}
<1>1. supplied = [k \in keys |-> Transported(FieldOf(d, k), typed[k])]
  BY DEF serializeContractValueForm
<1> HIDE DEF supplied
<1>2. \A f \in sent : /\ f.key \in keys /\ FieldOf(d, f.key) = f
                      /\ f.type \in Types
  BY FieldsByKey DEF SoundField
<1>3. DOMAIN supplied = keys /\ supplied = [k \in DOMAIN supplied |-> supplied[k]]
  BY <1>1
<1>4. \A f \in sent : supplied[f.key] = Transported(f, typed[f.key])
  BY <1>1, <1>2
<1>5. ASSUME NEW k \in keys
      PROVE  supplied[k] \in Values
  <2>1. PICK f \in sent : f.key = k
    OBVIOUS
  <2> QED BY <1>2, <1>4, <2>1, TransportedIsTyped
<1> QED BY <1>3, <1>4, <1>5 DEF IsBody, supplied

\* resolveContractValues, when it has no issue.
LEMMA ResolvedBody ==
  ASSUME NEW d, Sound(d), NEW supplied, IsBody(supplied),
         resolveContractValues(d, supplied).is = "values"
  PROVE  LET values == resolveContractValues(d, supplied).values IN
         /\ Conforms(d, values)
         /\ values \in [DOMAIN values -> Values]
         /\ DOMAIN values \in SUBSET LegalKeys
         /\ \A k \in DOMAIN supplied :
              k \in DOMAIN values /\ values[k] = canonicalNumber(supplied[k])
         /\ \A k \in DOMAIN values \ DOMAIN supplied :
              values[k] = FieldOf(d, k).default
<1> DEFINE nothing == [k \in {} |-> 1]
           overlay == Overlay(d, supplied, nothing)
           result == resolveContractValues(d, supplied)
<1>1. DOMAIN nothing = {}
  OBVIOUS
<1> HIDE DEF nothing
<1>2. result = IF IssuesOf(d, supplied, {}) # {} THEN Refused(IssuesOf(d, supplied, {}))
               ELSE Resolved(Filled(d, supplied, {}))
  BY ResolveValuesIs DEF resolveContractValues
<1>3. IssuesOf(d, supplied, {}) = {}
  BY <1>2 DEF Refused
<1>4. MayClear(d, supplied, nothing)
  BY <1>1 DEF MayClear
<1>5. Conforms(d, overlay)
  BY <1>1, <1>3, <1>4, ConformingIsAccepted
<1>6. DOMAIN supplied \subseteq KeysOf(d)
  BY <1>3, NoIssuesIs
<1>7. Filled(d, supplied, {}) = overlay
  BY <1>1, <1>4, <1>6, FilledIsOverlay
<1>8. result.values = overlay
  BY <1>2, <1>3, <1>7 DEF Resolved
<1> DEFINE defaults == {f.key : f \in {g \in Fields(d) : g.default # None}}
<1>9. overlay = [k \in defaults \cup DOMAIN supplied |->
                   canonicalNumber(IF k \in DOMAIN supplied THEN supplied[k]
                                   ELSE FieldOf(d, k).default)]
  BY <1>1 DEF Overlay
<1> HIDE DEF overlay, result
<1>10. ASSUME NEW k \in defaults
       PROVE  /\ FieldOf(d, k).default \in Values
              /\ canonicalNumber(FieldOf(d, k).default) = FieldOf(d, k).default
  <2>1. PICK f \in Fields(d) : f.key = k /\ f.default # None
    OBVIOUS
  <2>2. FieldOf(d, k) = f /\ SoundField(f)
    BY <2>1, FieldsByKey
  <2> QED BY <2>1, <2>2 DEF SoundField
<1> HIDE DEF defaults
<1>11. ASSUME NEW k \in DOMAIN supplied
       PROVE  /\ k \in DOMAIN overlay /\ overlay[k] = canonicalNumber(supplied[k])
              /\ overlay[k] \in Values
  <2>1. supplied[k] \in Values
    BY DEF IsBody
  <2> QED BY <1>9, <2>1, CanonicalNumbers
<1>12. ASSUME NEW k \in DOMAIN overlay \ DOMAIN supplied
       PROVE  overlay[k] = FieldOf(d, k).default /\ overlay[k] \in Values
  BY <1>9, <1>10
<1>13. overlay \in [DOMAIN overlay -> Values]
  BY <1>9, <1>11, <1>12
<1>14. DOMAIN overlay \in SUBSET LegalKeys
  <2>1. ASSUME NEW k \in KeysOf(d) PROVE k \in LegalKeys
    <3>1. PICK f \in Fields(d) : f.key = k
      BY DEF KeysOf
    <3>2. SoundField(f)
      BY FieldsByKey
    <3> QED BY <3>1, <3>2 DEF SoundField
  <2> QED BY <1>5, <2>1 DEF Conforms
<1> QED BY <1>5, <1>8, <1>11, <1>12, <1>13, <1>14 DEF result

\* The values fit the definition e: those of the shown fields are as typed, the
\* others are defaults.
HeldAsTyped(e, typed, shown, values) ==
  /\ Conforms(e, values)
  /\ values \in [DOMAIN values -> Values]
  /\ DOMAIN values \in SUBSET LegalKeys
  /\ \A f \in shown : /\ f.key \in DOMAIN values
                      /\ Typed(f, typed[f.key], values[f.key])
  /\ \A k \in DOMAIN values \ {f.key : f \in shown} : values[k] = FieldOf(e, k).default

\* A contract that is created from the form holds what was typed, whatever version
\* has become active since.
LEMMA CreatedIsStored ==
  ASSUME NEW d, Sound(d), NEW typed, \A f \in Fields(d) : InputOk(f, typed[f.key]),
         NEW e, Sound(e), NEW stored, stored.is = "values",
         stored = resolveContractValues(e, serializeContractValueForm(d, typed).values),
         NEW shown, shown = {f \in Fields(d) : Sent(f, typed[f.key])}
  PROVE  HeldAsTyped(e, typed, shown, stored.values)
<1> DEFINE supplied == serializeContractValueForm(d, typed).values
           values == stored.values
<1>1. /\ IsBody(supplied)
      /\ DOMAIN supplied = {f.key : f \in shown}
      /\ \A f \in shown : supplied[f.key] = Transported(f, typed[f.key])
  BY SentForm
<1> HIDE DEF supplied
<1>2. /\ Conforms(e, values)
      /\ values \in [DOMAIN values -> Values]
      /\ DOMAIN values \in SUBSET LegalKeys
      /\ \A k \in DOMAIN supplied :
           k \in DOMAIN values /\ values[k] = canonicalNumber(supplied[k])
      /\ \A k \in DOMAIN values \ DOMAIN supplied :
           values[k] = FieldOf(e, k).default
  BY <1>1, ResolvedBody DEF supplied
<1> HIDE DEF values
<1>3. ASSUME NEW f \in shown
      PROVE  f.key \in DOMAIN values /\ Typed(f, typed[f.key], values[f.key])
  <2>1. f.key \in DOMAIN supplied /\ supplied[f.key] = Transported(f, typed[f.key])
    BY <1>1
  <2>2. f.key \in DOMAIN values /\ values[f.key] = canonicalNumber(supplied[f.key])
    BY <1>2, <2>1
  <2>3. supplied[f.key] # Null
    <3>1. f.key \in KeysOf(e)
      BY <1>2, <2>2 DEF Conforms
    <3>2. PICK g \in Fields(e) : g.key = f.key
      BY <3>1 DEF KeysOf
    <3>3. Fits(g, values[f.key])
      BY <1>2, <2>2, <3>2 DEF Conforms
    <3>4. g.type \in Types
      BY FieldsByKey DEF SoundField
    <3>5. values[f.key].js # "null"
      BY <3>3, <3>4 DEF Fits, Types
    <3>6. Null \in Values /\ Null.js = "null"
      BY DEF Null, Values
    <3>7. canonicalNumber(Null).js = "null"
      BY <3>6, CanonicalNumbers
    <3> QED BY <2>2, <3>5, <3>7
  <2>4. f.type \in Types
    BY FieldsByKey DEF SoundField
  <2> QED BY <2>1, <2>2, <2>3, <2>4, TransportedIsTyped
<1> QED BY <1>1, <1>2, <1>3 DEF values, supplied, HeldAsTyped

\* Versions are only appended.
Grown ==
  \A n \in 1..Len(versions) : n \in 1..Len(versions') /\ versions'[n] = versions[n]

LEMMA StoredKept ==
  ASSUME Kept, Grown, NEW id, NEW version, NEW typed, Stored(id, version, typed)
  PROVE  Stored(id, version, typed)'
<1>1. contracts[id] # None /\ contracts[id].tenant = Home
  BY DEF Stored, StoredAsTyped, Exists
<1>2. contracts'[id] = contracts[id] /\ Exists(id, Home)'
  BY <1>1 DEF Kept, Stored, Exists
<1> DEFINE n == contracts[id].version
<1>3. /\ n' = n /\ n \in 1..Len(versions') /\ versions'[n] = versions[n]
      /\ version \in 1..Len(versions') /\ versions'[version] = versions[version]
  BY <1>2 DEF Grown, Stored
<1>4. ShownFields(version, typed)' = ShownFields(version, typed)
  BY <1>3 DEF ShownFields
<1>5. StoredAsTyped(id, version, typed)'
  BY <1>2, <1>3, <1>4 DEF Stored, StoredAsTyped
<1> QED BY <1>2, <1>3, <1>5 DEF Stored

LEMMA FormKept ==
  ASSUME Grown, NEW version, NEW typed, FormOk(version, typed)
  PROVE  FormOk(version, typed)'
BY DEF Grown, FormOk

LEMMA LoadKept ==
  ASSUME LoadInv, Grown, UNCHANGED load
  PROVE  LoadInv'
<1>1. load.status = "loading" =>
        /\ load = Loading(load.answer)
        /\ load.answer # None /\ load.answer.is = "template" =>
             load.answer.version \in 1..Len(versions')
  BY DEF LoadInv, Grown
<1>2. load.status = "ready" =>
        /\ load = Ready(load.version, load.form)
        /\ FormOk(load.version, load.form)'
  <2> SUFFICES ASSUME load.status = "ready"
               PROVE  load = Ready(load.version, load.form)
                      /\ FormOk(load.version, load.form)'
    OBVIOUS
  <2>1. PICK version, typed : version = load.version /\ typed = load.form
    OBVIOUS
  <2>2. load = Ready(load.version, load.form) /\ FormOk(version, typed)
    BY <2>1 DEF LoadInv
  <2>3. FormOk(version, typed)'
    BY <2>2, FormKept
  <2>4. load'.version = version /\ load'.form = typed
    BY <2>1
  <2> QED BY <2>1, <2>2, <2>3, <2>4
<1> QED BY <1>1, <1>2 DEF LoadInv, Loading, Ready

LEMMA CreationKept ==
  ASSUME LoadInv, CreationInv, Grown, Kept, UNCHANGED <<load, creation>>
  PROVE  CreationInv'
<1>1. ASSUME creation.status = "submitting"
      PROVE  /\ creation.values =
                  serializeContractValueForm(versions'[load.version], load.form).values
             /\ creation.answer # None /\ creation.answer.is = "created" =>
                  Stored(creation.answer.id, load.version, load.form)'
  <2>1. /\ load.version \in 1..Len(versions)
        /\ creation.values =
             serializeContractValueForm(versions[load.version], load.form).values
        /\ creation.answer # None /\ creation.answer.is = "created" =>
             Stored(creation.answer.id, load.version, load.form)
    BY <1>1 DEF CreationInv, LoadInv, FormOk
  <2>2. versions'[load.version] = versions[load.version]
    BY <2>1 DEF Grown
  <2>3. PICK id, version, typed :
          id = creation.answer.id /\ version = load.version /\ typed = load.form
    OBVIOUS
  <2>4. Stored(id, version, typed) => Stored(id, version, typed)'
    BY StoredKept
  <2> QED BY <2>1, <2>2, <2>3, <2>4
<1>2. ASSUME creation.status = "saved"
      PROVE  Stored(creation.id, creation.version, creation.form)'
  <2>1. Stored(creation.id, creation.version, creation.form)
    BY <1>2 DEF CreationInv
  <2>2. PICK id, version, typed :
          id = creation.id /\ version = creation.version /\ typed = creation.form
    OBVIOUS
  <2>3. Stored(id, version, typed)'
    BY <2>1, <2>2, StoredKept
  <2> QED BY <2>2, <2>3
<1> QED BY <1>1, <1>2 DEF CreationInv, Submitting

LEMMA FormUntouched ==
  ASSUME FormInv, UNCHANGED <<contracts, versions, load, creation>>
  PROVE  FormInv'
<1>1. Kept /\ Grown
  BY DEF Kept, Grown
<1> QED BY <1>1, LoadKept, CreationKept DEF FormInv

LEMMA FormInit ==
  ASSUME Init
  PROVE  FormInv
<1>1. load.status \in {"absent", "loading"} /\ creation.status = "idle"
      /\ (load.status = "loading" => load = Loading(None))
  BY DEF Init, Absent, Loading, Idle
<1>2. contracts = [id \in Ids |-> contracts[id]]
  BY DEF Init
<1>3. versions \in Seq(Accepted)
  <2>1. (CHOOSE d \in Publishable : TRUE) \in Accepted
    <3>1. Publishable # {} /\ Offers \subseteq Candidates
      BY HomeAssumption
    <3>2. Publishable \subseteq Accepted
      BY <3>1 DEF Publishable, Accepted
    <3>3. (CHOOSE d \in Publishable : TRUE) \in Publishable
      BY <3>1
    <3> QED BY <3>2, <3>3
  <2>2. versions = <<>> \/ versions = <<CHOOSE d \in Publishable : TRUE>>
    BY DEF Init
  <2>3. PICK d \in Accepted : versions = <<>> \/ versions = <<d>>
    BY <2>1, <2>2
  <2>4. <<d>> \in Seq(Accepted) /\ <<>> \in Seq(Accepted)
    BY EmptySeq
  <2> QED BY <2>3, <2>4
<1>4. LoadInv
  BY <1>1 DEF LoadInv, Loading
<1>5. CreationInv
  BY <1>1 DEF CreationInv
<1> QED BY <1>2, <1>3, <1>4, <1>5 DEF FormInv

LEMMA VersionsAreSound ==
  ASSUME FormInv, NEW n \in 1..Len(versions)
  PROVE  Sound(versions[n])
<1>1. versions[n] \in Accepted
  BY DEF FormInv
<1> QED BY <1>1, AcceptedIsSound

\* A form with the defaults of its version.
LEMMA DefaultsAreTyped ==
  ASSUME FormInv, NEW version \in 1..Len(versions)
  PROVE  FormOk(version, DefaultForm(version))
<1> DEFINE d == versions[version]
           typed == DefaultForm(version)
<1>1. Sound(d)
  BY VersionsAreSound
<1>2. typed = [k \in KeysOf(d) |-> DefaultInput(FieldOf(d, k))]
  BY DEF DefaultForm, createContractValueForm
<1> HIDE DEF typed, d
<1>3. DOMAIN typed = KeysOf(d) /\ typed = [k \in DOMAIN typed |-> typed[k]]
  BY <1>2
<1>4. ASSUME NEW f \in Fields(d)
      PROVE  InputOk(f, typed[f.key])
  <2>1. typed[f.key] = DefaultInput(f) /\ SoundField(f)
    BY <1>1, <1>2, FieldsByKey
  <2>2. DefaultInput(f).value = defaultValue(f)
        /\ DefaultInput(f).included = (f.default # None \/ f.required \/ f.type # "text")
        /\ DefaultInput(f) = [included |-> DefaultInput(f).included,
                              value |-> DefaultInput(f).value]
    BY DEF DefaultInput
  <2>3. DefaultInput(f).included \in BOOLEAN
    BY <2>2
  <2>4. CASE f.default = None
    <3>1. defaultValue(f) = "" /\ "" \in STRING /\ NumberOf[""] \in STRING
      BY <2>4, ValuesAssumption, InputsAssumption DEF defaultValue
    <3> QED BY <2>1, <2>2, <2>3, <3>1 DEF InputOk
  <2>5. CASE f.default # None
    <3>1. /\ f.default \in Values /\ Fits(f, f.default)
          /\ canonicalNumber(f.default) = f.default /\ Legible(f.default)
      BY <2>1, <2>5 DEF SoundField
    <3>2. defaultValue(f) = f.default.v
      BY <2>5, <3>1 DEF defaultValue, AsInput
    <3>3. f.default.v \in STRING /\ (f.default.js = "boolean" => f.default.v \in {"true", "false"})
      BY <3>1, ValueForms
    <3>4. f.type = "number" => NumberOf[f.default.v] = f.default.v
      BY <3>1 DEF Fits, Legible, Finite
    <3>5. f.type = "boolean" => f.default.js = "boolean"
      BY <3>1 DEF Fits
    <3> QED BY <2>1, <2>2, <2>3, <3>2, <3>3, <3>4, <3>5 DEF InputOk
  <2> QED BY <2>4, <2>5
<1> QED BY <1>3, <1>4 DEF FormOk, d, typed

LEMMA ReadyForm ==
  ASSUME NEW l, l = Ready(l.version, l.form), NEW v
  PROVE  [l EXCEPT !.form = v] = Ready(l.version, v)
<1>1. l \in [status : {"ready"}, version : {l.version}, form : {l.form}]
  BY DEF Ready
<1> QED BY <1>1 DEF Ready

LEMMA AnsweredCreation ==
  ASSUME NEW c, c = Submitting(c.values, c.answer), NEW v
  PROVE  [c EXCEPT !.answer = v] = Submitting(c.values, v)
<1>1. c \in [status : {"submitting"}, values : {c.values}, answer : {c.answer}]
  BY DEF Submitting
<1> QED BY <1>1 DEF Submitting

LEMMA ChangedInput ==
  ASSUME NEW input, input = [included |-> input.included, value |-> input.value], NEW v
  PROVE  /\ [input EXCEPT !.included = v] = [included |-> v, value |-> input.value]
         /\ [input EXCEPT !.value = v] = [included |-> input.included, value |-> v]
<1>1. input \in [included : {input.included}, value : {input.value}]
  OBVIOUS
<1> QED BY <1>1

\* Whatever is typed or ticked, the form stays one.
LEMMA UpdateIsTyped ==
  ASSUME FormInv, load.status = "ready",
         NEW f \in Fields(versions[load.version]),
         NEW changed,
         \/ changed = [load.form[f.key] EXCEPT !.included = ~@]
         \/ \E s \in Typable(f) : changed = [load.form[f.key] EXCEPT !.value = s]
  PROVE  LET typed == [load.form EXCEPT ![f.key] = changed] IN
         FormOk(load.version, typed)
<1> DEFINE d == versions[load.version]
           form0 == load.form
           input == load.form[f.key]
           typed == [form0 EXCEPT ![f.key] = changed]
<1>1. FormOk(load.version, form0)
  BY DEF FormInv, LoadInv
<1>2. /\ load.version \in 1..Len(versions)
      /\ DOMAIN form0 = KeysOf(d) /\ form0 = [k \in DOMAIN form0 |-> form0[k]]
      /\ \A g \in Fields(d) : InputOk(g, form0[g.key])
  BY <1>1 DEF FormOk
<1>3. Sound(d)
  BY <1>2, VersionsAreSound
<1>4. SoundField(f) /\ InputOk(f, input)
  BY <1>2, <1>3, FieldsByKey
<1> HIDE DEF input
<1>5. ASSUME changed = [input EXCEPT !.included = ~@]
      PROVE  InputOk(f, changed)
  <2>1. PICK b \in BOOLEAN : b = ~input.included
    OBVIOUS
  <2>2. changed = [input EXCEPT !.included = b]
    BY <1>5, <2>1
  <2>3. changed = [included |-> b, value |-> input.value]
    BY <1>4, <2>2, ChangedInput DEF InputOk
  <2> QED BY <1>4, <2>3 DEF InputOk
<1>6. ASSUME NEW s \in Typable(f), changed = [input EXCEPT !.value = s]
      PROVE  InputOk(f, changed)
  <2>1. changed = [included |-> input.included, value |-> s]
    BY <1>4, <1>6, ChangedInput DEF InputOk
  <2>2. CASE f.type = "enum"
    <3>1. f.options \in Seq(STRING)
      BY <1>4, <2>2 DEF SoundField, Drafted
    <3>2. s = "" \/ \E i \in DOMAIN f.options : s = f.options[i]
      BY <2>2 DEF Typable, Range
    <3>3. "" \in STRING
      BY ValuesAssumption
    <3>4. s \in STRING
      <4>1. \A i \in DOMAIN f.options : f.options[i] \in STRING
        BY <3>1
      <4> QED BY <3>2, <3>3, <4>1
    <3> QED BY <1>4, <2>1, <2>2, <3>4 DEF InputOk
  <2>3. CASE f.type # "enum"
    <3>1. s \in Inputs[f.type] /\ f.type \in Types
      BY <1>4, <2>3 DEF Typable, SoundField
    <3> QED BY <1>4, <2>1, <2>3, <3>1, InputsAssumption DEF InputOk
  <2> QED BY <2>2, <2>3
<1>7. InputOk(f, changed)
  BY <1>5, <1>6 DEF input
<1>8. f.key \in KeysOf(d)
  BY <1>3, FieldsByKey
<1> HIDE DEF d, form0
<1>9. /\ DOMAIN typed = KeysOf(d) /\ typed = [k \in DOMAIN typed |-> typed[k]]
      /\ typed[f.key] = changed
      /\ \A k \in KeysOf(d) : k # f.key => typed[k] = form0[k]
  BY <1>2, <1>8
<1>10. f \in Fields(d)
  BY DEF d
<1> HIDE DEF typed
<1>11. \A g \in Fields(d) : InputOk(g, typed[g.key])
  <2> SUFFICES ASSUME NEW g \in Fields(d) PROVE InputOk(g, typed[g.key])
    OBVIOUS
  <2>1. CASE g.key = f.key
    BY <1>3, <1>7, <1>9, <1>10, <2>1, FieldsByKey
  <2>2. CASE g.key # f.key
    BY <1>2, <1>3, <1>9, <2>2, FieldsByKey
  <2> QED BY <2>1, <2>2
<1>12. FormOk(load.version, typed)
  BY <1>2, <1>9, <1>11 DEF FormOk, d
<1> QED BY <1>12 DEF typed, form0

\* The user changes one input.
LEMMA UpdateKeeps ==
  ASSUME FormInv, Update
  PROVE  FormInv'
<1>1. /\ UNCHANGED <<contracts, versions>> /\ creation' = Idle
      /\ load.status = "ready"
  BY DEF Update, database
<1>2. PICK f \in Fields(versions[load.version]) :
        \E changed :
          /\ \/ changed = [load.form[f.key] EXCEPT !.included = ~@]
             \/ \E s \in Typable(f) : changed = [load.form[f.key] EXCEPT !.value = s]
          /\ load' = [load EXCEPT !.form[f.key] = changed]
  BY DEF Update
<1>3. PICK changed :
        /\ \/ changed = [load.form[f.key] EXCEPT !.included = ~@]
           \/ \E s \in Typable(f) : changed = [load.form[f.key] EXCEPT !.value = s]
        /\ load' = [load EXCEPT !.form[f.key] = changed]
  BY <1>2
<1> DEFINE typed == [load.form EXCEPT ![f.key] = changed]
<1>4. FormOk(load.version, typed)
  BY <1>1, <1>3, UpdateIsTyped
<1>5. load' = [load EXCEPT !.form = typed]
  BY <1>3
<1> HIDE DEF typed
<1>6. load = Ready(load.version, load.form)
  BY <1>1 DEF FormInv, LoadInv
<1>7. load' = Ready(load.version, typed)
  BY <1>5, <1>6, ReadyForm
<1>8. Grown
  BY <1>1 DEF Grown
<1>9. PICK version, t : version = load.version /\ t = typed
  OBVIOUS
<1>10. FormOk(version, t)'
  BY <1>4, <1>8, <1>9, FormKept
<1>11. LoadInv'
  BY <1>7, <1>9, <1>10 DEF LoadInv, Ready
<1>12. CreationInv'
  BY <1>1 DEF CreationInv, Idle
<1> QED BY <1>1, <1>11, <1>12 DEF FormInv

LEMMA PublishKeeps ==
  ASSUME FormInv, NEW candidate \in Offers, Publish(candidate)
  PROVE  FormInv'
<1> DEFINE d == canonicalTemplateDefinition(candidate)
<1>1. versions' = Append(versions, d) /\ d # None /\ UNCHANGED <<contracts, load, creation>>
  BY DEF Publish, form
<1>2. d \in Accepted
  BY <1>1, HomeAssumption DEF Accepted
<1> HIDE DEF d
<1>3. versions \in Seq(Accepted)
  BY DEF FormInv
<1>4. versions' \in Seq(Accepted)
  BY <1>1, <1>2, <1>3
<1>5. Grown
  BY <1>1, <1>2, <1>3 DEF Grown
<1>6. Kept
  BY <1>1 DEF Kept
<1> QED BY <1>1, <1>4, <1>5, <1>6, LoadKept, CreationKept DEF FormInv

LEMMA ColleagueKeepsForm ==
  ASSUME FormInv, RowsAreTimed, NEW id \in Ids, ColleagueCreates(id)
  PROVE  FormInv'
<1>1. RowsAreTimed' /\ Kept
  BY InsertKeeps DEF ColleagueCreates
<1>2. UNCHANGED <<versions, load, creation>>
  BY DEF ColleagueCreates, form
<1>3. Grown
  BY <1>2 DEF Grown
<1> QED BY <1>1, <1>2, <1>3, LoadKept, CreationKept DEF FormInv, RowsAreTimed

LEMMA LoadingRecord ==
  ASSUME NEW answer
  PROVE  /\ Loading(answer).status = "loading" /\ Loading(answer).answer = answer
         /\ Unavailable.status = "unavailable" /\ LoadFailed.status = "failed"
         /\ \A v, t : /\ Ready(v, t).status = "ready" /\ Ready(v, t).version = v
                      /\ Ready(v, t).form = t
BY DEF Loading, Unavailable, LoadFailed, Ready

\* The form hears of the active version.
LEMMA TemplateKeeps ==
  ASSUME FormInv, ServeTemplate \/ TemplateLoaded \/ RetryLoad
  PROVE  FormInv'
<1>1. UNCHANGED <<contracts, versions, creation>>
  BY DEF ServeTemplate, TemplateLoaded, RetryLoad, database
<1>2. Grown /\ Kept
  BY <1>1 DEF Grown, Kept
<1>3. load.status # "ready"
  BY DEF ServeTemplate, TemplateLoaded, RetryLoad
<1>4. CreationInv'
  <2>1. creation.status # "submitting"
    BY <1>3 DEF FormInv, CreationInv
  <2>2. creation.status = "saved" => Stored(creation.id, creation.version, creation.form)
    BY DEF FormInv, CreationInv
  <2>3. PICK id, version, typed :
          id = creation.id /\ version = creation.version /\ typed = creation.form
    OBVIOUS
  <2>4. Stored(id, version, typed) => Stored(id, version, typed)'
    BY <1>2, StoredKept
  <2> QED BY <1>1, <2>1, <2>2, <2>3, <2>4 DEF CreationInv
<1>5. LoadInv'
  <2>1. CASE ServeTemplate
    <3>1. PICK a : /\ load' = Loading(a)
                   /\ a = ServerError \/ a = NoTemplate
                        \/ (versions # <<>> /\ a = Template(Len(versions)))
      BY <2>1 DEF ServeTemplate
    <3>2. versions # <<>> => Len(versions) \in 1..Len(versions)
      BY EmptySeq DEF FormInv
    <3>3. a.is = "template" => a.version \in 1..Len(versions)
      BY <3>1, <3>2 DEF ServerError, NoTemplate, Template
    <3> QED BY <1>1, <3>1, <3>3, LoadingRecord DEF LoadInv
  <2>2. CASE TemplateLoaded
    <3>1. CASE load' = Unavailable \/ load' = LoadFailed
      BY <3>1, LoadingRecord DEF LoadInv
    <3>2. CASE /\ load.answer.is = "template"
               /\ load' = Ready(load.answer.version, DefaultForm(load.answer.version))
      <4>1. PICK version : version = load.answer.version
        OBVIOUS
      <4>2. version \in 1..Len(versions)
        BY <2>2, <3>2, <4>1 DEF TemplateLoaded, FormInv, LoadInv
      <4>3. PICK typed : typed = DefaultForm(version)
        OBVIOUS
      <4>4. FormOk(version, typed)
        BY <4>2, <4>3, DefaultsAreTyped
      <4>5. FormOk(version, typed)'
        BY <1>2, <4>4, FormKept
      <4>6. load' = Ready(version, typed)
        BY <3>2, <4>1, <4>3
      <4> QED BY <4>5, <4>6, LoadingRecord DEF LoadInv
    <3> QED BY <2>2, <3>1, <3>2 DEF TemplateLoaded
  <2>3. CASE RetryLoad
    <3>1. load' = Loading(None)
      BY <2>3 DEF RetryLoad
    <3> QED BY <3>1, LoadingRecord DEF LoadInv
  <2> QED BY <2>1, <2>2, <2>3
<1> QED BY <1>1, <1>4, <1>5 DEF FormInv

\* The user sends the form.
LEMMA SubmitKeeps ==
  ASSUME FormInv, Submit
  PROVE  FormInv'
<1>1. /\ UNCHANGED <<contracts, versions, load>> /\ load.status = "ready"
      /\ creation' = Submitting(
           serializeContractValueForm(versions[load.version], load.form).values, None)
  BY DEF Submit, database
<1>2. Grown
  BY <1>1 DEF Grown
<1>3. LoadInv'
  BY <1>1, <1>2, LoadKept DEF FormInv
<1>4. CreationInv'
  BY <1>1 DEF CreationInv, Submitting
<1> QED BY <1>1, <1>3, <1>4 DEF FormInv

\* The form hears of it.
LEMMA CreateAnsweredKeeps ==
  ASSUME FormInv, CreateAnswered
  PROVE  FormInv'
<1>1. /\ UNCHANGED <<contracts, versions>>
      /\ creation.status = "submitting" /\ creation.answer # None
  BY DEF CreateAnswered, database
<1>2. Grown /\ Kept
  BY <1>1 DEF Grown, Kept
<1>3. load.status = "ready" /\ FormOk(load.version, load.form)
  BY <1>1 DEF FormInv, CreationInv, LoadInv
<1>4. CASE /\ creation.answer.is = "created"
           /\ load' = Ready(load.version, DefaultForm(load.version))
           /\ creation' = Saved(creation.answer.id)
  <2>1. PICK id, version, typed, fresh :
          /\ id = creation.answer.id /\ version = load.version /\ typed = load.form
          /\ fresh = DefaultForm(version)
    OBVIOUS
  <2>2. Stored(id, version, typed)
    BY <1>1, <1>4, <2>1 DEF FormInv, CreationInv
  <2>3. Stored(id, version, typed)'
    BY <1>2, <2>2, StoredKept
  <2>4. version \in 1..Len(versions)
    BY <1>3, <2>1 DEF FormOk
  <2>5. FormOk(version, fresh)
    BY <2>1, <2>4, DefaultsAreTyped
  <2>6. FormOk(version, fresh)'
    BY <1>2, <2>5, FormKept
  <2>7. load' = Ready(version, fresh)
    BY <1>4, <2>1
  <2>8. LoadInv'
    BY <2>6, <2>7, LoadingRecord DEF LoadInv
  <2>9. creation' = [status |-> "saved", id |-> id, form |-> typed, version |-> version]
    BY <1>4, <2>1 DEF Saved
  <2>10. CreationInv'
    BY <2>3, <2>9 DEF CreationInv
  <2> QED BY <1>1, <2>8, <2>10 DEF FormInv
<1>5. CASE load' = Unavailable /\ creation' = Idle
  BY <1>1, <1>5 DEF FormInv, LoadInv, CreationInv, Unavailable, Idle
<1>6. CASE UNCHANGED load /\ creation'.status = "failed"
  <2>1. LoadInv'
    BY <1>2, <1>6, LoadKept DEF FormInv
  <2>2. CreationInv'
    BY <1>6 DEF CreationInv
  <2> QED BY <1>1, <2>1, <2>2 DEF FormInv
<1>7. \A i : Failed(i).status = "failed"
  BY DEF Failed
<1> QED BY <1>4, <1>5, <1>6, <1>7 DEF CreateAnswered

LEMMA RowIsSome ==
  ASSUME NEW time \in Times, NEW version \in Nat, NEW values,
         values \in [DOMAIN values -> Values], DOMAIN values \in SUBSET LegalKeys
  PROVE  /\ Row(Home, time, version, values) # None
         /\ Row(Home, time, version, values).tenant = Home
         /\ Row(Home, time, version, values).version = version
         /\ Row(Home, time, version, values).values = values
<1> DEFINE keys == DOMAIN values
<1>1. values \in [keys -> Values] /\ keys \in SUBSET LegalKeys
  OBVIOUS
<1>2. None \notin [tenant : Tenants, createdAt : Times, version : Nat,
                   values : [keys -> Values]]
  BY <1>1, NoneAssumption
<1>3. Home \in Tenants
  BY HomeAssumption
<1> HIDE DEF keys
<1>4. Row(Home, time, version, values) \in
        [tenant : Tenants, createdAt : Times, version : Nat, values : [keys -> Values]]
  BY <1>1, <1>3 DEF Row
<1>5. Row(Home, time, version, values) # None
  BY <1>2, <1>4
<1> QED BY <1>5 DEF Row

\* The contract that is saved holds what the form showed when it was sent.
LEMMA SavedAsTyped ==
  ASSUME FormInv, creation.status = "submitting", versions # <<>>,
         NEW id \in Ids, NEW version, version = load.version, NEW typed, typed = load.form,
         resolveContractValues(Active, creation.values).is = "values",
         Insert(id, Home, resolveContractValues(Active, creation.values).values),
         UNCHANGED versions
  PROVE  Stored(id, version, typed)'
<1> DEFINE n == Len(versions)
           values == resolveContractValues(Active, creation.values).values
<1>2. /\ FormOk(version, typed)
      /\ creation.values = serializeContractValueForm(versions[version], typed).values
  BY DEF FormInv, LoadInv, CreationInv
<1>3. version \in 1..Len(versions) /\ n \in 1..Len(versions) /\ n \in Nat
  BY <1>2, EmptySeq DEF FormOk, FormInv
<1>4. /\ Sound(versions[version]) /\ Sound(versions[n]) /\ Active = versions[n]
      /\ \A f \in Fields(versions[version]) : InputOk(f, typed[f.key])
  BY <1>2, <1>3, VersionsAreSound DEF Active, FormOk
<1> DEFINE d == versions[version]
           e == versions[n]
           shown == {f \in Fields(d) : Sent(f, typed[f.key])}
<1>5. HeldAsTyped(e, typed, shown, values)
  <2> DEFINE answer == resolveContractValues(e, serializeContractValueForm(d, typed).values)
  <2>1. resolveContractValues(Active, creation.values) = answer
    BY <1>2, <1>4
  <2>2. Sound(d) /\ Sound(e) /\ \A f \in Fields(d) : InputOk(f, typed[f.key])
    BY <1>4
  <2>3. answer.is = "values" /\ values = answer.values
    BY <2>1
  <2>4. PICK from, to : from = d /\ to = e
    OBVIOUS
  <2>5. PICK stored : stored = resolveContractValues(to, serializeContractValueForm(from, typed).values)
    OBVIOUS
  <2>6. PICK sent : sent = {f \in Fields(from) : Sent(f, typed[f.key])}
    OBVIOUS
  <2>7. stored.is = "values" /\ values = stored.values /\ shown = sent
    BY <2>3, <2>4, <2>5, <2>6
  <2>8. Sound(from) /\ Sound(to) /\ \A f \in Fields(from) : InputOk(f, typed[f.key])
    BY <2>2, <2>4
  <2> HIDE DEF d, e, values, shown
  <2>9. HeldAsTyped(to, typed, sent, stored.values)
    BY <2>5, <2>6, <2>7, <2>8, CreatedIsStored
  <2> QED BY <2>4, <2>7, <2>9
<1>6. PICK time \in Times : contracts' = [contracts EXCEPT ![id] = Row(Home, time, n, values)]
  BY DEF Insert
<1> HIDE DEF values
<1>7. contracts'[id] = Row(Home, time, n, values)
  BY <1>6 DEF FormInv
<1>8. /\ contracts'[id] # None /\ contracts'[id].tenant = Home
      /\ contracts'[id].version = n /\ contracts'[id].values = values
  BY <1>3, <1>5, <1>7, RowIsSome DEF HeldAsTyped
<1>9. Exists(id, Home)'
  BY <1>8 DEF Exists
<1>10. ShownFields(version, typed)' = shown
  <2>1. ShownFields(version, typed) = shown
    BY DEF ShownFields, Sent
  <2> QED BY <2>1 DEF ShownFields
<1> HIDE DEF shown
<1>11. StoredAsTyped(id, version, typed)'
  BY <1>5, <1>8, <1>9, <1>10 DEF StoredAsTyped, HeldAsTyped
<1>12. Stored(id, version, typed)'
  BY <1>3, <1>8, <1>11 DEF Stored
<1> QED BY <1>12

\* The API saves the contract, or refuses it, or fails before or after.
LEMMA CreateKeeps ==
  ASSUME FormInv, RowsAreTimed, ServeCreate
  PROVE  FormInv'
<1> DEFINE saved == resolveContractValues(Active, creation.values)
<1>1. /\ creation.status = "submitting" /\ UNCHANGED <<versions, load>>
      /\ \E a :
           /\ creation' = [creation EXCEPT !.answer = a]
           /\ \/ a.is # "created" /\ UNCHANGED contracts
              \/ /\ versions # <<>> /\ saved.is = "values"
                 /\ \E id \in OwnIds :
                      /\ Insert(id, Home, saved.values)
                      /\ a = Created(id) \/ a.is # "created"
  <2>1. ServerError.is # "created" /\ NoTemplate.is # "created"
    BY DEF ServerError, NoTemplate
  <2> HIDE DEF saved
  <2>2. \/ creation' = [creation EXCEPT !.answer = ServerError] /\ UNCHANGED contracts
        \/ creation' = [creation EXCEPT !.answer = NoTemplate] /\ UNCHANGED contracts
        \/ /\ saved.is = "issues"
           /\ creation' = [creation EXCEPT !.answer = saved] /\ UNCHANGED contracts
        \/ /\ versions # <<>> /\ saved.is = "values"
           /\ \E id \in OwnIds :
                /\ Insert(id, Home, saved.values)
                /\ \/ creation' = [creation EXCEPT !.answer = Created(id)]
                   \/ creation' = [creation EXCEPT !.answer = ServerError]
    BY DEF ServeCreate, saved
  <2>3. creation.status = "submitting" /\ UNCHANGED <<versions, load>>
    BY DEF ServeCreate
  <2> QED BY <2>1, <2>2, <2>3
<1> HIDE DEF saved
<1>2. PICK a :
        /\ creation' = [creation EXCEPT !.answer = a]
        /\ \/ a.is # "created" /\ UNCHANGED contracts
           \/ /\ versions # <<>> /\ saved.is = "values"
              /\ \E id \in OwnIds :
                   /\ Insert(id, Home, saved.values)
                   /\ a = Created(id) \/ a.is # "created"
  BY <1>1
<1>3. /\ creation = Submitting(creation.values, creation.answer)
      /\ load.status = "ready"
      /\ creation.values =
           serializeContractValueForm(versions[load.version], load.form).values
  BY <1>1 DEF FormInv, CreationInv
<1>4. creation' = Submitting(creation.values, a)
  BY <1>2, <1>3, AnsweredCreation
<1>5. Grown
  BY <1>1 DEF Grown
<1>6. OwnIds \subseteq Ids
  BY HomeAssumption
<1>7. RowsAreTimed' /\ Kept
  BY <1>2, <1>6, InsertKeeps, UnchangedKeeps
<1>8. LoadInv'
  BY <1>1, <1>5, LoadKept DEF FormInv
<1>9. PICK version, typed : version = load.version /\ typed = load.form
  OBVIOUS
<1>10. ASSUME a # None, a.is = "created"
       PROVE  Stored(a.id, version, typed)'
  <2>1. PICK id \in OwnIds : Insert(id, Home, saved.values) /\ a = Created(id)
    BY <1>2, <1>10
  <2>2. versions # <<>> /\ saved.is = "values" /\ a.id = id
    BY <1>2, <1>10, <2>1 DEF Created
  <2>3. Stored(id, version, typed)'
    BY <1>1, <1>6, <1>9, <2>1, <2>2, SavedAsTyped DEF saved
  <2> QED BY <2>2, <2>3
<1>11. load'.version = version /\ load'.form = typed
  BY <1>1, <1>9
<1>12. /\ creation'.status = "submitting" /\ creation'.answer = a
       /\ creation'.values = creation.values
       /\ creation' = Submitting(creation'.values, creation'.answer)
  BY <1>4 DEF Submitting
<1>13. creation'.values =
         serializeContractValueForm(versions'[load'.version], load'.form).values
  BY <1>1, <1>3, <1>12
<1>14. CreationInv'
  BY <1>1, <1>3, <1>10, <1>11, <1>12, <1>13 DEF CreationInv, Submitting
<1> QED BY <1>1, <1>7, <1>8, <1>14 DEF FormInv, RowsAreTimed

\* Every step of the program keeps the invariant of the form.
LEMMA FormNext ==
  ASSUME FormInv, RowsAreTimed, [Next]_vars
  PROVE  FormInv'
<1>1. CASE UNCHANGED vars
  BY <1>1, FormUntouched DEF vars, database, form
<1>2. CASE \E candidate \in Offers : Publish(candidate)
  BY <1>2, PublishKeeps
<1>3. CASE \E id \in Ids : ColleagueCreates(id)
  BY <1>3, ColleagueKeepsForm
<1>4. CASE ServeTemplate \/ TemplateLoaded \/ RetryLoad
  BY <1>4, TemplateKeeps
<1>5. CASE Update \/ Submit \/ ServeCreate \/ CreateAnswered
  BY <1>5, UpdateKeeps, SubmitKeeps, CreateKeeps, CreateAnsweredKeeps
<1>6. CASE \/ \E r \in requests : ServePage(r) \/ PageAnswered(r)
           \/ OlderContracts \/ ReturnToNewest \/ RetryPage \/ EffectRuns
           \/ \E query \in Addresses : Visit(query)
  BY <1>6, FormUntouched
     DEF ServePage, PageAnswered, OlderContracts, ReturnToNewest, RetryPage, EffectRuns,
         Visit, GoTo, database, form
<1> QED BY <1>1, <1>2, <1>3, <1>4, <1>5, <1>6 DEF Next

\* At any time what the form shows is of a version that is there, what it sent is what
\* it shows, and what was saved for it holds as much (ContractCreationForm).
THEOREM FormInvariant == Spec => []FormInv
<1>1. ListInv => RowsAreTimed
  BY DEF ListInv
<1>2. FormInv /\ ListInv /\ [Next]_vars => FormInv'
  BY <1>1, FormNext
<1> QED BY <1>2, FormInit, ListInvariant, PTL DEF Spec

\* "Saved Draft" is only said of a contract that holds what the form showed.
THEOREM SavedDraftsAreStored == Spec => []SavedIsStored
<1>1. ASSUME FormInv
      PROVE  SavedIsStored
  <2> SUFFICES ASSUME creation.status = "saved"
               PROVE  StoredAsTyped(creation.id, creation.version, creation.form)
    BY DEF SavedIsStored, StoredAsTyped, ShownFields
  <2> QED BY <1>1 DEF FormInv, CreationInv, Stored
<1> QED BY <1>1, FormInvariant, PTL

\* A body, or an edit, resolves to the overlay of what it supplies over the defaults the
\* definition gives, if that fits the definition, and to issues otherwise
\* (resolveContractValues, resolveDraftEditValues): so of every definition and every body,
\* and therefore in every state.
THEOREM BodiesResolveToOverlays == EveryBodyOverlaid /\ (Spec => []ResolvesToOverlay)
<1>1. ResolvesToOverlay
  BY EveryBodyIsOverlaid DEF ResolvesToOverlay
<1> QED BY <1>1, EveryBodyIsOverlaid, PTL

\* The form of a contract that is sent untouched asks for the values the contract has
\* (createContractValueForm, serializeContractValueForm and resolveDraftEditValues):
\* so of every contract, and therefore in every state.
THEOREM UntouchedFormsAreKept == EveryFormKept /\ (Spec => []UntouchedEditKeepsValues)
<1>1. UntouchedEditKeepsValues
  BY EveryFormIsKept DEF UntouchedEditKeepsValues
<1> QED BY <1>1, EveryFormIsKept, PTL

\* Two definitions are taken for equal exactly when one is the other with fields and
\* options moved around, and then no body tells them apart (templateDefinitionsEqual):
\* so of any two, and therefore in every state.
THEOREM EqualDefinitionsAreReordered ==
  EqualIsReordered /\ (Spec => []UnchangedIsReordered)
<1>1. UnchangedIsReordered
  BY EqualIsMoved DEF UnchangedIsReordered
<1> QED BY <1>1, EqualIsMoved, PTL

=============================================================================
