-------------------------- MODULE MCWorkspaceHome --------------------------
EXTENDS WorkspaceHome

Field(key, type, required, options, default) ==
  [key |-> key, label |-> "Label", type |-> type, required |-> required,
   options |-> options, default |-> default]

TextField(required, default) == Field("t", "text", required, None, default)
NumberField(required, default) == Field("n", "number", required, None, default)
DateField(default) == Field("d", "date", FALSE, None, default)
Flag(required) == Field("b", "boolean", required, None, None)
Choice(key, options, default) == Field(key, "enum", FALSE, options, default)

\* Definitions with fields of every type, some with a fault: a default of
\* another type, blank, no date or no option, options that agree when they are
\* trimmed, and two fields with one key.
MCCandidates ==
  {<<TextField(TRUE, None), NumberField(FALSE, Number("7"))>>,
   <<TextField(FALSE, Text("x"))>>,
   <<TextField(FALSE, None), NumberField(FALSE, Number("7"))>>,
   <<NumberField(FALSE, Number("7")), TextField(FALSE, None)>>,
   <<NumberField(TRUE, Number("-0")), Flag(FALSE)>>,
   <<Choice("t", <<"x", "z">>, Text("x")), DateField(None)>>,
   <<DateField(None), Choice("t", <<"z", " x">>, Text("x"))>>,
   <<Choice("t", <<"x", "z">>, Text("x")), DateField(Text("2028-02-29"))>>,
   <<Flag(TRUE), Choice("n", <<"x">>, None)>>,
   <<TextField(TRUE, Text(" "))>>,
   <<NumberField(FALSE, Text("x")), Flag(TRUE)>>,
   <<DateField(Text("x"))>>,
   <<Choice("t", <<"x", " x">>, None)>>,
   <<Choice("t", <<"x">>, Text("z"))>>,
   <<NumberField(FALSE, Number("7")), Choice("n", <<"x">>, None)>>,
   <<TextField(FALSE, None), Choice("n", <<"x", "7">>, Text("7")), Choice("n", <<"x">>, None)>>}

MCValues ==
  {Text("x"), Text(""), Text(" "), Text("2028-02-29"), Number("0"),
   Number("-0"), Number("7"), Boolean("false"), Null}

\* Bodies name at most two keys, one of which no definition has.
MCBodies ==
  UNION {[ks -> MCValues] :
           ks \in {k \in SUBSET {"t", "n", "d", "b", "u"} : Cardinality(k) <= 2}}

MCClears ==
  {f \in UNION {[ks -> {1, 2}] : ks \in SUBSET {"t", "n", "u"}} :
     Cardinality(DOMAIN f) <= 2}

MCTrimmed == [s \in {" x", " "} |-> IF s = " x" THEN "x" ELSE ""]
MCNumberOf ==
  [s \in {"", "7", "0", "-0", "x"} |->
     CASE s = "" -> "0" [] s = "x" -> "NaN" [] OTHER -> s]

\* Four of them, in which text, number, choice, date and flag are optional and
\* required, with a default and without.
MCOffers ==
  {<<TextField(FALSE, Text("x"))>>,
   <<TextField(TRUE, None), NumberField(FALSE, Number("7"))>>,
   <<NumberField(TRUE, Number("-0")), Flag(FALSE)>>,
   <<Choice("t", <<"x", "z">>, Text("x")), DateField(None)>>}

\* Values each of them resolves.
MCColleagues == {"t" :> Text("x"), "n" :> Number("7")}

MCInputs ==
  [y \in Types |-> CASE y = "number" -> {"", "-0"}
                     [] y = "boolean" -> {"", "false"}
                     [] y = "date" -> {"", "2028-02-29"}
                     [] OTHER -> {"", "x"}]

MCAddresses ==
  {Newest, [limit |-> 0, after |-> None], [limit |-> 2, after |-> None]}

=============================================================================
