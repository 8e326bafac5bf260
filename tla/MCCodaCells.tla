----------------------------- MODULE MCCodaCells -----------------------------
(* CodaCells on a small instance; the bounds are given in the .cfg file.   *)
EXTENDS CodaCells

SomeTexts ==
    {"", "null", "false", "true", "1.5", "1.5000000000000002", "nan", "inf", "-inf", "[1]"}

SomeNumbers == {"1.5", "1.5000000000000002"}

SomeKinds ==
    {[type |-> type, editable |-> TRUE] : type \in Types}
    \cup {[type |-> "VARCHAR", editable |-> FALSE]}

SomeValues == [type \in Types |->
    CASE type = "VARCHAR" -> {Null, "null", "1.5"}
      [] type = "BOOLEAN" -> {Null, "false"}
      [] type = "DOUBLE"  -> {Null, "1.5", "nan"}]

\* An array, a number, the text of a number, and a truth value.
SomeCells ==
    {[kind |-> "compound", text |-> "[1]"], [kind |-> "number", text |-> "1.5"],
     [kind |-> "string", text |-> "1.5"], [kind |-> "bool", text |-> "true"]}

\* Coda keeps every value as it is, or takes the text of a number for a number and
\* an empty cell for the empty text.
SomeParsings ==
    {<<>>,
     [j \in {[kind |-> "string", text |-> "1.5"], JsonNull} |->
        IF j = JsonNull THEN [kind |-> "string", text |-> ""]
        ELSE [kind |-> "number", text |-> "1.5"]]}

\* A number comes back as itself or as its neighbour.
SomeRereads == [text \in Texts |-> IF text = "1.5" THEN Numbers ELSE {text}]

SomeCasts == [type \in Types |->
    CASE type = "BOOLEAN" -> [t \in {"true", "false"} |-> t]
      [] type = "DOUBLE"  -> [t \in Numbers \cup {"nan"} |-> t]
      [] OTHER            -> [t \in {} |-> t]]
=============================================================================
