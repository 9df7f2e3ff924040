--------------------------- MODULE MCBuildDirectory ----------------------------
(***************************************************************************)
(* TLC instances of BuildDirectory: two notes, the second in one of four   *)
(* places, one field at a time taking every pair of values of interest.    *)
(***************************************************************************)
EXTENDS BuildDirectory, TLC

CONSTANTS b1, b2

MCTexts == {"ada", "Ada", "ada note", "note", "...", " ", "Top", "top!", "top", "n1", "n2", "x", "y", "7", "d1", "d2",
            "[[ada]]", "[[x/ada]]", "[[Ada#top!]]", "[[ada#Sub]]", "Sub"}
MCFields == {"aliases", "tags", "journal_entry_date", "related"}

MCFolded == [t \in MCTexts |-> IF t = "Ada" THEN "ada" ELSE IF t = "Top" THEN "top" ELSE t]
MCNormal == [t \in MCTexts |-> IF t = "Ada" THEN "ada" ELSE IF t = " " THEN "" ELSE t]
MCRegionKey == [t \in MCTexts |-> IF t \in {"Top", "top!"} THEN "top" ELSE t]
MCWords ==
  [t \in MCTexts |->
     CASE t \in {"...", " "} -> <<>>
       [] t \in {"ada", "Ada", "[[ada]]"} -> <<"ada">>
       [] t = "ada note" -> <<"ada", "note">>
       [] t \in {"Top", "top!"} -> <<"top">>
       [] t = "[[x/ada]]" -> <<"x", "ada">>
       [] t = "[[Ada#top!]]" -> <<"ada", "top">>
       [] t = "[[ada#Sub]]" -> <<"ada", "Sub">>
       [] OTHER -> <<t>>]
Link(path, name, fragment) == [path |-> path, name |-> name, fragment |-> fragment]
MCLinkIn ==
  [t \in MCTexts |->
     CASE t = "[[ada]]" -> Link(<<>>, "ada", None)
       [] t = "[[x/ada]]" -> Link(<<"x">>, "ada", None)
       [] t = "[[Ada#top!]]" -> Link(<<>>, "Ada", "top!")
       [] t = "[[ada#Sub]]" -> Link(<<>>, "ada", "Sub")
       [] OTHER -> None]
MCDay == [t \in {"d1", "d2"} |-> IF t = "d1" THEN 1 ELSE 2]

Atom(domain, text) == [domain |-> domain, text |-> text]
Str(text) == Atom("string", text)
Field(shape, members) == [shape |-> shape, members |-> members]
Absent == Field("absent", <<>>)
One(atom) == Field("scalar", <<atom>>)
List(atoms) == Field("sequence", atoms)

ValuesOf ==
  [f \in MCFields |->
     CASE f = "aliases" -> {Absent, One(Str("Ada")), List(<<Str("ada note"), Str("Ada")>>), One(Atom("integer", "7"))}
       [] f = "tags" -> {Absent, One(Str("ada note")), List(<<Str("[[ada]]"), Str("...")>>)}
       [] f = "journal_entry_date" ->
            {Absent, Field("blank", <<>>), One(Atom("date", "d1")), One(Atom("date", "d2")), One(Str("d1"))}
       [] OTHER ->
            {Absent, One(Str("[[ada]]")), List(<<Str("[[ada]]"), Str("[[ada]]")>>), List(<<>>),
             List(<<Atom("integer", "7"), Str("ada note")>>), One(Atom("integer", "7")), List(<<Atom("null", "7")>>),
             One(Str("[[x/ada]]")), One(Str("[[Ada#top!]]")), One(Str("[[ada#Sub]]")),
             One(Atom("mapping", "7")), List(<<Atom("sequence", "7")>>)}]

With(f, x) == [g \in MCFields |-> IF g = f THEN x ELSE Absent]
Heading(under, text) == [under |-> under, text |-> text]
Unit(under, text) == [under |-> under, raw |-> text, text |-> text]
Note(uuid, folder, name, fields, headings, units) ==
  [uuid |-> uuid, folder |-> folder, name |-> name, fields |-> fields, headings |-> headings, units |-> units]

First(fields) ==
  Note("n1", <<"x">>, "ada", fields, <<Heading(0, "Top"), Heading(1, "Sub")>>,
       <<Unit(0, "..."), Unit(2, "ada note")>>)
Seconds(fields) ==
  {Note("n2", <<>>, "note", fields, <<>>, <<Unit(0, "[[ada]]")>>),
   Note("n2", <<"x", "y">>, "note", fields, <<Heading(0, "Top"), Heading(0, "top!")>>, <<Unit(1, " ")>>),
   Note("n2", <<>>, "note", fields, <<Heading(0, "...")>>, <<>>),
   Note("n2", <<>>, "Ada", fields, <<>>, <<Unit(0, "[[x/ada]]")>>)}

(* The second note takes a few values of the widest field only.            *)
SecondsOf(f) ==
  IF f = "related"
  THEN {Absent, One(Str("[[ada]]")), List(<<>>), List(<<Atom("integer", "7"), Str("ada note")>>)}
  ELSE ValuesOf[f]
Pairs == UNION {{<<f, x, y>> : x \in ValuesOf[f], y \in SecondsOf(f)} : f \in MCFields}
Plain == <<First(With("tags", One(Str("ada")))), Note("n2", <<>>, "note", With("tags", Absent), <<>>, <<>>)>>
Unindexed == <<First(With("related", One(Atom("mapping", "7"))))>>
Vaults ==
  UNION {{<<First(With(p[1], p[2])), n>> : n \in Seconds(With(p[1], p[3]))} : p \in Pairs}
    \cup {<<>>, Plain, Unindexed, <<Plain[1], Plain[1]>>, <<[Plain[2] EXCEPT !.uuid = None]>>,
          <<Plain[2]>>}

Alone == {b1 :> v @@ b2 :> None : v \in Vaults}
Together == {b1 :> Plain @@ b2 :> v : v \in {Plain, Unindexed, <<>>}}
MCScenarios == Alone \cup Together

MCDescribed == {MCFields, {"aliases"}}

Asked(operator, dims, targets, operands) ==
  {[operator |-> operator, class |-> d[1], name |-> d[2], target |-> target,
    shape |-> o[1], domain |-> o[2], parts |-> o[3]] : d \in dims, target \in targets, o \in operands}
Targets == {"complete_value", "member"}
Word(t) == <<"scalar", "string", <<t>>>>

MCRequests ==
  Asked("exact.equals",
        {Identifier("related"), Identifier("tags"), <<"region", "region_path">>, <<"semantic_path", "path_component">>,
         <<"intrinsic", "raw_markdown">>}, Targets,
        {Word("Ada"), <<"scalar", "integer", <<"7">>>>, <<"ordered_sequence", "string", <<"Top", "Sub">>>>})
  \cup Asked("lexical.terms", {Identifier("related"), Identifier("tags"), <<"region", "region_text">>}, Targets,
             {Word("ada"), Word("ada note")})
  \cup Asked("lexical.phrase", {Identifier("tags"), <<"semantic_path", "path_component">>}, {"complete_value"},
             {Word("ada note"), Word(" ")})
  \cup Asked("temporal.earliest", {Identifier(TemporalField), Identifier("related")}, {"complete_value"}, {Word("d1")})
  \cup Asked("temporal.between", {Identifier(TemporalField)}, {"complete_value"},
             {<<"scalar", "date", <<"d1", "d2">>>>, <<"scalar", "date", <<"d2", "d1">>>>})
  \cup Asked("graph.discovery.terms", {<<"semantic_object", "tag">>, <<"semantic_region", "address_text">>}, {"none"},
             {Word("ada"), Word("ada note")})
  \cup Asked("graph.relation_occurrence_lookup",
             {Identifier("related"), Identifier("tags"), <<"body_wikilink", "linked_to">>}, {"none"}, {Word("ada")})
  \cup Asked("vector.semantic_similarity", {<<"none", "none">>}, {"none"}, {Word("ada")})
===============================================================================
