------------------------------ MODULE MCPackaging ------------------------------
(* Checkouts of three versions around the lists' corner cases.               *)
EXTENDS Packaging, TLC

readme == <<"README.md">>
readmeEs == <<"README.es.md">>
template == <<"templates", "PRD.md">>
numbered == <<"templates", "001-example.md">>
dotted == <<"templates", "a..b.md">>
roadmap == <<"ROADMAP.md">>

SomePaths == {VERSION, readme, readmeEs, template, numbered, dotted, roadmap}
SomeEntries == {File(readme), File(readmeEs), Tree(<<"templates">>)}

Of(version, paths) ==
  [files |-> [p \in SomePaths |-> IF p = VERSION /\ p \in paths THEN version
                                  ELSE IF p \in paths THEN 1 ELSE Absent],
   links |-> {}, bare |-> {}]

\* Complete; with a link of each kind and no optional file; without VERSION, a
\* required file, a required directory's files, the directory.
SomeCheckouts ==
  {Of(v, {VERSION, readme, readmeEs, template, roadmap}) : v \in {1, 2}}
    \cup {[Of(3, {VERSION, readme, template, numbered, dotted}) EXCEPT !.links = {readme, template}],
          Of(2, {readme, template}), Of(2, {VERSION, template}),
          Of(2, {VERSION, readme}),
          [Of(2, {VERSION, readme}) EXCEPT !.bare = {<<"templates">>}]}
=================================================================================
