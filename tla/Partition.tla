------------------------------- MODULE Partition -------------------------------
(***************************************************************************)
(* Framework files and team data, src/tools/cli/src/partition.ts.  A path   *)
(* is the sequence of its names; the shapes "[0-9][0-9][0-9]-*.md",         *)
(* "ADR-...", "AgDR-..." are the set Numbered of names that have them, and  *)
(* Dotted is the set of names with ".." somewhere in them.                  *)
(***************************************************************************)
EXTENDS Naturals, Sequences

CONSTANTS Numbered, Dotted

ASSUME NumberedAssumption ==
  Numbered \cap {"CLAUDE.md", "CONVENTIONS.md", "README.md", "README.es.md", "LICENSE"} = {}

\* "a/b", "a/b/**" and "a/b/*".
File(at) == [at |-> at, kind |-> "file"]
Tree(at) == [at |-> at, kind |-> "tree"]
Children(at) == [at |-> at, kind |-> "children"]

Below(path, dir) == Len(path) > Len(dir) /\ \A i \in 1 .. Len(dir) : path[i] = dir[i]

matches(path, entry) ==
  CASE entry.kind = "file" -> path = entry.at
    [] entry.kind = "tree" -> Below(path, entry.at)
    [] OTHER -> Below(path, entry.at) /\ Len(path) = Len(entry.at) + 1

FRAMEWORK_FILES ==
  {File(<<name>>) : name \in {"CLAUDE.md", "CONVENTIONS.md", "README.md", "README.es.md",
                              "LICENSE"}}
    \cup {Tree(<<"templates">>), Tree(<<"examples">>), Tree(<<"specforge", "core">>),
          Tree(<<".claude", "rules">>), Tree(<<".claude", "agents", "specforge">>),
          File(<<"scripts", "prd-check.py">>),
          File(<<".claude", "hooks", "specforge_lock_guard.py">>)}
    \cup {File(<<"specforge", "scripts", name>>) :
            name \in {"lock_tests.py", "loop.py", "review_prep.py", "archive.py",
                      "compose_check.py"}}
    \cup {Tree(<<".claude", "skills", name>>) :
            name \in {"specforge-classify", "specforge-loop", "specforge-review",
                      "specforge-compose"}}

BUNDLE_ONLY_FILES == {File(<<"VERSION">>)}

TEAM_DATA_PATTERNS ==
  {File(<<name>>) : name \in {"SIBLINGS.md", "ROADMAP.md", ".specforge-source"} \cup Numbered}
    \cup {Tree(<<".specforge">>), Children(<<".github", "workflows">>),
          Tree(<<"specforge", "changes">>), File(<<"specforge", "DECISIONS.md">>)}

IGNORED_PATTERNS ==
  {Tree(<<name>>) : name \in {".git", "node_modules", "dist", "build"}}
    \cup {File(<<name>>) : name \in {".gitignore", ".gitattributes", ".DS_Store", "Thumbs.db"}}

matchesAny(path, patterns) == \E e \in patterns : matches(path, e)

\* Of relative paths.
classify(path) ==
  IF \E i \in DOMAIN path : path[i] \in Dotted THEN "ignored"
  ELSE IF matchesAny(path, IGNORED_PATTERNS) THEN "ignored"
  ELSE IF matchesAny(path, FRAMEWORK_FILES) THEN "framework"
  ELSE IF matchesAny(path, TEAM_DATA_PATTERNS) THEN "team"
  ELSE "unknown"
=================================================================================
