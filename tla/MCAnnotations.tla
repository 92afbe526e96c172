--------------------------- MODULE MCAnnotations ---------------------------
(***************************************************************************)
(* Modules with a variable, an entry point and two decoration groups:      *)
(* debug names and modes, then up to four annotations, then definitions.   *)
(***************************************************************************)
EXTENDS Annotations

MCIds == {"var", "fn", "g", "h"}
MCAnns == {"a", "b", "c", "main", "mode"}

Apply(g, ts) == [op |-> "GroupDecorate", id |-> g, ann |-> NoName, targets |-> ts]
Definition(op, i) == Annotation(op, i, NoName)

(* Every decoration of a module says something else. *)
Alphabet(n) ==
  {Annotation("Decorate", i, n) : i \in {"var", "g", "h"}}
    \cup {Annotation(op, "var", n) : op \in {"Linkage", "MemberDecorate"}}
    \cup {Definition("Group", g) : g \in {"g", "h"}}
    \cup {Apply("g", {"var"}), Apply("g", {"var", "fn"}), Apply("h", {"var"})}

(* A group is defined once, after its decorations, and then applied; it would *)
(* take a member decoration before it, which decorateTargets asserts is none. *)
LegalGroups(m) ==
  \A i, j \in 1 .. Len(m) : i < j =>
    /\ m[i].op = "Group" /\ m[j].op \in Decorations \cup {"Group"} => m[i].id # m[j].id
    /\ m[i].op = "GroupDecorate" /\ m[j].op = "Group" => m[i].id # m[j].id
    /\ m[i].op = "MemberDecorate" => m[j].op # "Group"

GroupsDefined(m) ==
  \A j \in 1 .. Len(m) : m[j].op = "GroupDecorate" =>
    \E i \in 1 .. (j - 1) : m[i].op = "Group" /\ m[i].id = m[j].id

Sections ==
  {m \in UNION { {<<w>> : w \in Alphabet("a")},
                 {<<w, x>> : w \in Alphabet("a"), x \in Alphabet("b")},
                 {<<w, x, y>> : w \in Alphabet("a"), x \in Alphabet("b"), y \in Alphabet("c")},
                 {<<w, x, y, z>> : w \in Alphabet("a"), x \in Alphabet("b"),
                                   y \in Alphabet("c"), z \in Alphabet("main")} } :
     LegalGroups(m) /\ GroupsDefined(m)}

Preambles ==
  { <<>>,
    <<Annotation("Name", "var", "a")>>,
    <<Annotation("EntryPoint", "fn", "main"), Annotation("Mode", "fn", "mode"),
      Annotation("Name", "var", "b"), Annotation("Name", "g", "c")>> }

Bodies ==
  { <<Definition("Def", "var"), Definition("Function", "fn")>>,
    <<Definition("Function", "fn")>> }

MCModules == {p \o s \o b : p \in Preambles, s \in Sections, b \in Bodies}

=============================================================================
