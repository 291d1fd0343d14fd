------------------------------ MODULE MCToolCalls ------------------------------
(***************************************************************************)
(* ToolCalls for TLC: a table of two providers, hints it can and cannot    *)
(* honour, and tools with required, optional, nullable, enumerated, nested *)
(* and listed inputs.                                                      *)
(***************************************************************************)
EXTENDS ToolCalls, TLC

Hinted(provider, model, effort) ==
  [provider |-> provider, model |-> model, effort |-> effort]

MCHints ==
  {Hinted("openai", Absent, "none"),        \* default model
   Hinted("openai", "nova", Absent),
   Hinted(Absent, Absent, "none"),          \* not a level of the default provider
   Hinted("mystery", "nova", Absent)}       \* no builder

MCBuilders == {"anthropic", "openai"}
MCDefaultModels == "anthropic" :> "sage" @@ "openai" :> "terra"
MCEffortLevels == "anthropic" :> {"low"} @@ "openai" :> {"none", "low"}
MCHome == [provider |-> "anthropic", model |-> "sage"]
MCWirings == {[resolver |-> TRUE, home |-> "table"],
              [resolver |-> FALSE, home |-> "private"]}

\* The document with `root` at its root and, a step from there, the documents of f.
Graft(root, f) ==
  LET below == UNION {{Cons(x, p) : p \in DOMAIN f[x]} : x \in DOMAIN f}
  IN  [p \in {<<>>} \cup below |-> IF p = <<>> THEN root ELSE f[Head(p)][Tail(p)]]
Leaf(x) == <<>> :> x

\* Schemas: a note; one that may be null; a choice; an anyOf; objects and lists.
Note == Leaf([Anything EXCEPT !.types = {"string"}])
NoteOrNull == Leaf([Anything EXCEPT !.types = {"string", "null"}])
Choice == Leaf([Anything EXCEPT !.enum = {Atom("x")}])
TypedChoice == Leaf([Anything EXCEPT !.types = {"string"}, !.enum = {Atom("x")}])
MaybeNote == Leaf([Anything EXCEPT !.anyOf = {Branch({"string"}, {}), NullOnly}])
EitherNote == Leaf([Anything EXCEPT !.anyOf = {Branch({"string"}, {}), Branch({}, {Atom("x")})}])
Of(props, required) ==
  Graft([Anything EXCEPT !.types = {"object"}, !.props = DOMAIN props, !.required = required],
        props)
ListOf(s) == Graft([Anything EXCEPT !.types = {"array"}], Item :> s)
Person == Of("name" :> NoteOrNull @@ "mood" :> TypedChoice, {"name"})

MCTools ==
  {Of("who" :> Person @@ "kind" :> Choice @@ "tone" :> EitherNote, {}),
   Of("people" :> ListOf(Person), {"people"}),
   Of("lines" :> ListOf(NoteOrNull) @@ "why" :> MaybeNote, {"why"})}

\* Values: objects with the required names and some of the others, and lists of no
\* or two items.
X == Leaf(Atom("x"))
ObjectsOf(values, required) ==
  LET names == {some \in SUBSET DOMAIN values : required \subseteq some}
      any == UNION {values[n] : n \in DOMAIN values}
      fields == {f \in UNION {[some -> any] : some \in names} :
                   \A n \in DOMAIN f : f[n] \in values[n]}
  IN  {Graft(Object, [x \in {Field(n) : n \in DOMAIN f} |-> f[x[1]]]) : f \in fields}
ListsOf(values) ==
  {Graft(List, [x \in {Nth(i) : i \in DOMAIN l} |-> l[x[2]]]) :
     l \in UNION {[1..k -> values] : k \in {0, 2}}}

MCInputs ==
  LET null == Leaf(Null)
      person == ObjectsOf("name" :> {null} @@ "mood" :> {X}, {"name"})
  IN  ObjectsOf("who" :> person @@ "kind" :> {X} @@ "tone" :> {X}, {})
      \cup ObjectsOf("people" :> ListsOf(person), {"people"})
      \cup ObjectsOf("lines" :> ListsOf({X, null}) @@ "why" :> {null}, {"why"})
=============================================================================
