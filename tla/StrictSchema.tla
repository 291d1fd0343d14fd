----------------------------- MODULE StrictSchema -----------------------------
(***************************************************************************)
(* Tool schemas in OpenAI's strict form, and the way back (strict_schema,  *)
(* _nullable and prune_introduced_nulls in                                 *)
(* src/dainframe/providers/openai.py).                                     *)
(*                                                                         *)
(* A document is a function from its positions.  A position of a JSON      *)
(* value is the sequence of steps that leads to it, into a field of an     *)
(* object or an element of a list; what is there is null, an atom, or the  *)
(* mark of an object or a list.  A position of a schema is a sequence of   *)
(* property names, with Item for the items of a list; what is there is     *)
(* what that subschema says by itself.  The recursions of the code visit a *)
(* position after the ones that lead to it, and take from there no more    *)
(* than the one before.                                                    *)
(***************************************************************************)
EXTENDS Naturals, FiniteSets, SequencesExt

Item == "[]"
Field(n) == <<n, 0>>
Nth(i) == <<Item, i>>

\* The subschema that describes a position, if the schema has it.
At(p) == [i \in DOMAIN p |-> p[i][1]]

Null == [type |-> "null"]
Atom(a) == [type |-> "string", atom |-> a]
Object == [type |-> "object"]
List == [type |-> "array"]

\* {}
NoFields == [p \in {<<>>} |-> Object]

\* A subschema by itself: the names of its types (none: any), the values of its
\* enum (none: any), the branches of an anyOf (none: no anyOf), whether all this is
\* one branch of an anyOf with null, the properties of an object, which of them
\* are required, and whether others are forbidden.
Branch(types, enum) == [types |-> types, enum |-> enum]
Anything == [types |-> {}, enum |-> {}, anyOf |-> {}, orNull |-> FALSE,
        props |-> {}, required |-> {}, closed |-> FALSE]
NullOnly == Branch({"null"}, {})

\* _nullable: the same schema, also accepting null.
Nullable(n) ==
  IF n.types # {}
    THEN [n EXCEPT !.types = @ \cup {"null"}, !.enum = IF @ = {} THEN {} ELSE @ \cup {Null}]
  ELSE IF n.anyOf # {}
    THEN [n EXCEPT !.anyOf =
            IF \E b \in @ : b.types = {"null"} THEN @ ELSE @ \cup {NullOnly}]
    ELSE [n EXCEPT !.orNull = TRUE]

IsObject(n) == n.types = {"object"} \/ n.props # {}

Tight(n) == IF IsObject(n) THEN [n EXCEPT !.required = n.props, !.closed = TRUE] ELSE n

\* A property that the schema leaves optional.
Optional(s, at) ==
  at # <<>> /\ Last(at) # Item /\ Last(at) \notin s[Front(at)].required

\* strict_schema.
Strict(s) ==
  [at \in DOMAIN s |-> IF Optional(s, at) THEN Nullable(Tight(s[at])) ELSE Tight(s[at])]

\* Whether the null at position c is dropped: it is a field of an object that the
\* schema describes.
InDescribed(u, s, c) ==
  c # <<>> /\ u[Front(c)].type = "object" /\ At(Front(c)) \in DOMAIN s

\* Mutant: every null is taken for one that strict mode introduced.
NullErased(u, s, c) == InDescribed(u, s, c) /\ u[c] = Null

Erased(u, s, c) ==
  InDescribed(u, s, c) /\ u[c] = Null /\ Last(c)[1] \notin s[At(Front(c))].required

\* The positions that stay: nothing on the way there is dropped.
Kept(u, s) == {p \in DOMAIN u : \A c \in Prefixes(p) : ~Erased(u, s, c)}

\* prune_introduced_nulls: a property or an item no schema describes is kept as
\* it came.
Prune(u, s) == [p \in Kept(u, s) |-> u[p]]

-----------------------------------------------------------------------------
(***************************************************************************)
(* The model's side: what a schema lets it say, and how it says what it    *)
(* means when every property must be given.                                *)
(***************************************************************************)

\* The names of the fields of the object at p.
Names(v, p) == {Last(c)[1] : c \in {x \in DOMAIN v : x # <<>> /\ Front(x) = p}}

Allows(b, x) == (b.types # {} => x.type \in b.types) /\ (b.enum # {} => x \in b.enum)

\* What node n says of the value at p.
Admits(n, v, p) ==
  \/ n.orNull /\ v[p] = Null
  \/ /\ Allows(n, v[p])
     /\ n.anyOf # {} => \E b \in n.anyOf : Allows(b, v[p])
     /\ v[p].type = "object" =>
          /\ n.required \subseteq Names(v, p)
          /\ n.closed => Names(v, p) \subseteq n.props

Accepts(s, v) == \A p \in DOMAIN v : At(p) \in DOMAIN s => Admits(s[At(p)], v, p)

\* The calls a model may mean: their objects have the properties that the schema
\* names.  Null on an optional field is no meaning of its own: the schema's author
\* gave it none.
Fits(s, v) ==
  /\ Accepts(s, v)
  /\ \A c \in DOMAIN v : InDescribed(v, s, c) =>
       /\ Last(c)[1] \in s[At(Front(c))].props
       /\ v[c] = Null => Last(c)[1] \in s[At(Front(c))].required

Described(v, s) == {p \in DOMAIN v : v[p].type = "object" /\ At(p) \in DOMAIN s}

\* The meaning with null for every property that is left alone.
Said(v, s) ==
  LET given == UNION {{Append(p, Field(n)) : n \in s[At(p)].props} : p \in Described(v, s)}
  IN  [p \in DOMAIN v \cup given |-> IF p \in DOMAIN v THEN v[p] ELSE Null]

-----------------------------------------------------------------------------
(***************************************************************************)
(* Documents.                                                              *)
(***************************************************************************)

\* A value: fields are of objects and elements of lists.
IsValue(v) ==
  /\ v = [p \in DOMAIN v |-> v[p]]
  /\ <<>> \in DOMAIN v
  /\ \A p \in DOMAIN v : p \in Seq(STRING \X Nat) /\ Prefixes(p) \subseteq DOMAIN v
  /\ \A p \in DOMAIN v : v[p].type = "null" => v[p] = Null
  /\ \A p \in DOMAIN v \ {<<>>} :
       \/ /\ v[Front(p)].type = "object"
          /\ Last(p)[1] # Item /\ Last(p) = Field(Last(p)[1])
       \/ v[Front(p)].type = "array" /\ Last(p)[1] = Item

\* A source schema: enums and the branches of an anyOf list scalars, and an anyOf
\* stands alone (_nullable widens only one of a type, with its enum, and an anyOf;
\* prune_introduced_nulls does not look into an anyOf).
IsScalar(b) ==
  /\ b = Branch(b.types, b.enum)
  /\ b.types \cap {"object", "array"} = {}
  /\ b.types # {} \/ b.enum # {}
  /\ b.types = {"null"} => b = NullOnly

IsNode(n) ==
  /\ n \in [types : {n.types}, enum : {n.enum}, anyOf : {n.anyOf}, orNull : BOOLEAN,
            props : {n.props}, required : {n.required}, closed : BOOLEAN]
  /\ ~n.orNull
  /\ \A x \in n.enum \cup UNION {b.enum : b \in n.anyOf} : x.type \notin {"object", "array"}
  /\ n.anyOf # {} => n.types = {} /\ n.enum = {} /\ n.props = {}
  /\ \A b \in n.anyOf : IsScalar(b)

IsSchema(s) ==
  /\ s = [at \in DOMAIN s |-> s[at]]
  /\ <<>> \in DOMAIN s
  /\ \A at \in DOMAIN s :
       /\ at \in Seq(STRING)
       /\ IsNode(s[at])
       /\ s[at].props \subseteq STRING \ {Item}
       /\ \A n \in s[at].props : Append(at, n) \in DOMAIN s
       /\ at # <<>> => /\ Front(at) \in DOMAIN s
                       /\ Last(at) = Item \/ Last(at) \in s[Front(at)].props
=============================================================================
