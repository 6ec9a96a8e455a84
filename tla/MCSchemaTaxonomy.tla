-------------------------- MODULE MCSchemaTaxonomy --------------------------
EXTENDS SchemaTaxonomy
SV == INSTANCE SchemaValidator

CONSTANTS here, there, pub, pub2, far,
          work, spec, created, closed, draft, fix   \* segments

\* Two events share the topic of work.spec, one is registered by nobody, and one has
\* too few segments.
Created == <<work, spec, created>>
Closed  == <<work, spec, closed>>
Drafted == <<work, draft, created>>
Short   == <<work, fix>>

MCTypes == {Created, Closed, Drafted, Short}
MCSorted == <<Short, Drafted, Closed, Created>>
MCTaxonomy == [e \in {Created, Closed} |-> IF e = Created THEN "loose" ELSE "other"]

MCExtensions == {<<Created, "strict">>, <<Closed, "broken">>, <<Drafted, "">>,
                 <<Short, "loose">>}

\* Sources of schemas: that of dataSchema, one that asks for a feature, one of a
\* different event, and one that does not parse.
Sources == {"loose", "strict", "other"}
Feature == [feature_id |-> [type |-> "string"]]
Tree(s) == IF s = "strict" THEN SV!dataSchema({"feature_id"}, Feature)
           ELSE IF s = "loose" THEN SV!dataSchema({}, Feature)
           ELSE SV!dataSchema({}, [n |-> [type |-> "integer", minimum |-> 0]])

Data(metadata) ==
  SV!Object([resource_type |-> SV!Text(<<"r">>), resource_id |-> SV!Text(<<"i">>),
             timestamp |-> SV!Text(<<"t">>), metadata |-> metadata])
Payload == [full  |-> Data(SV!Object([feature_id |-> SV!Text(<<"f">>)])),
            empty |-> Data(SV!Object(<<>>))]

MCAccepts == {<<s, p>> \in Sources \X DOMAIN Payload :
                SV!validateNode(Tree(s), Payload[p], <<>>) = {}}

Event(e, p) == [type |-> e, payload |-> p]
MCBatches ==
  {<<Event(Created, "empty"), Event(Closed, "full")>>,
   <<Event(Closed, "empty")>>,
   <<Event(Drafted, "full")>>, <<Event(Short, "full")>>}

MCProcesses == {here, there}
MCPublishers == {pub, pub2}
MCConsumers == {far}
MCAsync == {pub2}
MCProcessOf == [g \in {pub, pub2, far} |-> IF g = far THEN there ELSE here]
-----------------------------------------------------------------------------
\* Documents and schema nodes for the validator: every keyword, alone and beside
\* another, at the root, in a field and in an item.
Word == <<"a", "b">>
Scalars == {SV!Null, SV!Bool(TRUE), SV!Text(<<>>), SV!Text(Word), SV!Half(-2), SV!Half(3), SV!Half(4)}
Fields == UNION {[ks -> Scalars] : ks \in SUBSET {"f", "g"}}
Documents == Scalars \union {SV!Object(o) : o \in Fields}
               \union {SV!Array(<<>>)} \union {SV!Array(<<v, SV!Text(Word)>>) : v \in Scalars}
Deep == {SV!Object([f |-> d]) : d \in Documents} \union {SV!Array(<<d, SV!Half(4)>>) : d \in Documents}

TypeNames == {"object", "array", "string", "number", "integer", "boolean", "null"}
Leaves == {[type |-> t] : t \in TypeNames} \union
  {[minLength |-> 1], [maxLength |-> 1], [minLength |-> 1, maxLength |-> 2],
   [minimum |-> -1, maximum |-> 3], [type |-> "integer", minimum |-> 4],
   [type |-> "string", enum |-> {SV!Text(Word)}], [enum |-> {}], <<>>}
Inner == Leaves \union
  {[required |-> r, properties |-> [f |-> l]] : r \in SUBSET {"f", "g"}, l \in Leaves}
    \union {[type |-> "array", items |-> l] : l \in Leaves}
Nodes == Inner \union
  {[type |-> "object", properties |-> [f |-> l], required |-> {"f"}] : l \in Inner}
    \union {[items |-> l] : l \in Inner}
    \union {SV!dataSchema({}, Feature), SV!dataSchema({"feature_id"}, Feature)}

\* The validator stops at a value of the wrong type, leaves out nulls and goes into
\* fields and items by recursion (schema_validator.go:219-275). It finds an error
\* exactly if some place of the document does not meet what the schema says of it.
\* No variable is read: the initial state is as good as any to evaluate it in.
ValidatorAgrees ==
  Init => \A node \in Nodes, d \in Documents \union Deep \union {Payload[p] : p \in DOMAIN Payload} :
    SV!validateNode(node, d, <<>>) = {} <=>
      \A place \in SV!Places(node, d) : SV!Meets(place[1], place[2])

=============================================================================
