---------------------------- MODULE MCStructured ----------------------------
(* An instance of StructuredRetrieval for TLC. *)
EXTENDS StructuredRetrieval

CONSTANTS r1, r2

MCRequests == {r1, r2}

Asks(shape, year, counts) == [shape |-> shape, year |-> year, counts |-> counts]
Schema0 == Asks("schema", FALSE, FALSE)
Ambiguous == Asks("ambiguous", FALSE, FALSE)
Alone(q, g) == [questions |-> r1 :> q @@ r2 :> NoQuestion, graph |-> g]

\* One request alone all the way, or two that read the schema while the graph
\* changes and a job clears the cache.
MCAsked ==
    {Alone(q, 2) : q \in {Asks("plain", FALSE, FALSE), Asks("nested", TRUE, FALSE), Asks("plain", FALSE, TRUE)}}
    \cup {Alone(Ambiguous, 1), [questions |-> [r \in MCRequests |-> Schema0], graph |-> 1]}

Customers == <<"Customer", "PLACED", "Order">>
Orders == <<"Order", "CONTAINS", "Item">>

MCGraphs == <<
    [schema |-> <<Customers>>, props |-> "Customer" :> {"name"} @@ "Order" :> {"total"}],
    [schema |-> <<Customers, Orders>>,
     props |-> "Customer" :> {"name"} @@ "Order" :> {"total"} @@ "Item" :> {"price"}]>>

Node(v, l) == [var |-> v, label |-> l]
Query(nodes, hops, reads, slips, figure) ==
    [nodes |-> nodes, hops |-> hops, scoped |-> {}, reads |-> reads, slips |-> slips,
     idiom |-> FALSE, dated |-> FALSE, figure |-> figure, takes |-> FALSE]
Right(rel) == <<[rel |-> rel, dir |-> "fwd"]>>
Left(rel) == <<[rel |-> rel, dir |-> "rev"]>>

Placed == Query(<<Node("c", "Customer"), Node("o", "Order")>>, Right("PLACED"), {<<"c", "name">>}, {}, FALSE)
PlacedBy == Query(<<Node("o", "Order"), Node("c", "Customer")>>, Left("PLACED"), {<<"c", "name">>}, {}, FALSE)
WrongWay == Query(<<Node("o", "Order"), Node("c", "Customer")>>, Right("PLACED"), {<<"o", "tax">>}, {}, TRUE)
Far == [Query(<<Node("c", "Customer"), Node("i", "Item")>>, Right("BOUGHT"), {<<"i", "price">>}, {"paren"}, TRUE)
           EXCEPT !.takes = TRUE]
Salaries == [Query(<<Node("c", "Customer")>>, <<>>, {<<"c", "salary">>}, {}, TRUE) EXCEPT !.idiom = TRUE]

MCGenerated == {Placed, PlacedBy, WrongWay, Far, Salaries}
MCPlans == {<<Placed, Far>>}
MCExempt == {"User", "Role"}
=============================================================================
