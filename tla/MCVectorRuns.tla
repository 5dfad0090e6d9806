---------------------------- MODULE MCVectorRuns ----------------------------
(* Three clients on one node or on two, and small datasets. *)
EXTENDS VectorRuns

CONSTANTS c1, c2, c3, n1, n2

OneNode == (c1 :> n1) @@ (c2 :> n1) @@ (c3 :> n1)
TwoNodes == (c1 :> n1) @@ (c2 :> n2) @@ (c3 :> n1)

-----------------------------------------------------------------------------

Field(name, type, dtype, dimensions, length, max) ==
    [name |-> name, type |-> type, dtype |-> dtype, dimensions |-> dimensions,
     length |-> length, max |-> max]
Vector(dtype, dimensions) == Field("embedding", "vector", dtype, dimensions, <<>>, <<>>)
Title == Field("title", "text", <<>>, <<>>, <<"variable">>, <<3>>)
Category == Field("category", "tag", <<>>, <<>>, <<>>, <<2>>)
Price == Field("price", "numeric", <<>>, <<>>, <<>>, <<>>)

Keys(present, pattern, length, max) ==
    [present |-> present, pattern |-> pattern, length |-> length, max |-> max]

Schema(fields, records, keySection, queryFields, idType) ==
    [version |-> 1, fields |-> fields, records |-> records, keys |-> keySection,
     queries |-> [present |-> TRUE, count |-> <<2>>, fields |-> queryFields],
     truth |-> [present |-> TRUE, k |-> <<2>>, idType |-> idType]]

NoFields == [prefix |-> 5, tag |-> <<>>, numeric |-> <<>>, nocontent |-> TRUE]
TagAndNumbers == [prefix |-> 4, tag |-> <<12>>, numeric |-> <<20, 12>>, nocontent |-> FALSE]

(* Vectors only; a record of all types of fields, with keys in the file and  *)
(* queries of two fields; files of which the first and the last are left, of *)
(* small numbers and of floats.                                              *)
MCDatasets ==
    [plain |-> [schema |-> Schema(<<Vector(<<>>, <<2>>)>>, 4, Keys(FALSE, <<"key">>, <<>>, <<>>), <<>>, <<>>),
                nearest |-> <<<<1, 3, 0, 2>>, <<3, 1, 2, 0>>>>, count |-> 0, offset |-> 0, search |-> NoFields],
     mixed |-> [schema |-> Schema(<<Title, Vector(<<"float32">>, <<1>>), Category, Price>>, 4,
                                  Keys(TRUE, <<>>, <<>>, <<3>>), <<<<"price", "embedding">>>>, <<"u32">>),
                nearest |-> <<<<1, 3, 0, 2>>, <<3, 1, 2, 0>>>>, count |-> 0, offset |-> 0, search |-> TagAndNumbers],
     window |-> [schema |-> Schema(<<Category, Vector(<<"int8">>, <<3>>)>>, 6,
                                   Keys(TRUE, <<>>, <<"variable">>, <<2>>), <<<<"embedding">>>>, <<"u64">>),
                 nearest |-> <<<<1, 3, 0, 2, 4, 5>>, <<3, 1, 2, 0, 5, 4>>>>, count |-> 4, offset |-> 1, search |-> NoFields],
     shifted |-> [schema |-> Schema(<<Price, Vector(<<>>, <<1>>)>>, 6, Keys(FALSE, <<"key">>, <<>>, <<>>),
                                    <<>>, <<>>),
                  nearest |-> <<<<1, 3, 0, 2, 4, 5>>, <<3, 1, 2, 0, 5, 4>>>>, count |-> 4, offset |-> 2,
                  search |-> TagAndNumbers]]

-----------------------------------------------------------------------------

LoadUpdateDelete == <<"load", "update", "delete">>
LoadDeleteQuery == <<"load", "delete", "query">>
LoadDelete == <<"load", "delete">>

Setup(nodes, cluster, data, preloaded, unscanned, workloads, requests, batch, countMode) ==
    [nodeOf |-> nodes, cluster |-> cluster, dataset |-> data, preloaded |-> preloaded,
     unscanned |-> unscanned, workloads |-> workloads, requests |-> requests, batch |-> batch,
     countMode |-> countMode]

Prefilled == {<<0, n1>>, <<2, n2>>, <<3, n2>>}

(* Standalone: load and delete in pipelines of two; load, delete and query; load, update, and *)
(* delete more than can be; a partly loaded cluster whose scan may fail; a   *)
(* cluster loaded and queried; runs cut off by the clock.                    *)
MCSetups ==
    {Setup(OneNode, FALSE, "plain", {}, {}, LoadDelete, 9, 2, TRUE),
     Setup(OneNode, FALSE, "mixed", {}, {}, LoadDeleteQuery, 4, 1, TRUE),
     Setup(OneNode, FALSE, "window", {}, {}, LoadUpdateDelete, 5, 1, TRUE),
     Setup(OneNode, FALSE, "shifted", {}, {}, LoadDelete, 4, 1, TRUE),
     Setup(TwoNodes, TRUE, "mixed", Prefilled, {n1, n2}, LoadDelete, 3, 1, TRUE),
     Setup(TwoNodes, TRUE, "plain", {}, {}, <<"load", "query">>, 4, 1, TRUE),
     Setup(TwoNodes, TRUE, "plain", Prefilled, {}, <<"delete", "load">>, 4, 1, TRUE),
     Setup(OneNode, FALSE, "plain", {}, {}, LoadDelete, 4, 1, FALSE)}

=============================================================================
