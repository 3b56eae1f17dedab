------------------------------ MODULE MCCodec ------------------------------
(* A small instance of Codec and Commands: strings that put each special    *)
(* character next to the ones it can be mistaken with, and calls that leave *)
(* out each optional argument next to ones that give it.                    *)
EXTENDS Commands

CONSTANT A     \* any other character

SomeCells == { <<>>, <<Backslash>>, <<Comma, Backslash>>, <<Backslash, N>>, <<CR, LF>>,
               <<Backslash, Semicolon, R>>, <<Bar, Colon>>, <<Semicolon, A>> }
AllChars == {Backslash, Comma, Semicolon, CR, LF, Quote, Bar, Colon, R, N, A}
OneOrTwo  == {1, 2}
FirstEnc  == { {}, {1} }
Both      == {"py", "js"}

Num(s)  == <<s>>
Half    == <<"1", ".5">>
Nums    == {Num("1"), Num("2")}
Floats  == {Num("1"), Half}
Texts   == { <<A>>, <<A, " ", A>>, <<A, " ", "WHERE", " ", A>> }
Clauses == { <<>>, <<A>> }

\* One prefix that looks like two, and one that looks like another column.
SomePrefixes == { <<>>, << <<>> >>, << <<A>> >>, << <<A>>, <<A>> >>, << <<A, Bar, A>> >>,
                  << <<A, Comma, A, Colon, "2">> >> }
Columns      == [name : {<<A>>}, type : {Num("2"), Num("3")}, dim : {<<>>, Num("2")},
                 max : {Num("0"), Num("2")}, prefixes : SomePrefixes]

SomeCalls ==
  [method : {"FIND", "LSEARCH", "SELGT"}, fields : {<<c, s>> : c \in Nums, s \in Texts}]
  \cup [method : {"INDEX"}, fields : { <<Num("1")>>, <<Num("1"), Num("2")>> }]
  \cup [method : {"LOG", "COUNT", "INFO"}, fields : { <<>>, <<Num("1")>> }]
  \cup [method : {"create"}, name : {<<A>>},
         columns : {<<c>> : c \in Columns}
                   \cup {<<c, d>> : c \in Columns, d \in [name : {<<A>>}, type : {Num("2")}, dim : {<<>>},
                                                         max : {Num("0")}, prefixes : {<<>>, << <<A>> >>}]}]
  \cup [method : {"alterAdd"}, name : {<<A>>}, type : {Num("2"), Num("3")}, dim : Nums,
         max : {Num("0"), Num("2")}, prefixes : SomePrefixes]
  \cup [method : {"findc"}, cols : { <<Num("1")>> }, vals : {<<s>> : s \in Texts}]
  \cup [method : {"findc"}, cols : { <<Num("1"), Num("2")>> },
         vals : {<<s, t>> : s \in Texts, t \in { <<A>>, <<A, "US", A>> }}]
  \cup [method : {"updateWhere"}, setCol : Nums, setVal : Floats, predCol : Nums, op : Nums, threshold : Floats]
  \cup [method : {"updateWhereStr"}, setCol : {Num("1")}, setVal : SomeCells, predCol : Nums, op : Nums,
         threshold : Floats]
  \cup [method : {"deleteWhere"}, predCol : Nums, op : Nums, threshold : Floats]
  \cup {c \in [method : {"groupBy"}, groupCol : {Num("1")}, agg : {"count", "avg"}, aggCol : {<<>>, Num("0")},
               by : { <<>>, <<Num("1")>>, <<Num("1"), Num("2")>> },
               having : { <<>>, <<Num("0"), Num("1")>>, <<Num("1"), Num("1")>>, <<Num("1"), Half>> },
               order : { <<>>, <<"key", "desc">>, <<"value", "asc">> }, limit : {<<>>, Num("1")}] :
           c.agg = "count" \/ c.aggCol # <<>>}
  \cup [method : {"join"}, lCol : Nums, rCol : Nums, how : {"inner", "left", "full"}, op : {Num("1"), Num("2")}]
  \cup [method : {"knn"}, col : {Num("1")}, k : Nums, query : { <<Num("1")>>, <<Num("1"), Num("1")>> }, where : Clauses]
  \cup [method : {"search"}, vecCol : {Num("1")}, textCol : {Num("2")}, k : {Num("1")}, vec : { <<Num("1")>> },
         query : Texts, where : Clauses]

SomeAtoms == {"1", "2", "-1", ".5", "I", "D", A}

SomeLists ==
  [ids    |-> { <<>>, << <<Num("1")>>, <<Num("2")>> >> },
   pairs  |-> { <<>>, << <<Num("1"), Num("-1")>>, <<Num("-1"), Num("2")>> >> },
   scores |-> { <<>>, << <<Num("1"), Half>>, <<Num("2"), Num("1")>> >> },
   log    |-> { << <<Num("1")>> >>, << <<Num("2")>>, <<Num("1"), Num("1"), <<"I">> >>, <<Num("1"), Num("1"), <<"D">> >> >> },
   kv     |-> { << << <<A>>, <<A, "=", A>> >>, << <<A>>, <<>> >> >> }]
=============================================================================
