------------------------------ MODULE Commands ------------------------------
(***************************************************************************)
(* The commands that the methods of the client put together from their     *)
(* arguments, and the lists they read from the answers, on top of Codec:   *)
(* in both clients the same, but that Python truncates some numbers (see   *)
(* Number) and that only Python has options for columns (see Offers).      *)
(*                                                                         *)
(* A call is a record of its method and its arguments.  Numbers, names and *)
(* texts are sequences of atoms, a text with its words apart.  A fraction  *)
(* is an atom after the whole part.  The handle and the table are always   *)
(* the same and left out, as are the brackets around a list and the column *)
(* specifications that are refused before a command is built.              *)
(***************************************************************************)
EXTENDS Codec

CONSTANTS
  Langs,     \* the languages: "py" and "js"
  Calls,     \* the calls that may be made
  Atoms,     \* what numbers and names in answers are made of
  Lists      \* the lists the server may answer with, by their shape

Numeral     == Seq(Atoms) \ {<<>>}
Numerals(k) == [1 .. k -> Numeral]

ASSUME CommandsAssumption ==
  /\ Atoms \cap {Semicolon, Comma, Colon, " ", "="} = {}
  /\ Lists.ids \subseteq Seq(Numerals(1)) /\ Lists.pairs \subseteq Seq(Numerals(2))
  /\ Lists.scores \subseteq Seq(Numerals(2))
  /\ Lists.log \subseteq Seq(Seq(Numeral))
  /\ \A rows \in Lists.log : rows # <<>> /\ Head(rows) \in Numerals(1) /\ Tail(rows) \in Seq(Numerals(3))
  /\ Lists.kv \subseteq Seq(Seq(Atoms) \X Seq(Atoms \cup {"="}))

VARIABLES
  lang,      \* the language of the client that made the latest call, or None
  call,      \* that call, or None
  result,    \* server: the rows of its answer
  body       \* the answer

all == <<vars, lang, call, result, body>>

-----------------------------------------------------------------------------
(* Builders, one for each method.                                          *)

Command(verb, fields) == Join(" ", << <<verb>> >> \o fields)
Clause(word, fields)  == <<" ">> \o Command(word, fields)
Optional(given, text) == IF given THEN text ELSE <<>>
Vector(v)             == Join(Bar, v)
Whole(x)              == SubSeq(x, 1, 1)       \* parseInt, int()

\* Every argument in its place: delete, count, sum, min, max, fcountGt,
\* selectGt, lsearch, bsearch, index, save, load, sub, unsub, log.
Positional(c) == Command(c.method, c.fields)

VEC       == <<"3">>
Unlimited == <<"0">>

\* A vector's dimension is empty for a pair of name and type.  The options of the
\* other columns are a length and the prefixes a value may begin with.
ColumnSpec(column) ==
  Join(Colon, <<column.name, column.type>> \o
    IF column.type = VEC THEN Optional(column.dim # <<>>, <<column.dim>>)
    ELSE Optional(column.max # Unlimited, << <<"MAX=">> \o column.max >>)
         \o Optional(column.prefixes # <<>>, << <<"PREFIX=">> \o Join(Bar, column.prefixes) >>))

Create(c)   == Command("CREATE", <<c.name, Join(Comma, Each(ColumnSpec, c.columns))>>)
AlterAdd(c) == Command("ALTER", << <<"ADD">>, ColumnSpec(c) >>)

\* JavaScript has no arguments for the options of a column.
Plain(column) == column.max = Unlimited /\ column.prefixes = <<>>
Offers(l, c) ==
  l = "js" => /\ c.method = "create" => \A i \in 1 .. Len(c.columns) : Plain(c.columns[i])
              /\ c.method = "alterAdd" => Plain(c)

\* The values are joined with 0x1f, that they may hold spaces and commas.
Findc(c) == Command("FINDC", << <<ToString(Len(c.cols))>> >> \o c.cols \o <<Join("US", c.vals)>>)

\* Python truncates what JavaScript sends as it is.
Number(l, x) == IF l = "py" THEN Whole(x) ELSE x

UpdateWhere(l, c) ==
  Command("UPDATE", <<c.setCol, Number(l, c.setVal), c.predCol, c.op, Number(l, c.threshold)>>)
UpdateWhereStr(l, c) ==
  Command("UPDATES", <<c.setCol, c.predCol, c.op, Number(l, c.threshold), EncodeValue(c.setVal)>>)
DeleteWhere(l, c) == Command("DELW", <<c.predCol, c.op, Number(l, c.threshold)>>)

AggMap == [count |-> "0", sum |-> "1", min |-> "2", max |-> "3", avg |-> "4"]
FMap   == [key |-> "0", value |-> "1"]
DMap   == [asc |-> "0", desc |-> "1"]

\* Mutant: HAVING is sent without its operator.
HavingNoOp(having) == Clause("HAVING", <<Whole(having[2])>>)

Having(having) == Clause("HAVING", <<having[1], Whole(having[2])>>)

GroupBy(c) ==
  Command("GROUPBY", <<c.groupCol, <<AggMap[c.agg]>>, IF c.aggCol = <<>> THEN <<"0">> ELSE c.aggCol>>)
  \o Optional(c.by # <<>>, Clause("BY", c.by))
  \o Optional(c.having # <<>>, Having(c.having))
  \o Optional(c.order # <<>>, Clause("ORDER", << <<FMap[c.order[1]]>>, <<DMap[c.order[2]]>> >>))
  \o Optional(c.limit # <<>>, Clause("LIMIT", <<c.limit>>))

HowMap == [inner |-> "0", left |-> "1", right |-> "2", full |-> "3"]
EQ     == <<"2">>

JoinTables(c) ==
  Command("JOIN", <<c.lCol, c.rCol>>)
  \o Optional(HowMap[c.how] # "0", Clause("TYPE", << <<HowMap[c.how]>> >>))
  \o Optional(c.op # EQ, Clause("OP", <<c.op>>))

Where(where) == Optional(where # <<>>, Clause("WHERE", <<where>>))
Knn(c)       == Command("KNN", <<c.col, c.k, Vector(c.query)>>) \o Where(c.where)
Search(c)    == Command("SEARCH", <<c.vecCol, c.textCol, c.k, Vector(c.vec), <<"|||">>, c.query>>) \o Where(c.where)

LineOf(l, c) ==
  CASE c.method = "create"         -> Create(c)
    [] c.method = "alterAdd"       -> AlterAdd(c)
    [] c.method = "findc"          -> Findc(c)
    [] c.method = "updateWhere"    -> UpdateWhere(l, c)
    [] c.method = "updateWhereStr" -> UpdateWhereStr(l, c)
    [] c.method = "deleteWhere"    -> DeleteWhere(l, c)
    [] c.method = "groupBy"        -> GroupBy(c)
    [] c.method = "join"           -> JoinTables(c)
    [] c.method = "knn"            -> Knn(c)
    [] c.method = "search"         -> Search(c)
    [] OTHER                       -> Positional(c)

-----------------------------------------------------------------------------
(* Parsers of the answers that are lists.  A row is a sequence of numbers. *)

\* find, findc: ids; join: pairs; knn, lsearch, bsearch, search: ids and scores.
ParseIds(s)       == IF s = <<>> THEN <<>> ELSE Each(LAMBDA id : <<id>>, SplitPlain(s, Semicolon))
ParseRows(s, sep) == IF s = <<>> THEN <<>> ELSE Each(LAMBDA row : SplitPlain(row, sep), SplitPlain(s, Semicolon))

\* Before and after the first of the separators.
Partition(s, sep) == LET i == SelectInSeq(s, LAMBDA c : c = sep) IN <<SubSeq(s, 1, i - 1), SubSeq(s, i + 1, Len(s))>>

\* The cursor, and the events: time, row, operation.
ParseLog(s) == << <<Partition(s, " ")[1]>> >> \o ParseRows(Partition(s, " ")[2], Colon)

\* Mutant: a pair is split at every "=".
ParseKvEverywhere(s) == Each(LAMBDA tok : SplitPlain(tok, "="), SplitPlain(s, " "))

\* info, stats: the value is everything after the first "=".
ParseKv(s) ==
  LET toks == SplitPlain(s, " ")
  IN Each(LAMBDA tok : Partition(tok, "="), Kept(toks, {tok \in ToSet(toks) : Contains(tok, "=")}))

Shape == [FIND |-> "ids", findc |-> "ids", join |-> "pairs", LOG |-> "log", INFO |-> "kv",
          knn |-> "scores", LSEARCH |-> "scores", BSEARCH |-> "scores", search |-> "scores"]

Parse(shape, s) ==
  CASE shape = "ids"    -> ParseIds(s)
    [] shape = "pairs"  -> ParseRows(s, Comma)
    [] shape = "scores" -> ParseRows(s, Colon)
    [] shape = "log"    -> ParseLog(s)
    [] shape = "kv"     -> ParseKv(s)

\* The server's answer, external.
ListBody(sep, rows) == Join(Semicolon, Each(LAMBDA row : Join(sep, row), rows))

Body(shape, rows) ==
  CASE shape \in {"ids", "pairs"} -> ListBody(Comma, rows)
    [] shape = "scores"           -> ListBody(Colon, rows)
    [] shape = "log"              -> Head(rows)[1] \o <<" ">> \o ListBody(Colon, Tail(rows))
    [] shape = "kv"               -> Join(" ", Each(LAMBDA row : Join("=", row), rows))

-----------------------------------------------------------------------------
AskInit == Init /\ lang = None /\ call = None /\ result = <<>> /\ body = <<>>

\* A call, and the answer if it is a list.  Bound: one call in a behaviour.
Ask(l, c) ==
  /\ table = <<>> /\ call = None /\ Offers(l, c)
  /\ line' = LineOf(l, c) /\ call' = c /\ lang' = l
  /\ \/ c.method \in DOMAIN Shape
        /\ result' \in Lists[Shape[c.method]]
        /\ body' = Body(Shape[c.method], result')
     \/ c.method \notin DOMAIN Shape /\ result' = <<>> /\ body' = <<>>
  /\ asked' = NoArgs /\ args' = NoArgs
  /\ UNCHANGED <<width, table, wrote>>

AskNext ==
  \/ Next /\ lang' = None /\ call' = None /\ result' = <<>> /\ body' = <<>>
  \/ \E l \in Langs, c \in Calls : Ask(l, c)

AskSpec == AskInit /\ [][AskNext]_all

-----------------------------------------------------------------------------
(* Properties.                                                             *)

\* What the arguments of a call mean: a count aggregates no column, a vector has a
\* dimension and no options, any other column no dimension.
MeaningOf(column) ==
  IF column.type = VEC THEN [column EXCEPT !.max = Unlimited, !.prefixes = <<>>]
  ELSE [column EXCEPT !.dim = <<>>]

Meaning(c) ==
  CASE c.method = "groupBy"  -> [c EXCEPT !.aggCol = IF c.agg = "count" THEN <<>> ELSE @]
    [] c.method = "create"   -> [c EXCEPT !.columns = Each(MeaningOf, @)]
    [] c.method = "alterAdd" -> MeaningOf(c)
    [] OTHER                 -> c

\* Has a column a prefix with one of these in it?
HasPrefixWith(column, seps) ==
  \E i \in 1 .. Len(column.prefixes), sep \in seps : Contains(column.prefixes[i], sep)

\* What a line cannot carry: a fraction that is truncated on its way, WHERE in
\* the text of a search, the separator of findc in one of its values, and in a
\* prefix of Python the bar between prefixes and the comma between columns.
Blurred(c) ==
  CASE c.method = "groupBy"     -> c.having # <<>> /\ Whole(c.having[2]) # c.having[2]
    [] c.method = "updateWhere" -> Number(lang, c.setVal) # c.setVal \/ Number(lang, c.threshold) # c.threshold
    [] c.method \in {"updateWhereStr", "deleteWhere"} -> Number(lang, c.threshold) # c.threshold
    [] c.method = "search"      -> Contains(c.query, "WHERE")
    [] c.method = "findc"       -> \E i \in 1 .. Len(c.vals) : Contains(c.vals[i], "US")
    [] c.method = "create"      -> \E i \in 1 .. Len(c.columns) : HasPrefixWith(c.columns[i], {Bar, Comma})
    [] c.method = "alterAdd"    -> HasPrefixWith(c, {Bar})
    [] OTHER                    -> FALSE

\* Two calls that mean different things never send the same command, whatever
\* optional clauses they leave out and wherever a text ends the line; what a line
\* cannot carry is the exception.
LinesTellCallsApart ==
  call # None =>
    \A c \in Calls : Offers(lang, c) /\ LineOf(lang, c) = line /\ ~Blurred(c) /\ ~Blurred(call)
                      => Meaning(c) = Meaning(call)

\* The lists come back row by row: empty ones, the -1 of an outer join, the
\* cursor of a LOG without events, a value with "=" in it.
ListsReadBack ==
  call # None /\ call.method \in DOMAIN Shape => Parse(Shape[call.method], body) = result
=============================================================================
