------------------------------- MODULE Codec -------------------------------
(***************************************************************************)
(* The wire encoding of strings, of rows and of results in both clients,   *)
(* and the encrypted columns, on the whole way of a value: the client's    *)
(* encoder, the server's decoder, the table, the server's encoder, the     *)
(* client's decoder.                                                       *)
(*                                                                         *)
(* A string is a sequence of characters: those that mean something to a    *)
(* decoder are constants, all others are one.  Brackets around a result,   *)
(* numbers and verbs are left out.  The server is external and encodes as  *)
(* PROTOCOL.md says under "STRING escape contract".                        *)
(***************************************************************************)
EXTENDS Naturals, SequencesExt, Filter

CONSTANTS
  Backslash, Comma, Semicolon, CR, LF, Quote, Bar, Colon,
  R, N,        \* the letters r and n
  None,        \* no character
  EncPrefix,   \* enc:v1:, as one character
  Chars,       \* the characters of strings
  Cells,       \* the strings written
  Widths,      \* the numbers of columns a table may have
  EncCols,     \* the sets of columns written encrypted
  MaxRows      \* bound: rows inserted

ASSUME CodecAssumption ==
  /\ Widths \subseteq Nat \ {0} /\ MaxRows \in Nat
  /\ \A cols \in EncCols : cols \subseteq Nat
  /\ IsInjective(<<Backslash, Comma, Semicolon, CR, LF, Quote, Bar, Colon, R, N>>)
  /\ {Backslash, Comma, Semicolon, CR, LF, Quote, Bar, Colon, R, N} \subseteq Chars
  /\ Cells \subseteq Seq(Chars)
  /\ None # EncPrefix /\ Chars \cap {None, EncPrefix} = {}
  /\ [text : Cells] \cap (Chars \cup {None, EncPrefix}) = {}

VARIABLES
  width,  \* columns of the table, all of them strings
  table,  \* server: the rows
  wrote,  \* the rows as the application wrote them, with their encrypted columns
  line,   \* the arguments of the latest command
  asked,  \* the arguments of the latest command, if it is an exec_str_kernel
  args    \* server: what arrived of them

vars == <<width, table, wrote, line, asked, args>>

-----------------------------------------------------------------------------
(* Encoders.                                                               *)

Replace(s, pair) ==
  FlattenSeq([i \in 1 .. Len(s) |-> IF s[i] = pair[1] THEN pair[2] ELSE <<s[i]>>])
Encode(s, escapes) ==
  LET after[i \in 0 .. Len(escapes)] == IF i = 0 THEN s ELSE Replace(after[i - 1], escapes[i])
  IN after[Len(escapes)]

Esc(c, d) == <<c, <<Backslash, d>>>>

\* Mutant: the backslash is escaped after the others.
BackslashLast == <<Esc(Comma, Comma), Esc(CR, R), Esc(LF, N), Esc(Backslash, Backslash)>>

\* Mutant: line feeds are sent as they are.
NoLineFeed == <<Esc(Backslash, Backslash), Esc(Comma, Comma), Esc(CR, R)>>

\* Mutant: commas are sent as they are.
NoComma == <<Esc(Backslash, Backslash), Esc(CR, R), Esc(LF, N)>>

ValueEscapes   == <<Esc(Backslash, Backslash), Esc(Comma, Comma), Esc(CR, R), Esc(LF, N)>>
EncodeValue(s) == Encode(s, ValueEscapes)

\* Mutant: the separator of the arguments is not escaped.
ExecNoSemicolon == <<Esc(Backslash, Backslash), Esc(CR, R), Esc(LF, N)>>

ExecEscapes      == <<Esc(Backslash, Backslash), Esc(Semicolon, Semicolon), Esc(CR, R), Esc(LF, N)>>
EncodeExecStr(s) == Encode(s, ExecEscapes)

Join(sep, ss) == FlattenSeq([i \in 1 .. Len(ss) |-> IF i = 1 THEN ss[i] ELSE <<sep>> \o ss[i]])
Each(Op(_), ss) == [i \in 1 .. Len(ss) |-> Op(ss[i])]

-----------------------------------------------------------------------------
(* Decoders: one walk over the characters.  For a text a backslash takes   *)
(* the next character along, raw keeps both for the next decoder, and to   *)
(* str.split(sep), plain, it is a character like any other.                *)

Unescape(c) == IF c = R THEN CR ELSE IF c = N THEN LF ELSE c

Start == [out |-> <<>>, cur |-> <<>>, esc |-> FALSE]

Step(st, c, sep, mode) ==
  LET to(cur, esc) == [out |-> st.out, cur |-> cur, esc |-> esc]
  IN IF st.esc THEN to(Append(st.cur, IF mode = "text" THEN Unescape(c) ELSE c), FALSE)
     ELSE IF c = Backslash /\ mode = "text" THEN to(st.cur, TRUE)
     ELSE IF c = Backslash /\ mode = "raw" THEN to(Append(st.cur, c), TRUE)
     ELSE IF c = sep THEN [out |-> Append(st.out, st.cur), cur |-> <<>>, esc |-> FALSE]
     ELSE to(Append(st.cur, c), FALSE)

Walk(s, sep, mode) ==
  LET at[i \in 0 .. Len(s)] == IF i = 0 THEN Start ELSE Step(at[i - 1], s[i], sep, mode)
  IN at[Len(s)]

Split(s, sep, mode) ==
  LET end == Walk(s, sep, mode)
  IN Append(end.out, IF end.esc /\ mode = "text" THEN Append(end.cur, Backslash) ELSE end.cur)

SplitWireRow(s)  == Split(s, Comma, "text")
DecodeExecStr(s) == Split(s, None, "text")[1]

SplitPlain(s, sep) == Split(s, sep, "plain")

\* Mutant: rows are split on every semicolon.
SplitRowsPlain(s) == SplitPlain(s, Semicolon)

SplitWireRows(s) == Split(s, Semicolon, "raw")

ParseRowlistJs(body) ==
  IF body = <<>> THEN <<>> ELSE Each(SplitWireRow, SplitWireRows(body))

\* Python has a fast path for bodies without a backslash.
ParseRowlistPy(body) ==
  IF body = <<>> THEN <<>>
  ELSE IF ~Contains(body, Backslash)
       THEN Each(LAMBDA s : SplitPlain(s, Comma), SplitPlain(body, Semicolon))
       ELSE ParseRowlistJs(body)

\* Mutant: a quoted component ends at the first separator of keys inside it.
GbComponentPlain(s, i) ==
  LET stop == {j \in i + 1 .. Len(s) : s[j] \in {Quote, Bar, Colon}}
      j == CHOOSE k \in stop : \A m \in stop : k <= m
  IN [comp |-> SubSeq(s, i + 1, j - 1), next |-> j + 2, term |-> s[j + 1]]

\* One component of a group key from position i on, with the position after it
\* and its terminator.  Without a closing quote the component is all the rest.
GbComponent(s, i) ==
  LET end(S) == {j \in i + 1 .. Len(s) : s[j] \in S}
      first(S) == CHOOSE j \in S : \A k \in S : j <= k
      stop == {j \in i .. Len(s) : s[j] \in {Bar, Colon}}
      upTo(a, j) == [comp |-> SubSeq(s, a, j - 1), at |-> j]
      term(j) == IF j \in 1 .. Len(s) THEN s[j] ELSE None
  IN IF s[i] # Quote
     THEN LET j == IF stop = {} THEN Len(s) + 1 ELSE first(stop)
          IN [comp |-> SubSeq(s, i, j - 1), next |-> j + 1, term |-> term(j)]
     ELSE IF end({Quote}) = {}
     THEN [comp |-> SubSeq(s, i + 1, Len(s)), next |-> Len(s) + 1, term |-> None]
     ELSE LET j == first(end({Quote}))
          IN [comp |-> SubSeq(s, i + 1, j - 1), next |-> j + 2, term |-> term(j + 1)]

\* The components of the key of one group.
GroupKey(s) ==
  LET from[i \in 1 .. Len(s) + 2] ==
        IF i > Len(s) THEN <<>>
        ELSE LET c == GbComponent(s, i)
             IN <<c.comp>> \o IF c.term = Colon THEN <<>> ELSE from[c.next]
  IN from[1]

ParseGroupBy(body) ==
  LET parts == SplitPlain(body, Semicolon)
  IN Each(GroupKey, Kept(parts, ToSet(parts) \ {<<>>}))

-----------------------------------------------------------------------------
(* Encrypted columns.  AES-GCM and base64 are external: a token is the      *)
(* prefix and one more character, from which only the key gets the text.   *)

Encrypt(s)     == <<EncPrefix, [text |-> s]>>
IsEncrypted(s) == s # <<>> /\ s[1] = EncPrefix
Decrypt(s)     == IF IsEncrypted(s) THEN s[2].text ELSE s

\* Mutant: the columns are counted from zero.
EncRowOffByOne(row, cols) == [i \in 1 .. Len(row) |-> IF i + 1 \in cols THEN Encrypt(row[i]) ELSE row[i]]

EncRow(row, cols) == [i \in 1 .. Len(row) |-> IF i \in cols THEN Encrypt(row[i]) ELSE row[i]]
DecRow(row, cols) == [i \in 1 .. Len(row) |-> IF i \in cols THEN Decrypt(row[i]) ELSE row[i]]

-----------------------------------------------------------------------------
(* The server's side, external.                                            *)

ServerEscapes   == <<Esc(Backslash, Backslash), Esc(Comma, Comma), Esc(Semicolon, Semicolon), Esc(CR, R), Esc(LF, N)>>
ServerEncode(s) == Encode(s, ServerEscapes)
ServerDecode(s) == Split(s, Comma, "text")

RowBody(row)   == Join(Comma, Each(ServerEncode, row))
Rowlist(rows)  == Join(Semicolon, Each(RowBody, rows))

\* EXEC splits its arguments at the first semicolon that is not escaped.
ServerArgs(s) ==
  LET parts == Split(s, Semicolon, "raw")
  IN Each(DecodeExecStr, <<parts[1], Join(Semicolon, Tail(parts))>>)

\* GROUPBY puts strings in quotes and escapes nothing; x stands for the value.
GroupBody(rows, x) ==
  Join(Semicolon,
          Each(LAMBDA row : Join(Bar, Each(LAMBDA s : <<Quote>> \o s \o <<Quote>>, row))
                            \o <<Colon, x>>, rows))

-----------------------------------------------------------------------------
(* The calls.                                                              *)

InsertArgs(row, cols) == Join(Comma, Each(EncodeValue, EncRow(row, cols)))
UpdateArgs(s)         == EncodeValue(s)
Get(i)                == SplitWireRow(RowBody(table[i]))
GetDec(i, cols)       == DecRow(Get(i), cols)

NoArgs == << <<>>, <<>> >>

Init ==
  /\ width \in Widths /\ table = <<>> /\ wrote = <<>>
  /\ line = <<>> /\ asked = NoArgs /\ args = NoArgs

\* insert, insert_enc and one command of insert_batch.  A line of another
\* number of columns is refused.
Insert(row, cols) ==
  /\ Len(table) < MaxRows
  /\ line' = InsertArgs(row, cols)
  /\ table' = IF Len(ServerDecode(line')) # width THEN table
              ELSE Append(table, ServerDecode(line'))
  /\ wrote' = Append(wrote, [row |-> row, enc |-> cols])
  /\ asked' = NoArgs /\ args' = NoArgs
  /\ UNCHANGED width

\* update_row_str: one cell, the rest of the line.
UpdateRowStr(i, j, s) ==
  /\ line' = UpdateArgs(s)
  /\ table' = [table EXCEPT ![i][j] = DecodeExecStr(line')]
  /\ wrote' = [wrote EXCEPT ![i] = [row |-> [@.row EXCEPT ![j] = s], enc |-> @.enc \ {j}]]
  /\ asked' = NoArgs /\ args' = NoArgs
  /\ UNCHANGED width

\* exec_str_kernel with two arguments.
ExecStrKernel(a, b) ==
  /\ table = <<>>
  /\ line' = EncodeExecStr(a) \o <<Semicolon>> \o EncodeExecStr(b)
  /\ asked' = <<a, b>> /\ args' = ServerArgs(line')
  /\ UNCHANGED <<width, table, wrote>>

Next ==
  \/ \E row \in [1 .. width -> Cells], cols \in EncCols : Insert(row, cols)
  \/ \E i \in 1 .. Len(table), j \in 1 .. width, s \in Cells :
       Len(table) < MaxRows /\ UpdateRowStr(i, j, s)
  \/ \E a, b \in Cells : ExecStrKernel(a, b)

Spec == Init /\ [][Next]_vars

-----------------------------------------------------------------------------
(* Properties.                                                             *)

\* The rows have the columns of the table, and none was refused.
TypeOK ==
  /\ width \in Widths /\ Len(table) = Len(wrote) /\ Len(table) <= MaxRows
  /\ \A i \in 1 .. Len(table) : DOMAIN table[i] = 1 .. width /\ DOMAIN wrote[i].row = 1 .. width

\* No argument puts a newline on the wire, where it would end the command and
\* leave the client one answer behind.
OneLine == ~Contains(line, CR) /\ ~Contains(line, LF)

\* GET in either language returns what insert or update_row_str in either
\* language wrote, get_dec also where it was written encrypted, and where a
\* plaintext was put among tokens.
RowsReadBack ==
  \A i \in 1 .. Len(table) :
    /\ Get(i) = EncRow(wrote[i].row, wrote[i].enc)
    /\ \A cols \in EncCols : wrote[i].enc \subseteq cols =>
         GetDec(i, cols) = wrote[i].row

\* SELGT returns the rows too, row by row and column by column, on Python's fast
\* path and its slow one and in JavaScript; one row of one empty string is the
\* exception, for which the wire has the same body as for no row.
RowlistReadBack ==
  LET rows == [i \in 1 .. Len(table) |-> EncRow(wrote[i].row, wrote[i].enc)]
  IN rows # << << <<>> >> >> =>
       ParseRowlistPy(Rowlist(table)) = rows /\ ParseRowlistJs(Rowlist(table)) = rows

\* GROUPBY keys come back apart whatever separators of keys they hold; the wire
\* cannot carry quotes, semicolons and newlines in them.
GroupsReadBack ==
  LET fit(row) == \A j \in 1 .. width : \A c \in {Quote, Semicolon, CR, LF} : ~Contains(row[j], c)
      keys == Kept(table, {row \in ToSet(table) : fit(row)})
  IN ParseGroupBy(GroupBody(keys, R)) = keys

\* The server never sees the plaintext of an encrypted cell.
OnlyTokensStored ==
  \A i \in 1 .. Len(table) : \A j \in 1 .. width :
    j \in wrote[i].enc <=> IsEncrypted(table[i][j])

\* Both arguments of a string kernel arrive as they were given.
ExecArgsArrive == args = asked
=============================================================================
