----------------------------- MODULE RespParser -----------------------------
(***************************************************************************)
(* RESPParser of src/include/network/resp_parser.h as pure operators.      *)
(*                                                                         *)
(* A buffer is a sequence of bytes; a byte is a one-character string, with *)
(* CR, LF and SP standing for "\r", "\n" and " ".  Positions are 0-based,  *)
(* as in std::string: At(buf, p) is buf[p] of the C++ code.  A parse       *)
(* result is a record: the tokens, the bytes consumed, and whether std::stoi *)
(* threw (nothing in handle_client catches it).                            *)
(***************************************************************************)
EXTENDS Integers, Sequences, SequencesExt, FiniteSetsExt

CR == "CR"
LF == "LF"
SP == "SP"
CRLF == <<CR, LF>>

DigitChar(d) == <<"0", "1", "2", "3", "4", "5", "6", "7", "8", "9">>[d + 1]
DigitSet == {DigitChar(d) : d \in 0..9}
IsSpace(b) == b \in {SP, CR, LF}

\* std::string::npos, buf[p], buf.substr(p, n) and buf.find(pat, from).
\* A negative n stands for a size_t that wrapped: substr takes the rest.
NPOS == -1
At(buf, p) == buf[p + 1]
Substr(buf, p, n) ==
    SubSeq(buf, p + 1, IF n < 0 THEN Len(buf) ELSE Min({p + n, Len(buf)}))
Find(buf, pat, from) ==
    LET hits == {i \in from..(Len(buf) - Len(pat)) :
                    SubSeq(buf, i + 1, i + Len(pat)) = pat}
    IN  IF hits = {} THEN NPOS ELSE Min(hits)

\* The longest prefix of s whose bytes all satisfy P, and what follows it.
PrefixLen(s, P(_)) == Max({k \in 0..Len(s) : \A i \in 1..k : P(s[i])})
DropPrefix(s, P(_)) == SubSeq(s, PrefixLen(s, P) + 1, Len(s))

\* std::to_string of a natural number.
RECURSIVE ToDec(_)
ToDec(n) == IF n < 10 THEN <<DigitChar(n)>>
                      ELSE ToDec(n \div 10) \o <<DigitChar(n % 10)>>

\* The value of a run of decimal digits.
DecVal[ds \in Seq(STRING)] ==
    IF ds = <<>> THEN 0
    ELSE 10 * DecVal[Front(ds)] + (CHOOSE d \in 0..9 : DigitChar(d) = Last(ds))

\* std::stoi: leading white space, an optional sign, then the longest run
\* of digits; no digit at all throws std::invalid_argument.  (Parsers are
\* functions of their buffer so that each call evaluates its argument once.)
Stoi[s \in Seq(STRING)] ==
    LET u      == DropPrefix(s, IsSpace)
        signed == u # <<>> /\ Head(u) \in {"-", "+"}
        ds     == SubSeq(u, IF signed THEN 2 ELSE 1, Len(u))
        digits == SubSeq(ds, 1, PrefixLen(ds, LAMBDA b : b \in DigitSet))
    IN  [ok  |-> digits # <<>>,
         val |-> IF signed /\ Head(u) = "-" THEN -DecVal[digits] ELSE DecVal[digits]]

\* Mutant: the consumed count taken one short, "return {tokens, pos - 1}".
ResultShort(tokens, consumed) ==
    [thrown |-> FALSE, tokens |-> tokens, consumed |-> consumed - 1]

\* Outcomes of parse(): (tokens, consumed), an incomplete buffer, a throw.
Result(tokens, consumed) == [thrown |-> FALSE, tokens |-> tokens, consumed |-> consumed]
Incomplete == Result(<<>>, 0)
Thrown == [thrown |-> TRUE, tokens |-> <<>>, consumed |-> 0]

\* encode_bulk_string and encode_array: how a Redis client frames a command.
EncodeBulkString(s) == <<"$">> \o ToDec(Len(s)) \o CRLF \o s \o CRLF
EncodeArray(items) ==
    <<"*">> \o ToDec(Len(items)) \o CRLF
        \o FoldLeft(LAMBDA out, item : out \o EncodeBulkString(item), <<>>, items)

\* The for loop of parse_array over its loop state: the buffer, the
\* position of the next element, the elements left and the tokens so far.
\* A recursive function, so that each iteration gets its state as a value.
LoopState == [buf : Seq(STRING), pos : Int, left : Int, tokens : Seq(Seq(STRING))]
ArrayElems[st \in LoopState] ==
    LET buf  == st.buf
        pos  == st.pos
        NextElem(p, tok) == ArrayElems[[st EXCEPT !.pos = p, !.left = @ - 1,
                                              !.tokens = Append(@, tok)]]
    IN
    IF st.left <= 0 THEN Result(st.tokens, pos)
    ELSE IF pos >= Len(buf) THEN Incomplete
    ELSE IF At(buf, pos) # "$" THEN
        LET next == Find(buf, CRLF, pos)
        IN  IF next = NPOS THEN Incomplete
            ELSE NextElem(next + 2, Substr(buf, pos + 1, next - pos - 1))
    ELSE
        LET lenEnd == Find(buf, CRLF, pos + 1)
            len    == Stoi[Substr(buf, pos + 1, lenEnd - pos - 1)]
            data   == lenEnd + 2
        IN  CASE lenEnd = NPOS                   -> Incomplete
              [] ~len.ok                         -> Thrown
              [] len.val < 0                     -> NextElem(lenEnd + 2, <<>>)
              [] data + len.val + 2 > Len(buf)   -> Incomplete
              [] OTHER -> NextElem(data + len.val + 2, Substr(buf, data, len.val))

\* Mutant: the element count read one short, "for (int i = 1; i < count; ++i)".
parse_arrayShort(buf) ==
    LET crlf  == Find(buf, CRLF, 1)
        count == Stoi[Substr(buf, 1, crlf - 1)]
    IN  CASE crlf = NPOS -> Incomplete
          [] ~count.ok   -> Thrown
          [] OTHER       -> ArrayElems[[buf |-> buf, pos |-> crlf + 2,
                                         left |-> count.val - 1, tokens |-> <<>>]]

\* parse_array: the count line "*N\r\n", then N elements.
parse_array(buf) ==
    LET crlf  == Find(buf, CRLF, 1)
        count == Stoi[Substr(buf, 1, crlf - 1)]
    IN  CASE crlf = NPOS -> Incomplete
          [] ~count.ok   -> Thrown
          [] OTHER       -> ArrayElems[[buf |-> buf, pos |-> crlf + 2,
                                         left |-> count.val, tokens |-> <<>>]]

\* Split a line on white space, as the istringstream >> loop does: a word
\* starts at a non-space byte after a space or at the start, and the k-th
\* word starts at the k-th such byte.
Words[s \in Seq(STRING)] ==
    LET starts    == {i \in 1..Len(s) : ~IsSpace(s[i]) /\ (i = 1 \/ IsSpace(s[i - 1]))}
        Start(k)  == CHOOSE i \in starts : Cardinality({j \in starts : j < i}) = k - 1
        WordAt(i) == SubSeq(s, i, i - 1 + PrefixLen(SubSeq(s, i, Len(s)),
                                                    LAMBDA b : ~IsSpace(b)))
    IN  [k \in 1..Cardinality(starts) |-> WordAt(Start(k))]

\* The line ends at the first CRLF, else at the first LF, else it is the
\* whole buffer, consumed even though no terminator has arrived.
parse_inline(buf) ==
    LET crlf == Find(buf, CRLF, 0)
        lf   == Find(buf, <<LF>>, 0)
    IN  CASE crlf # NPOS -> Result(Words[SubSeq(buf, 1, crlf)], crlf + 2)
          [] lf # NPOS   -> Result(Words[SubSeq(buf, 1, lf)], lf + 1)
          [] OTHER       -> Result(Words[buf], Len(buf))

parse[buf \in Seq(STRING)] ==
    CASE buf = <<>>        -> Incomplete
      [] Head(buf) = "*"   -> parse_array(buf)
      [] OTHER             -> parse_inline(buf)

=============================================================================
