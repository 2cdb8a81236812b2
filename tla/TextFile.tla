------------------------------- MODULE TextFile -------------------------------
(***************************************************************************)
(* The position of one open file (CFileSystem, src/tier0/filesystem.cpp)   *)
(* and what its client reads there: bytes, lines, and, from the read       *)
(* buffer, the tokens of ParseFile.                                        *)
(*                                                                         *)
(* A byte is one of five: the two that end lines, which are white space,   *)
(* a quote, a brace, and one that stands for all others.                   *)
(***************************************************************************)
EXTENDS Integers, Sequences, SequencesExt, FiniteSetsExt

CONSTANTS
  MaxText,    \* bound: length of the file
  MaxReads,   \* bound: lines or tokens read one after another
  LineSize,   \* sizes of the client's line buffer
  PrintSize   \* size of the buffer FPrintf formats into (4096)

ASSUME TextAssumption ==
  {MaxText, MaxReads} \subseteq Nat /\ LineSize \cup {PrintSize} \subseteq Nat \ {0, 1}

CR == "r"
LF == "n"
Quote == "q"
Brace == "b"
Character == {CR, LF, Quote, Brace, "c"}

VARIABLES
  text,   \* the file
  pos,    \* its position
  lines,  \* history: what ReadLine returned since the position was last set,
          \* and what ended each line; the last one may be NULL
  mark,   \* history: where it was set to
  parsed, \* how far ParseFile came in the buffer
  tokens  \* history: the tokens, and the bytes each took

textVars == <<text, pos, lines, mark, parsed, tokens>>

TextInit ==
  /\ text \in SeqOf(Character, MaxText)
  /\ pos = 0 /\ mark = 0 /\ lines = <<>>
  /\ parsed = 0 /\ tokens = <<>>

TextSize == Len(text)
EndOfFile(p) == p >= TextSize
ByteAt(p) == text[p + 1]
Bytes(p, q) == SubSeq(text, p + 1, q)

(* The client is elsewhere in the file, or the file is another: what it    *)
(* reads next starts there.                                                *)
MarkAt(p) == pos' = p /\ mark' = p /\ lines' = <<>>

-----------------------------------------------------------------------------
(* Seek, wherever the position is counted from; the system refuses one     *)
(* before the start and allows one behind the end.                         *)
SeekText(p) ==
  /\ MarkAt(p)
  /\ UNCHANGED <<text, parsed, tokens>>

ReadText(size) ==
  /\ MarkAt(IF EndOfFile(pos) THEN pos ELSE Min({pos + size, TextSize}))
  /\ UNCHANGED <<text, parsed, tokens>>

(* Write puts its bytes at the position, behind zeros if that is behind    *)
(* the end; the buffer goes, and ParseFile has to start again.             *)
WriteText(size) ==
  /\ pos + size <= MaxText
  /\ text' = [i \in 1 .. Max({pos + size, TextSize}) |->
                IF i \in 1 .. TextSize /\ i \notin pos + 1 .. pos + size THEN text[i] ELSE "c"]
  /\ MarkAt(pos + size)
  /\ parsed' = 0 /\ tokens' = <<>>

FPrintf(length) == WriteText(Min({length, PrintSize - 1}))

(* GetReadBuffer, where the file cannot be mapped, reads all of it and     *)
(* goes back to where it was; the client parses what it got.               *)
BufferText ==
  /\ TextSize > 0 /\ parsed > 0
  /\ pos' = pos
  /\ parsed' = 0 /\ tokens' = <<>>
  /\ UNCHANGED <<text, mark, lines>>

-----------------------------------------------------------------------------
(* ReadLine: bytes are taken until the client's buffer is full, the file   *)
(* is at its end, or a line ends.  A CR takes the LF that follows it along.*)
TakenFrom(p, room) ==
  Min({n \in 0 .. room : n = room \/ EndOfFile(p + n) \/ ByteAt(p + n) \in {CR, LF}})

(* Faulty: what follows a CR is taken, whatever it is.                     *)
EndsWithAny(p) ==
  CASE EndOfFile(p) -> <<>>
    [] ByteAt(p) = CR -> Bytes(p, Min({p + 2, TextSize}))
    [] OTHER -> <<ByteAt(p)>>

EndsWith(p) ==
  CASE EndOfFile(p) -> <<>>
    [] ByteAt(p) = CR /\ ~EndOfFile(p + 1) /\ ByteAt(p + 1) = LF -> <<CR, LF>>
    [] OTHER -> <<ByteAt(p)>>

ReadLine(maxChars) ==
  LET n == TakenFrom(pos, maxChars - 1)
      end == IF n = maxChars - 1 THEN <<>> ELSE EndsWith(pos + n)
      next == pos + n + Len(end)
  IN /\ Len(lines) < MaxReads
     /\ pos' = next
     /\ lines' = Append(lines,
          [line |-> Bytes(pos, pos + n), end |-> end, room |-> maxChars - 1,
           null |-> n = 0 /\ EndOfFile(next)])
     /\ UNCHANGED <<text, mark, parsed, tokens>>

-----------------------------------------------------------------------------
(* ParseFile: white space is skipped; a token is what two quotes enclose,  *)
(* a brace, or what comes before white space, a quote or a brace.          *)
RunFrom(p, ends) ==
  Min({n \in 0 .. TextSize : EndOfFile(p + n) \/ ByteAt(p + n) \in ends})

White == {CR, LF}

(* The length of a token, or of a quoted one with its quotes.              *)
TokenLength(p) ==
  CASE ByteAt(p) = Quote ->
         LET n == RunFrom(p + 1, {Quote})
         IN IF EndOfFile(p + 1 + n) THEN n + 1 ELSE n + 2
    [] ByteAt(p) = Brace -> 1
    [] OTHER -> RunFrom(p, White \cup {Quote, Brace})

ParseFile ==
  LET p == parsed + RunFrom(parsed, Character \ White) IN
  /\ Len(tokens) < MaxReads
  /\ ~EndOfFile(p)
  /\ parsed' = p + TokenLength(p)
  /\ tokens' = Append(tokens, [white |-> Bytes(parsed, p), token |-> Bytes(p, parsed')])
  /\ UNCHANGED <<text, pos, mark, lines>>

-----------------------------------------------------------------------------
TextNext ==
  \/ \E p \in 0 .. MaxText : SeekText(p)
  \/ \E size \in 1 .. 2 : ReadText(size) \/ WriteText(size)
  \/ \E length \in 1 .. PrintSize : FPrintf(length)
  \/ BufferText
  \/ \E maxChars \in LineSize : ReadLine(maxChars)
  \/ ParseFile

TextSpec == TextInit /\ [][TextNext]_textVars

-----------------------------------------------------------------------------
(* Lines read one after another make up the file: no byte of it is lost or *)
(* read twice, only ends of lines are left out, and an end of two bytes is *)
(* taken as one.  NULL comes at the end of the file only.                  *)
LinesTileFile ==
  /\ FlattenSeq([i \in DOMAIN lines |-> lines[i].line \o lines[i].end]) = Bytes(mark, pos)
  /\ \A i \in DOMAIN lines :
       /\ Range(lines[i].line) \cap {CR, LF} = {}
       /\ lines[i].end \in {<<>>, <<CR>>, <<LF>>, <<CR, LF>>}
       /\ lines[i].end = <<>> /\ Len(lines[i].line) < lines[i].room => EndOfFile(pos)
       /\ lines[i].null => EndOfFile(pos)
       /\ \A j \in i + 1 .. Len(lines) :
            /\ lines[i].null => lines[j].null
            /\ j = i + 1 /\ lines[i].end = <<CR>> => lines[j].line # <<>> \/ lines[j].end # <<LF>>

(* The same for tokens: each takes what it consists of and no more, and    *)
(* only an unfinished quoted one is without its second quote.              *)
TokensTileFile ==
  /\ FlattenSeq([i \in DOMAIN tokens |-> tokens[i].white \o tokens[i].token]) = Bytes(0, parsed)
  /\ \A i \in DOMAIN tokens :
       LET token == tokens[i].token
           inner == Range(SubSeq(token, 2, Len(token) - 1)) IN
       /\ Range(tokens[i].white) \subseteq White
       /\ token # <<>>
       /\ \/ token = <<Brace>>
          \/ Range(token) = {"c"}
          \/ Head(token) = Quote /\ Len(token) > 1 /\ Last(token) = Quote /\ Quote \notin inner
          \/ Head(token) = Quote /\ i = Len(tokens) /\ EndOfFile(parsed)

(* What is read of the file is the file: see the two above.                *)
TextInOrder == LinesTileFile /\ TokensTileFile

=============================================================================
