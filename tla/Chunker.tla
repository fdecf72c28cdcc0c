------------------------------- MODULE Chunker -------------------------------
(***************************************************************************)
(* ChunkText (kb/chunker.go): paragraphs longer than MaxChars are cut into *)
(* pieces at sentences, and a sentence longer than that by length; pieces  *)
(* are gathered into chunks; a chunk carries the end of the one before it. *)
(*                                                                         *)
(* A text is its paragraphs, a paragraph the places where its sentences    *)
(* end.  Characters are numbered through the text, without the separators  *)
(* the code drops and puts back; a piece or chunk is the range of          *)
(* characters it holds and its length with separators.  TrimSpace takes    *)
(* the separators at the end off; sentences have no blanks at their ends.  *)
(***************************************************************************)
EXTENDS Integers, Sequences, FiniteSets

CONSTANTS
    MaxChars,        \* opt.MaxChars (2000)
    OverlapChars,    \* opt.OverlapChars (200)
    MaxSentence,     \* bound: length of a sentence
    SentenceLengths, \* the lengths tried, up to MaxSentence
    MaxSentences,    \* bound: sentences of a paragraph
    MaxParagraphs    \* bound: paragraphs of a text

\* ChunkText replaces any other options by these.
ASSUME ChunkerAssumption ==
    /\ MaxChars \in Nat \ {0}
    /\ OverlapChars \in 0..(MaxChars - 1)
    /\ {MaxSentence, MaxSentences, MaxParagraphs} \subseteq Nat
    /\ SentenceLengths \subseteq 1..MaxSentence

VARIABLES
    chunkStep,   \* "input", "split", "gather", "end"
    paragraphs,  \* paragraphs still to expand
    sentences,   \* splitOversized: lengths of the sentences still to place
    position,    \* characters of the text already in pieces or in pieceBuf
    pieceBuf,    \* buf of splitOversized
    pieces,      \* expanded
    chunkBuf,    \* buf of ChunkText
    pieceAt,     \* next piece to gather
    chunkOut     \* out

chunkVars == <<chunkStep, paragraphs, sentences, position, pieceBuf, pieces, chunkBuf, pieceAt,
               chunkOut>>

\* Characters first..last, and the length with separators; len 0: empty.
TextRange(f, l, n) == [first |-> f, last |-> l, len |-> n]
NoText == [first |-> 0, last |-> 0, len |-> 0]

\* A paragraph: its characters up to the end of each sentence.
SentenceLength(p, i) == p[i] - (IF i = 1 THEN 0 ELSE p[i - 1])

\* len(p): its characters and a blank after each sentence but the last.
ParagraphLength(p) == p[Len(p)] + Len(p) - 1

Paragraphs ==
    UNION {{p \in [1..n -> 1..(n * MaxSentence)] :
                \A i \in 1..n : SentenceLength(p, i) \in SentenceLengths} : n \in 1..MaxSentences}

Texts == UNION {[1..n -> Paragraphs] : n \in 1..MaxParagraphs}

ChunkTypeOK ==
    /\ chunkStep \in {"input", "split", "gather", "end"}
    /\ \A i \in DOMAIN sentences : sentences[i] \in 1..MaxSentence
    /\ position \in Nat /\ pieceAt \in 1..(Len(pieces) + 1)
    /\ \A b \in {pieceBuf, chunkBuf} : b.len \in Nat /\ b.first <= b.last + 1

ChunkInit ==
    /\ chunkStep = "input"
    /\ paragraphs = <<>> /\ sentences = <<>> /\ pieces = <<>> /\ chunkOut = <<>>
    /\ position = 0 /\ pieceAt = 1
    /\ pieceBuf = NoText /\ chunkBuf = NoText

ChunkInput ==
    /\ chunkStep = "input"
    /\ paragraphs' \in Texts
    /\ chunkStep' = "split"
    /\ UNCHANGED <<sentences, position, pieceBuf, pieces, chunkBuf, pieceAt, chunkOut>>

----------------------------------------------------------------------------
(* splitParagraphs and splitOversized.                                      *)

\* A paragraph that fits is one piece.
WholeParagraph ==
    /\ chunkStep = "split" /\ sentences = <<>> /\ paragraphs # <<>>
    /\ LET p == Head(paragraphs) IN
          /\ ParagraphLength(p) <= MaxChars
          /\ position' = position + p[Len(p)]
          /\ pieces' = Append(pieces, TextRange(position + 1, position + p[Len(p)],
                                               ParagraphLength(p)))
    /\ paragraphs' = Tail(paragraphs)
    /\ UNCHANGED <<chunkStep, sentences, pieceBuf, chunkBuf, pieceAt, chunkOut>>

\* One that does not is taken apart.
OversizedParagraph ==
    /\ chunkStep = "split" /\ sentences = <<>> /\ paragraphs # <<>>
    /\ LET p == Head(paragraphs) IN
          /\ ParagraphLength(p) > MaxChars
          /\ sentences' = [i \in 1..Len(p) |-> SentenceLength(p, i)]
    /\ paragraphs' = Tail(paragraphs)
    /\ UNCHANGED <<chunkStep, position, pieceBuf, pieces, chunkBuf, pieceAt, chunkOut>>

\* buf: the blank written after the last sentence is not counted in len.
BufLen == IF pieceBuf.len = 0 THEN 0 ELSE pieceBuf.len + 1

WithSentence(buf, n) ==
    IF buf.len = 0 THEN TextRange(position + 1, position + n, n)
    ELSE TextRange(buf.first, position + n, buf.len + 1 + n)

Flushed == IF pieceBuf.len = 0 THEN pieces ELSE Append(pieces, pieceBuf)

\* A bug to look for: off by one.
TooLongByTwo(n) == n > MaxChars + 1

TooLong(n) == n > MaxChars

\* A sentence that is too long: MaxChars of it become a piece, the rest stays.
HardSplit ==
    /\ chunkStep = "split" /\ sentences # <<>>
    /\ TooLong(Head(sentences))
    /\ pieces' = Append(Flushed, TextRange(position + 1, position + MaxChars, MaxChars))
    /\ position' = position + MaxChars
    /\ sentences' = [sentences EXCEPT ![1] = @ - MaxChars]
    /\ pieceBuf' = NoText
    /\ UNCHANGED <<chunkStep, paragraphs, chunkBuf, pieceAt, chunkOut>>

Fits(n) == BufLen + n + 1 <= MaxChars \/ BufLen = 0

\* A bug to look for: the piece is started anew without being kept.
DropsBuffer(n) == pieces

\* flush() before a sentence that does not fit.
PiecesBefore(n) == IF Fits(n) THEN pieces ELSE Flushed

\* A sentence joins the buffer, or the buffer is flushed first; the end of the
\* paragraph is the end of a piece.
AddSentence ==
    /\ chunkStep = "split" /\ sentences # <<>>
    /\ LET n == Head(sentences)
           buf == WithSentence(IF Fits(n) THEN pieceBuf ELSE NoText, n)
           last == Tail(sentences) = <<>>
       IN /\ ~ TooLong(n)
          /\ position' = position + n
          /\ pieces' = IF last THEN Append(PiecesBefore(n), buf) ELSE PiecesBefore(n)
          /\ pieceBuf' = IF last THEN NoText ELSE buf
    /\ sentences' = Tail(sentences)
    /\ UNCHANGED <<chunkStep, paragraphs, chunkBuf, pieceAt, chunkOut>>

SplitDone ==
    /\ chunkStep = "split" /\ sentences = <<>> /\ paragraphs = <<>>
    /\ chunkStep' = "gather"
    /\ UNCHANGED <<paragraphs, sentences, position, pieceBuf, pieces, chunkBuf, pieceAt, chunkOut>>

----------------------------------------------------------------------------
(* The chunks.                                                              *)

\* A bug to look for: the whole chunk is carried over.
CarriedWhole(c) == c

\* What flush leaves in buf: the last OverlapChars of the chunk and a newline.
\* The range of the tail is at most that long; its separators may make it
\* hold fewer characters.
CarriedTail(c) ==
    IF OverlapChars > 0 /\ c.len > OverlapChars
    THEN TextRange(c.last + 1 - OverlapChars, c.last, OverlapChars)
    ELSE NoText

\* buf.Len(): two newlines after each piece.
ChunkBufLen == IF chunkBuf.len = 0 THEN 0 ELSE chunkBuf.len + 2

Joined(buf, p, gap) ==
    IF buf.len = 0 THEN p ELSE TextRange(buf.first, p.last, buf.len + gap + p.len)

\* `chunkBuf` holds pieces here, never only a tail: the loop writes a piece
\* after every flush.
GatherPiece ==
    /\ chunkStep = "gather" /\ pieceAt <= Len(pieces)
    /\ LET p == pieces[pieceAt] IN
          IF chunkBuf.len > 0 /\ ChunkBufLen + p.len + 1 > MaxChars
          THEN /\ chunkOut' = Append(chunkOut, chunkBuf)
               /\ chunkBuf' = Joined(CarriedTail(chunkBuf), p, 1)
          ELSE /\ chunkBuf' = Joined(chunkBuf, p, 2)
               /\ UNCHANGED chunkOut
    /\ pieceAt' = pieceAt + 1
    /\ UNCHANGED <<chunkStep, paragraphs, sentences, position, pieceBuf, pieces>>

LastFlush ==
    /\ chunkStep = "gather" /\ pieceAt > Len(pieces)
    /\ chunkOut' = IF chunkBuf.len = 0 THEN chunkOut ELSE Append(chunkOut, chunkBuf)
    /\ chunkBuf' = NoText
    /\ chunkStep' = "end"
    /\ UNCHANGED <<paragraphs, sentences, position, pieceBuf, pieces, pieceAt>>

ChunkNext ==
    \/ ChunkInput \/ WholeParagraph \/ OversizedParagraph \/ HardSplit \/ AddSentence
    \/ SplitDone \/ GatherPiece \/ LastFlush

ChunkSpec == ChunkInit /\ [][ChunkNext]_chunkVars

----------------------------------------------------------------------------
(* Properties.                                                              *)

\* No piece is longer than MaxChars, however sentences fall.
PiecesFit == \A i \in DOMAIN pieces : pieces[i].len <= MaxChars

\* No chunk is longer than MaxChars, the overlap and the newline between.
ChunksFit == \A i \in DOMAIN chunkOut : chunkOut[i].len <= MaxChars + OverlapChars + 1

\* Every character of the text is in a chunk; the chunks are in order and none
\* begins after the place where the one before it ends.
ChunksCoverText ==
    chunkStep = "end" =>
        /\ chunkOut # <<>>
        /\ chunkOut[1].first = 1
        /\ chunkOut[Len(chunkOut)].last = position
        /\ \A i \in 1..(Len(chunkOut) - 1) :
              /\ chunkOut[i].last < chunkOut[i + 1].last
              /\ chunkOut[i + 1].first <= chunkOut[i].last + 1

\* Pieces and chunks keep their lengths and together hold the whole text
\* (ChunkText, splitOversized).
ChunkInv == ChunkTypeOK /\ PiecesFit /\ ChunksFit /\ ChunksCoverText
=============================================================================
