------------------------------ MODULE LogBytes ------------------------------
(***************************************************************************)
(* The append-only file as characters.  The other modules take its lines   *)
(* for atoms; here a line is what a handler formats, write_all may stop    *)
(* half way (the process dies, or the disk is full and the error is        *)
(* ignored), and replay_aof finds lines and words again (main.rs,          *)
(* protocol.rs).                                                           *)
(*                                                                         *)
(* A character is a letter of any name or one of those that matter: the    *)
(* blank, the quote, the line end, and the two bytes of a letter that has  *)
(* two.  What start_aof_compactor writes has the same form.                *)
(***************************************************************************)
EXTENDS Integers, FiniteSets, SequencesExt

CONSTANTS
  Records,     \* what is logged: words, and which of them are put in quotes
  MaxRecords,  \* bound: how many
  Limit        \* a buffer of this length is written

Blank == "blank"
Quote == "quote"
LineEnd == "end"
Lead == "lead"
Rest == "rest"

\* the bytes are characters
IsText(line) ==
  \A i \in DOMAIN line :
    /\ line[i] = Lead => i < Len(line) /\ line[i + 1] = Rest
    /\ line[i] = Rest => i > 1 /\ line[i - 1] = Lead

\* what is formatted are Strings, and a String is text
ASSUME LogBytesAssumption ==
  /\ \A r \in Records :
       /\ r.words \in Seq(Seq(STRING)) /\ r.quoted \subseteq DOMAIN r.words
       /\ \A i \in DOMAIN r.words : IsText(r.words[i])
  /\ MaxRecords \in Nat /\ Limit \in Nat \ {0}

-----------------------------------------------------------------------------
(* Text from words, and words from text.                                   *)

\* the format! of a handler
Format(r) ==
  LET Word(i) == IF i \in r.quoted THEN <<Quote>> \o r.words[i] \o <<Quote>> ELSE r.words[i]
      Next(text, i) == text \o (IF i = 1 THEN <<>> ELSE <<Blank>>) \o Word(i)
  IN FoldLeft(Next, <<>>, [i \in DOMAIN r.words |-> i]) \o <<LineEnd>>

\* A run of characters comes to an end: it is kept unless it is empty.
Ended(parts, run) == IF run = <<>> THEN parts ELSE Append(parts, run)

\* Mutation: a quoted word is split at its blanks.
TokenizeBlanks(line) ==
  LET Take(s, ch) ==
        CASE ch = Quote -> s
          [] ch \in {Blank, LineEnd} ->
               [s EXCEPT !.tokens = Ended(@, s.current), !.current = <<>>]
          [] OTHER -> [s EXCEPT !.current = Append(@, ch)]
      end == FoldLeft(Take, [tokens |-> <<>>, current |-> <<>>], line)
  IN Ended(end.tokens, end.current)

Tokenize(line) ==
  LET Take(s, ch) ==
        CASE ch = Quote -> [s EXCEPT !.in_quotes = ~@]
          [] ch \in {Blank, LineEnd} /\ ~s.in_quotes ->
               [s EXCEPT !.tokens = Ended(@, s.current), !.current = <<>>]
          [] OTHER -> [s EXCEPT !.current = Append(@, ch)]
      end == FoldLeft(Take, [tokens |-> <<>>, current |-> <<>>, in_quotes |-> FALSE], line)
  IN Ended(end.tokens, end.current)

\* Mutation: a line end between quotes does not end the line.
LinesUnquoted(text) ==
  LET Take(s, ch) ==
        IF ch = LineEnd /\ ~s.in_quotes
        THEN [s EXCEPT !.lines = Append(@, s.open), !.open = <<>>]
        ELSE [s EXCEPT !.open = Append(@, ch),
                       !.in_quotes = IF ch = Quote THEN ~@ ELSE @]
      end == FoldLeft(Take, [lines |-> <<>>, open |-> <<>>, in_quotes |-> FALSE], text)
  IN Ended(end.lines, end.open)

\* BufReader::lines; what is left at the end is a line too
Lines(text) ==
  LET Take(s, ch) ==
        IF ch = LineEnd THEN [lines |-> Append(s.lines, s.open), open |-> <<>>]
                        ELSE [s EXCEPT !.open = Append(@, ch)]
      end == FoldLeft(Take, [lines |-> <<>>, open |-> <<>>], text)
  IN Ended(end.lines, end.open)

\* `while let Ok(Some(content))`: the first line that is no text ends the replay
Replayed(text) ==
  LET lines == Lines(text)
      read == {n \in 0 .. Len(lines) : \A i \in 1 .. n : IsText(lines[i])}
  IN [i \in 1 .. Max(read) |-> Tokenize(lines[i])]

-----------------------------------------------------------------------------
(* The writer.                                                             *)

VARIABLES
  file,
  buffer,
  queued,   \* history: the records in the buffer, with where each begins
  written,  \* history: those that are whole in the file
  tears,    \* history: where a write stopped half way
  logged    \* how many records there have been

vars == <<file, buffer, queued, written, tears, logged>>

Init ==
  /\ file = <<>>
  /\ buffer = <<>>
  /\ queued = {}
  /\ written = {}
  /\ tears = {}
  /\ logged = 0

Queue(r) ==
  /\ buffer' = buffer \o Format(r)
  /\ queued' = queued \cup
       {[record |-> r, from |-> Len(buffer) + 1, to |-> Len(buffer) + Len(Format(r))]}
  /\ logged' = logged + 1
  /\ UNCHANGED <<file, written, tears>>

\* a line is taken from the channel; a buffer at its limit is written first
Log(r) == logged < MaxRecords /\ Len(buffer) < Limit /\ Queue(r)

Put(n) ==
  /\ file' = file \o SubSeq(buffer, 1, n)
  /\ written' = written \cup
       {[q EXCEPT !.from = @ + Len(file), !.to = @ + Len(file)] : q \in {q \in queued : q.to <= n}}
  /\ buffer' = <<>>
  /\ queued' = {}
  /\ UNCHANGED logged

\* with the tick, or at the limit
Write == buffer # <<>> /\ Put(Len(buffer)) /\ UNCHANGED tears

\* The disk is full, which is ignored, or the process dies.  What else was in
\* the buffer is gone.
WriteStops(n) ==
  /\ n < Len(buffer)
  /\ Put(n)
  /\ tears' = IF n = 0 \/ buffer[n] = LineEnd THEN tears ELSE tears \cup {Len(file) + n}

Next ==
  \/ \E r \in Records : Log(r)
  \/ Write
  \/ \E n \in 0 .. Len(buffer) : WriteStops(n)

Spec == Init /\ [][Next]_vars

-----------------------------------------------------------------------------
(* Properties.                                                             *)

\* The words can be found again: none is empty, none has a quote or a line end
\* in it, and none has a blank that is not between quotes.
Plain(r) ==
  \A i \in DOMAIN r.words :
    LET has == {r.words[i][j] : j \in DOMAIN r.words[i]}
    IN has # {} /\ has \cap {Quote, LineEnd} = {} /\ (Blank \in has => i \in r.quoted)

LineOf(w) == Cardinality({i \in 1 .. w.from - 1 : file[i] = LineEnd}) + 1

ReadBack(w) ==
  LET lines == Replayed(file)
  IN LineOf(w) \in DOMAIN lines /\ lines[LineOf(w)] = w.record.words

\* Every plain record before the first tear is read back word by word, in its
\* place, whatever is written next to it: values with blanks, letters of two
\* bytes, and also values with line ends or odd quotes, which spoil only
\* themselves (tokenize, replay_aof).
ReadUpToTear ==
  \A w \in written : Plain(w.record) /\ (\A t \in tears : w.to <= t) => ReadBack(w)

\* A write that stops between two characters costs, of what was written whole,
\* at most the one record it is glued to (start_aof_writer, replay_aof).
OneLinePerTear ==
  (\A t \in tears : file[t] # Lead) =>
    Cardinality({w \in written : Plain(w.record) /\ ~ReadBack(w)}) <= Cardinality(tears)
=============================================================================
