------------------------------- MODULE TextEdits -------------------------------
(***************************************************************************)
(* What AgentFilesystemService does with the text of a file: the lines     *)
(* that read shows, and the edits of write (_apply_update_action).         *)
(*                                                                         *)
(* A text is a sequence of tokens: pieces of a line and ends of lines.  LF *)
(* is "\n"; CRLF is "\r\n", and "\r" alone, which an added "\n" makes a    *)
(* "\r\n"; Sep is any other end of a line that splitlines knows (\v, \f,   *)
(* \x1c to \x1e, \x85, U+2028, U+2029).  Bin stands for bytes that are no  *)
(* UTF-8.                                                                  *)
(* "Wrong:" marks the definitions with a plausible mistake in them, kept   *)
(* to see that a property would find it; no action uses them.              *)
(***************************************************************************)
EXTENDS Naturals, Sequences, FiniteSets, SequencesExt


CONSTANTS LF, CRLF, Sep, Bin, None,
          Junk      \* a line selector that is no range

Newlines == {LF, CRLF, Sep}

IsBinary(text) == Contains(text, Bin)

(* read_text translates the ends of lines; read_bytes does not.            *)
Universal(text) == [i \in DOMAIN text |-> IF text[i] = CRLF THEN LF ELSE text[i]]

(* str.splitlines(keepends=True): a token starts a line when it is the     *)
(* first or follows the end of a line.                                     *)
Lines(text) ==
  LET lines[n \in 0..Len(text)] ==
        IF n = 0 THEN <<>>
        ELSE IF n = 1 \/ text[n - 1] \in Newlines THEN Append(lines[n - 1], <<text[n]>>)
        ELSE [lines[n - 1] EXCEPT ![Len(lines[n - 1])] = Append(@, text[n])]
  IN  lines[Len(text)]

(* What splitlines takes for the end of the last line, and what            *)
(* endswith("\n") does.                                                    *)
Closed(text)     == text # <<>> /\ Last(text) \in Newlines
Terminated(text) == text # <<>> /\ Last(text) \in {LF, CRLF}

Ended(text) == IF text = <<>> \/ Terminated(text) THEN text ELSE text \o <<LF>>

(* A line selector: None, Junk, or <<start, end>>.                         *)
ParseRange(lines) == IF lines = Junk THEN None ELSE lines

(* The lines that read shows, with their numbers.                          *)
InRange(numbered, range) == SelectSeq(numbered, LAMBDA n : range[1] <= n[1] /\ n[1] <= range[2])

SelectLines(text, lines, offset) ==
  LET all      == [i \in DOMAIN Lines(text) |-> <<i, Lines(text)[i]>>]
      range    == ParseRange(lines)
      selected == IF range = None THEN all ELSE InRange(all, range)
  IN  SubSeq(selected, offset + 1, Len(selected))

(* Appending starts a line of its own and ends it.                         *)
Appended(text, content) ==
  IF content = <<>> THEN text ELSE Ended(text) \o Ended(content)

RangeFits(text, range) ==
  /\ 1 <= range[1] /\ range[1] <= range[2]
  /\ range[2] <= IF text = <<>> THEN 1 ELSE Len(Lines(text))

EditAllowed(text, action, lines) ==
  CASE action = "append"                    -> lines = None
    [] action = "replace" /\ lines = None   -> TRUE
    [] OTHER -> ParseRange(lines) # None /\ RangeFits(text, ParseRange(lines))

(* Wrong: the line behind the range is dropped too.                        *)
KeptBehindShort(text, n) == SubSeq(Lines(text), n + 2, Len(Lines(text)))

KeptBehind(text, n) == SubSeq(Lines(text), n + 1, Len(Lines(text)))

KeptBefore(text, n) == SubSeq(Lines(text), 1, IF n < Len(Lines(text)) THEN n ELSE Len(Lines(text)))

(* _apply_update_action, on a text that it does not refuse.                *)
Edited(text, content, action, lines) ==
  LET range == ParseRange(lines)
      start == range[1]
      end   == range[2]
      new   == Lines(Ended(content))
  IN  CASE action = "append"        -> Appended(text, content)
        [] action = "replace" /\ lines = None -> content
        [] action = "replace" /\ lines # None -> FlattenSeq(KeptBefore(text, start - 1) \o new \o KeptBehind(text, end))
        [] action = "insert_before" -> FlattenSeq(KeptBefore(text, start - 1) \o new \o KeptBehind(text, start - 1))
        [] action = "insert_after"  -> FlattenSeq(KeptBefore(text, end) \o new \o KeptBehind(text, end))
        [] action = "delete_lines"  -> FlattenSeq(KeptBefore(text, start - 1) \o KeptBehind(text, end))

Actions == {"append", "replace", "insert_before", "insert_after", "delete_lines"}
===============================================================================
