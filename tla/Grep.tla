-------------------------------- MODULE Grep --------------------------------
(***************************************************************************)
(* src/worker/grep.go: the search of file contents, with ripgrep where it  *)
(* is installed and with the Go fallback otherwise.  A line matches when   *)
(* it has the byte "x"; the pattern "(" does not compile; the byte "L" is  *)
(* a stretch of text longer than 64 KB.  ripgrep itself is external: the   *)
(* messages it prints are those its --json format defines.  The order of   *)
(* the matches in an answer is left out.                                   *)
(***************************************************************************)
EXTENDS Files

CONSTANTS Skipped,  \* hidden files and directories, and those that an ignore file names
          OnlyName  \* the glob filter of a call that has one: a file name

ASSUME GrepAssumption == Skipped \subseteq Places /\ OnlyName \in Segment

\* strings.Split at newlines, byte by byte.
SplitByte(ls, b) == IF b = "nl" THEN Append(ls, <<>>) ELSE [ls EXCEPT ![Len(ls)] = Append(@, b)]
SplitLines(data) ==
  LET split[k \in 0..Len(data)] == IF k = 0 THEN << <<>> >> ELSE SplitByte(split[k - 1], data[k])
  IN split[Len(data)]

\* The lines as ripgrep counts them: nothing follows a final newline.
TextLines(data) ==
  LET ls == SplitLines(data) IN IF Last(ls) = <<>> THEN Front(ls) ELSE ls

Matches(line) == Contains(line, "x")
MatchOf(p, n, line) == [path |-> p, line |-> n, content |-> line, before |-> <<>>, after |-> <<>>]

-----------------------------------------------------------------------------
(* The Go implementation *)

\* The match in line n of ls with the lines around it; a context below one is none.
LineMatch(ls, p, n, c) ==
  LET around(a, b) == IF c > 0 THEN SubSeq(ls, a, b) ELSE <<>>
  IN [MatchOf(p, n, ls[n]) EXCEPT !.before = around(IF n > c THEN n - c ELSE 1, n - 1),
                                  !.after = around(n + 1, IF n + c < Len(ls) THEN n + c ELSE Len(ls))]

\* A binary file has no matches.
searchFile(data, p, contextLines) ==
  LET search(ls) == {LineMatch(ls, p, n, contextLines) : n \in {k \in 1..Len(ls) : Matches(ls[k])}}
  IN IF Contains(data, "0") THEN {} ELSE search(SplitLines(data))

\* The files WalkDir reaches below dir: a link to a file is read, a link to a directory
\* fails to be and is skipped.  The glob filter is matched with the whole path below dir.
Searched(f, dir, globFilter) ==
  {q \in Entries(f, dir) : /\ f[q].t \in {"file", "link"} /\ At(f, Walk(f, q).path).t = "file"
                           /\ globFilter => RelPath(dir, q) = <<OnlyName>>}

grepWithGo(f, dir, pattern, globFilter, contextLines) ==
  IF pattern = "(" THEN [code |-> "InvalidArgument", matches |-> {}]
  ELSE [code |-> "ok",
        matches |-> UNION {searchFile(At(f, Walk(f, q).path).data, RelPath(dir, q), contextLines) :
                           q \in Searched(f, dir, globFilter)}]

-----------------------------------------------------------------------------
(* ripgrep and the parser of its output *)

\* What ripgrep prints about one file: its matches and, once each, the lines
\* within c lines of one, in the order of the file.
Hits(ls) == {n \in 1..Len(ls) : Matches(ls[n])}
Near(ls, n, c) == \E h \in Hits(ls) : n - c <= h /\ h <= n + c
Message(ls, n) == [type |-> IF n \in Hits(ls) THEN "match" ELSE "context", line |-> n, text |-> ls[n]]
Printed(ls, c) ==
  LET printed[n \in 0..Len(ls)] ==
        IF n = 0 THEN << [type |-> "begin"] >>
        ELSE IF Near(ls, n, c) THEN Append(printed[n - 1], Message(ls, n)) ELSE printed[n - 1]
  IN printed[Len(ls)]
RipgrepJSON(data, c) ==
  LET print(ls) == IF Hits(ls) = {} \/ Contains(data, "0") THEN <<>> ELSE Printed(ls, c)
  IN print(TextLines(data))

\* Mutant: a context line is taken for a match.
ParseAll(ms, m, p) == IF m.type = "begin" THEN ms ELSE Append(ms, MatchOf(p, m.line, m.text))

\* One message: a match becomes the current one; a context line goes to the
\* current match, and is lost while there is none.
ParseMessage(ms, m, p) ==
  LET current == Len(ms)
  IN CASE m.type = "match" -> Append(ms, MatchOf(p, m.line, m.text))
       [] m.type = "context" /\ current > 0 /\ m.line < ms[current].line ->
            [ms EXCEPT ![current].before = Append(@, m.text)]
       [] m.type = "context" /\ current > 0 /\ m.line > ms[current].line ->
            [ms EXCEPT ![current].after = Append(@, m.text)]
       [] OTHER -> ms

\* The matches of one file ("begin" forgets the current match of the file before).
parseRipgrepJSON(messages, p) ==
  LET parsed[k \in 0..Len(messages)] ==
        IF k = 0 THEN <<>> ELSE ParseMessage(parsed[k - 1], messages[k], p)
  IN parsed[Len(messages)]

\* bufio.Scanner gives up at a message that is too long; the error, which has no code,
\* is then the answer.
TooLong(messages) ==
  \E i \in 1..Len(messages) : messages[i].type # "begin" /\ Contains(messages[i].text, "L")

\* ripgrep reads no links and goes into nothing that is skipped.  A --glob without a
\* slash is a name at any depth, and a file that it names is not skipped.
RipgrepFiles(f, dir, globFilter) ==
  {q \in Entries(f, dir) :
     /\ f[q].t = "file" /\ (globFilter => Last(q) = OnlyName)
     /\ ~\E p \in Skipped : Below(dir, p) /\ IsPrefix(p, q) /\ (globFilter => p # q)}

\* ripgrep exits with 1 without a match, with 2 on an error.
grepWithRipgrep(f, dir, pattern, globFilter, contextLines) ==
  LET c == IF contextLines > 0 THEN contextLines ELSE 0
      output(q) == RipgrepJSON(f[q].data, c)
      files == RipgrepFiles(f, dir, globFilter)
  IN CASE pattern = "(" -> [code |-> "InvalidArgument", matches |-> {}]
       [] pattern # "(" /\ (\E q \in files : TooLong(output(q))) -> [code |-> "Unknown", matches |-> {}]
       [] OTHER -> [code |-> "ok",
                    matches |-> UNION {Range(parseRipgrepJSON(output(q), RelPath(dir, q))) : q \in files}]

grep(f, home, rg, pattern, req, globFilter, contextLines) ==
  LET search(code, dir) ==
        CASE code # "ok" -> [code |-> code, matches |-> {}]
          [] code = "ok" /\ rg -> grepWithRipgrep(f, dir, pattern, globFilter, contextLines)
          [] OTHER -> grepWithGo(f, dir, pattern, globFilter, contextLines)
      validated(v) == search(FirstOf(DirChecks(f, v)), v.path)
  IN validated(ValidatePath(f, home, req))
=============================================================================
