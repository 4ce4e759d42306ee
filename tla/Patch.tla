------------------------------- MODULE Patch --------------------------------
(***************************************************************************)
(* patch.py: what normalize_diff_text and parse_unified_diff make of the   *)
(* lines of a diff, where its hunks are found in a file, and what          *)
(* apply_patch does to the files of a clone, where any write may fail.  A  *)
(* line of a file is an element of Lines; a text is the sequence of its    *)
(* lines, so a missing newline at the end is left out.                     *)
(***************************************************************************)
EXTENDS Integers, SequencesExt, FiniteSets

CONSTANTS
  Lines,         \* what a line of a file may be
  Blank,         \* the lines with nothing but blanks
  Trim,          \* a line without the blanks at its end
  Dashed,        \* the lines that begin with "-- "
  Plussed,       \* the lines that begin with "++ "
  Names,         \* the path that the rest of such a line is
  Broken,        \* the lines with which a file of Python does not parse
  Paths,         \* the paths in the clone
  NoFile,        \* /dev/null in a diff, a missing file in a clone
  Torn,          \* what is in a file whose write has failed
  SearchWindow   \* _SEARCH_WINDOW

ASSUME PatchAssumption ==
  /\ Broken \cup Blank \cup Dashed \cup Plussed \subseteq Lines /\ Trim \in [Lines -> Lines]
  /\ Names \in [Dashed \cup Plussed -> Paths \cup {NoFile}]
  /\ NoFile \notin Paths \cup Seq(Lines) /\ Torn \notin Seq(Lines) \cup {NoFile}
  /\ SearchWindow \in Nat

NotFound == -1

Hunk(start, old, new) == [start |-> start, old |-> old, new |-> new]
FilePatch(old, new, hunks) == [old |-> old, new |-> new, hunks |-> hunks]

-----------------------------------------------------------------------------
(* normalize_diff_text.  A line of a diff is a record of what it begins with, *)
(* its tag, and of its content: "---" and "+++" have a path, "@@" the first    *)
(* line of the old side, " ", "-" and "+" a line of a file.  "@@?" is a header *)
(* without a number, "fence" the beginning or end of a block, "preamble" a     *)
(* line that git puts before "---", "\" and "other" any other line.            *)

IsBlank(line) == line.tag = " " /\ line.content \in Blank
Trimmed(line) == IF line.tag \in {" ", "-", "+"} THEN [line EXCEPT !.content = Trim[@]] ELSE line

\* strip: the blank lines at both ends go, and the blanks after the last line.
Stripped(diff) ==
  LET solid == {i \in DOMAIN diff : ~ IsBlank(diff[i])}
      last == Max(solid)
  IN  IF solid = {} THEN <<>>
      ELSE SubSeq([diff EXCEPT ![last] = Trimmed(@)], Min(solid), last)

\* The fences around a diff.
Unfenced(diff) ==
  IF diff = <<>> \/ diff[1].tag # "fence" THEN diff
  ELSE LET end == IF Len(diff) > 1 /\ diff[Len(diff)].tag = "fence" THEN Len(diff) - 1 ELSE Len(diff)
       IN  Stripped(SubSeq(diff, 2, end))

Kept(diff) ==
  LET kept[i \in 0 .. Len(diff)] ==
        IF i = 0 THEN <<>>
        ELSE IF diff[i].tag = "preamble" THEN kept[i - 1] ELSE Append(kept[i - 1], diff[i])
  IN  kept[Len(diff)]

Normal(diff) == Stripped(Kept(Unfenced(Stripped(diff))))

-----------------------------------------------------------------------------
(* parse_unified_diff.  A removed line "-- x" is printed as "--- x", and the    *)
(* code takes it for the name of a file, whether or not a hunk is being read.   *)
(* The diffs have no "+++" that is neither that of a file nor an added line.    *)

IsOld(line) == line.tag = "---" \/ (line.tag = "-" /\ line.content \in Dashed)
IsNew(line) == line.tag = "+++" \/ (line.tag = "+" /\ line.content \in Plussed)
PathOf(line) == IF line.tag \in {"---", "+++"} THEN line.content ELSE Names[line.content]

\* flush_hunk: the open hunk is added to the last file.
Flushed(s) ==
  IF s.open THEN [s EXCEPT !.open = FALSE, !.files[Len(s.files)].hunks = Append(@, s.hunk)]
            ELSE s

\* One line, given the one that follows it ("other" at the end).  "+++" is only
\* looked for after "---".
ParseLine(s, line, next) ==
  IF ~ s.ok THEN s
  ELSE CASE IsOld(line) ->
         IF IsNew(next)
           THEN [Flushed(s) EXCEPT !.files = Append(@, FilePatch(PathOf(line), PathOf(next), <<>>))]
           ELSE [s EXCEPT !.ok = FALSE]
    [] line.tag = "@@?" -> [s EXCEPT !.ok = FALSE]
    [] line.tag = "@@" ->
         IF s.files = <<>> THEN [s EXCEPT !.ok = FALSE]
         ELSE [Flushed(s) EXCEPT !.open = TRUE, !.hunk = Hunk(line.content, <<>>, <<>>)]
    [] s.open /\ line.tag = " " ->
         [s EXCEPT !.hunk.old = Append(@, line.content), !.hunk.new = Append(@, line.content)]
    [] s.open /\ line.tag = "-" /\ ~ IsOld(line) -> [s EXCEPT !.hunk.old = Append(@, line.content)]
    [] s.open /\ line.tag = "+" -> [s EXCEPT !.hunk.new = Append(@, line.content)]
    [] line.tag \in {"other", "fence"} -> Flushed(s)
    [] OTHER -> s

Other == [tag |-> "other", content |-> NoFile]

\* What has been read of a diff after each of its lines.
Reading(diff) ==
  LET read[i \in 0 .. Len(diff)] ==
        IF i = 0 THEN [files |-> <<>>, open |-> FALSE, hunk |-> Hunk(0, <<>>, <<>>), ok |-> TRUE]
        ELSE ParseLine(read[i - 1], diff[i], IF i < Len(diff) THEN diff[i + 1] ELSE Other)
  IN  read

Parse(diff) ==
  LET last == Flushed(Reading(diff)[Len(diff)])
  IN  [files |-> last.files, ok |-> last.ok /\ last.files # <<>>]

-----------------------------------------------------------------------------
(* _locate and _apply_hunks.  Positions count from 0. *)

Occurs(needle, text, pos) ==
  pos + Len(needle) <= Len(text) /\ SubSeq(text, pos + 1, pos + Len(needle)) = needle

\* The guess, or else the first position of the window around it.
Locate(text, needle, guess) ==
  LET window == {p \in (guess - SearchWindow) .. (guess + SearchWindow) :
                   p >= 0 /\ Occurs(needle, text, p)}
  IN  IF needle = <<>> THEN IF guess < Len(text) THEN guess ELSE Len(text)
      ELSE IF Occurs(needle, text, guess) THEN guess
      ELSE IF window = {} THEN NotFound
      ELSE CHOOSE p \in window : \A q \in window : p <= q

Spliced(text, pos, count, lines) ==
  SubSeq(text, 1, pos) \o lines \o SubSeq(text, pos + count + 1, Len(text))

\* Faulty variant of ApplyHunk: the lines that hunks before it have added or
\* removed are not counted.
ApplyHunkUnshifted(s, hunk) ==
  LET guess == IF hunk.start > 1 THEN hunk.start - 1 ELSE 0
      pos == Locate(s.text, hunk.old, guess)
  IN  IF ~ s.ok THEN s
      ELSE IF pos = NotFound THEN [s EXCEPT !.ok = FALSE]
      ELSE [s EXCEPT !.text = Spliced(@, pos, Len(hunk.old), hunk.new)]

\* s.shift counts the lines that the hunks before this one have added.
ApplyHunk(s, hunk) ==
  LET at == hunk.start - 1 + s.shift
      pos == Locate(s.text, hunk.old, IF at > 0 THEN at ELSE 0)
  IN  IF ~ s.ok THEN s
      ELSE IF pos = NotFound THEN [s EXCEPT !.ok = FALSE]
      ELSE [s EXCEPT !.text = Spliced(@, pos, Len(hunk.old), hunk.new),
                     !.shift = @ + Len(hunk.new) - Len(hunk.old)]

ApplyHunks(original, hunks) ==
  LET applied[i \in 0 .. Len(hunks)] ==
        IF i = 0 THEN [text |-> original, shift |-> 0, ok |-> TRUE]
        ELSE ApplyHunk(applied[i - 1], hunks[i])
  IN  applied[Len(hunks)]

-----------------------------------------------------------------------------
(* apply_patch.  A disk is a function from Paths to a text or NoFile. *)

ValidPython(text) == Range(text) \cap Broken = {}

\* What one section of the patch is to write; NoFile stands for a deletion.
Planned(disk, patch) ==
  LET target == IF patch.new = NoFile THEN patch.old ELSE patch.new
      missing == disk[target] = NoFile
      edited == ApplyHunks(IF missing THEN <<>> ELSE disk[target], patch.hunks)
      plan(ok, text) == [path |-> target, ok |-> ok, text |-> text]
  IN  IF patch.new = NoFile THEN plan(~ missing, NoFile)
      ELSE IF missing # (patch.old = NoFile) THEN plan(FALSE, NoFile)
      ELSE plan(edited.ok /\ ValidPython(edited.text), edited.text)

\* Removing a file that has gone raises an error that nobody turns into one of
\* the tool.
Perform(s, change) ==
  IF ~ s.ok \/ (change.text = NoFile /\ s.disk[change.path] = NoFile)
    THEN [s EXCEPT !.ok = FALSE]
    ELSE [s EXCEPT !.disk[change.path] = change.text]

\* What a change that is being made leaves behind when an error ends it: a file that is
\* to be written may have been emptied.
BrokenOff(s, change) ==
  LET found == s.disk[change.path]
      left == IF change.text = NoFile THEN {found} ELSE {found, Torn}
  IN  {[disk |-> [s.disk EXCEPT ![change.path] = text], ok |-> FALSE] : text \in left}

\* Every section is planned against the files as they are, then they are written one
\* after the other.  The set of what may come of it: all of them are written, or one is
\* broken off, and nobody takes back those before it.
ApplyFiles(disk, files) ==
  LET plan == [i \in DOMAIN files |-> Planned(disk, files[i])]
  IN  IF \E i \in DOMAIN plan : ~ plan[i].ok THEN {[disk |-> disk, ok |-> FALSE]}
      ELSE LET written[i \in 0 .. Len(files)] ==
                 IF i = 0 THEN [disk |-> disk, ok |-> TRUE] ELSE Perform(written[i - 1], plan[i])
               begun == {i \in DOMAIN plan : written[i - 1].ok}
           IN  {written[Len(files)]} \cup UNION {BrokenOff(written[i - 1], plan[i]) : i \in begun}

ApplyPatch(disk, diff) ==
  LET parsed == Parse(Normal(diff))
  IN  IF parsed.ok THEN ApplyFiles(disk, parsed.files) ELSE {[disk |-> disk, ok |-> FALSE]}

-----------------------------------------------------------------------------
(* The reference: an edit replaces some lines of a text.  What a diff tool     *)
(* prints for it is checked to have the effect of the edit.                    *)

\* [at |-> lines before it, was |-> how many are replaced, by |-> the new lines]
EditsOf(text, inserts) ==
  {e \in [at : 0 .. Len(text), was : 0 .. Len(text), by : inserts] :
     e.at + e.was <= Len(text) /\ (e.was > 0 \/ e.by # <<>>)}

\* An edit after another, with a line between them.
Apart(d, e) == d.at + d.was < e.at

Tagged(tag, lines) == [i \in DOMAIN lines |-> [tag |-> tag, content |-> lines[i]]]

\* The hunk of e with a line of context on each side where there is one.
HunkLines(text, e) ==
  LET line(i) == IF i \in DOMAIN text THEN <<text[i]>> ELSE <<>>
  IN  <<[tag |-> "@@", content |-> IF e.at = 0 THEN 1 ELSE e.at]>>
        \o Tagged(" ", line(e.at)) \o Tagged("-", SubSeq(text, e.at + 1, e.at + e.was))
        \o Tagged("+", e.by) \o Tagged(" ", line(e.at + e.was + 1))

FileLines(old, new) ==
  <<[tag |-> "---", content |-> old], [tag |-> "+++", content |-> new]>>

Disk(path, text) == [p \in Paths |-> IF p = path THEN text ELSE NoFile]

\* A hunk whose lines occur once in the file is found, though as many lines as
\* the window has were put before them since the diff was made.
DriftedHunksLand(texts, needles) ==
  \A text, above \in texts, old, new \in needles :
    LET now == above \o text
        here == {pos \in 0 .. Len(now) : Occurs(old, now, pos)}
    IN  \A guess \in 0 .. Len(text) :
          /\ old # <<>> /\ Cardinality(here) = 1
          /\ here \subseteq guess .. (guess + SearchWindow)
          => LET s == ApplyHunks(now, <<Hunk(guess + 1, old, new)>>)
             IN  s.ok /\ \A pos \in here : s.text = Spliced(now, pos, Len(old), new)

\* The code reads a diff as it was printed when no line of it looks like another and
\* the blanks of its last line, which it strips, are none of the file's.
AsPrinted(diff) ==
  /\ \A i \in DOMAIN diff : diff[i].tag = "-" => ~ IsOld(diff[i])
  /\ LET last == diff[Len(diff)] IN ~ IsBlank(last) /\ Trimmed(last) = last

\* The diff turns the only file there is into new, unless the write fails.
Lands(path, text, diff, new) ==
  ApplyPatch(Disk(path, text), diff)
    = {[disk |-> Disk(path, new), ok |-> TRUE]}
        \cup {[disk |-> Disk(path, left), ok |-> FALSE] : left \in {text, Torn}}

\* A patch with one or two hunks made for a file turns it into the edited file,
\* although the same lines may occur in many places.  Without context a diff
\* names the line before an insertion, which the code takes for the one after
\* it; texts therefore have a line for context.
EditsLand(texts, inserts) ==
  \A p \in Paths, text \in texts \ {<<>>} :
    /\ \A e \in EditsOf(text, inserts) :
         LET diff == FileLines(p, p) \o HunkLines(text, e)
             new == Spliced(text, e.at, e.was, e.by)
         IN  AsPrinted(diff) /\ ValidPython(new) => Lands(p, text, diff, new)
    /\ \A d, e \in EditsOf(text, inserts) :
         LET diff == FileLines(p, p) \o HunkLines(text, d) \o HunkLines(text, e)
             new == Spliced(Spliced(text, e.at, e.was, e.by), d.at, d.was, d.by)
         IN  Apart(d, e) /\ AsPrinted(diff) /\ ValidPython(new) => Lands(p, text, diff, new)

\* A patch of two different files does nothing where a patch of either alone would be
\* refused.  Otherwise it does what the two would do one after the other: all, unless a
\* write fails, and then what was written before stays.
AllOrNothing(texts, hunks) ==
  LET sides == Paths \cup {NoFile}
      files == {f \in [old : sides, new : sides, hunks : hunks] :
                  \/ f.old = NoFile /\ f.new # NoFile
                  \/ f.old # NoFile /\ f.new \in {NoFile, f.old}}
      names(f) == {f.old, f.new} \ {NoFile}
  IN  \A disk \in [Paths -> texts \cup {NoFile}], f, g \in files :
        LET both == ApplyFiles(disk, <<f, g>>)
            done(h) == {r \in ApplyFiles(disk, <<h>>) : r.ok}
        IN  names(f) \cap names(g) = {} =>
              /\ done(f) = {} \/ done(g) = {} => both = {[disk |-> disk, ok |-> FALSE]}
              /\ done(f) # {} /\ done(g) # {} =>
                   both = (ApplyFiles(disk, <<f>>) \ done(f))
                            \cup UNION {ApplyFiles(r.disk, <<g>>) : r \in done(f)}
              /\ \A r \in both : r.ok =>
                   \A p \in names(f) \cup names(g) :
                     (r.disk[p] = NoFile) <=> (\E h \in {f, g} : h.old = p /\ h.new = NoFile)
=============================================================================
