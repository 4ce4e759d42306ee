---------------------------- MODULE PatchProofs -----------------------------
(***************************************************************************)
(* Proofs about Patch, for any lines, paths and window: the hunks that a   *)
(* diff tool prints for edits turn the file into the edited one, a hunk    *)
(* whose lines are unique is found though the file has grown, and a patch  *)
(* of different files changes all or none of them unless a write fails.    *)
(*                                                                         *)
(* The first goes along the code: where the hunk of an edit fits, what     *)
(* two hunks do to a text one after the other, what the parser makes of    *)
(* the lines of a diff, part by part, and what is written to the disk.     *)
(* The recursive functions of Patch have values at every line because      *)
(* the least line without one would have one.                              *)
(***************************************************************************)
EXTENDS Patch, FiniteSetTheorems, SequenceTheorems, WellFoundedInduction, TLAPS

-----------------------------------------------------------------------------
(* Texts and their parts *)

\* The order of the numbers, as the library wants it.
LEMMA LessIsWellFounded ==
  \E Less : IsWellFoundedOn(Less, Nat) /\ \A k, n \in Nat : k < n => <<k, n>> \in Less
<1>1. OpToRel(<, Nat) = {p \in Nat \X Nat : p[1] < p[2]}
  BY DEF OpToRel
<1>2. IsWellFoundedOn({p \in Nat \X Nat : p[1] < p[2]}, Nat)
  BY <1>1, NatLessThanWellFounded
<1>3. \A k, n \in Nat : k < n => <<k, n>> \in {p \in Nat \X Nat : p[1] < p[2]}
  OBVIOUS
<1> QED
  BY <1>2, <1>3

LEMMA LeastNatural ==
  ASSUME NEW T \in SUBSET Nat, T # {}
  PROVE  \E n \in T : \A k \in T : n <= k
<1>1. PICK Less : /\ IsWellFoundedOn(Less, Nat)
                  /\ \A k, n \in Nat : k < n => <<k, n>> \in Less
  BY LessIsWellFounded
<1>2. IsWellFoundedOn(Less, Nat)
  BY <1>1
<1>3. PICK n \in T : \A k \in T : ~ (<<k, n>> \in Less)
  BY <1>2, WFMin
<1>4. \A k \in T : ~ (k < n)
  BY <1>1, <1>3
<1> QED
  BY <1>4

\* A stretch of a text.
LEMMA StretchIs ==
  ASSUME NEW S, NEW text \in Seq(S), NEW a \in Nat, NEW n \in Nat, a + n <= Len(text)
  PROVE  /\ SubSeq(text, a + 1, a + n) \in Seq(S) /\ Len(SubSeq(text, a + 1, a + n)) = n
         /\ \A i \in 1 .. n : SubSeq(text, a + 1, a + n)[i] = text[a + i]
<1>1. \A i \in (a + 1) .. (a + n) : text[i] \in S
  <2>1. Len(text) \in Nat
    BY LenProperties
  <2> QED
    BY <2>1, ElementOfSeq
<1> DEFINE first == a + 1
           last == a + n
           part == SubSeq(text, first, last)
<1>2. /\ first \in Int /\ last \in Int /\ last - first + 1 = n
      /\ (IF first <= last THEN n ELSE 0) = n /\ \A i \in 1 .. n : first + i - 1 = a + i
  OBVIOUS
<1>3. \A i \in first .. last : text[i] \in S
  BY <1>1
<1> HIDE DEF first, last
<1>4. /\ part \in Seq(S) /\ Len(part) = IF first <= last THEN last - first + 1 ELSE 0
      /\ \A i \in 1 .. (last - first + 1) : part[i] = text[first + i - 1]
  BY <1>2, <1>3, SubSeqProperties
<1> HIDE DEF part
<1>5. part \in Seq(S) /\ Len(part) = n /\ \A i \in 1 .. n : part[i] = text[a + i]
  BY <1>2, <1>4
<1> QED
  BY <1>5 DEF part, first, last

\* What a replacement of lines makes of a text, line by line.
LEMMA SplicedIs ==
  ASSUME NEW S, NEW text \in Seq(S), NEW lines \in Seq(S),
         NEW pos \in Nat, NEW count \in Nat, pos + count <= Len(text)
  PROVE  /\ Spliced(text, pos, count, lines) \in Seq(S)
         /\ Len(Spliced(text, pos, count, lines)) = Len(text) - count + Len(lines)
         /\ \A i \in 1 .. (Len(text) - count + Len(lines)) :
              Spliced(text, pos, count, lines)[i] =
                IF i <= pos THEN text[i]
                ELSE IF i <= pos + Len(lines) THEN lines[i - pos]
                ELSE text[i - Len(lines) + count]
<1> DEFINE head == SubSeq(text, 1, pos)
           tail == SubSeq(text, pos + count + 1, Len(text))
           n == Len(text)
           m == Len(lines)
<1>1. n \in Nat /\ m \in Nat
  BY LenProperties
<1>3. /\ head \in Seq(S) /\ Len(head) = pos
      /\ \A i \in 1 .. pos : head[i] = text[i]
  <2>1. pos <= n /\ 0 + 1 = 1 /\ \A i \in 0 .. pos : 0 + i = i
    BY <1>1
  <2>2. /\ SubSeq(text, 0 + 1, 0 + pos) \in Seq(S) /\ Len(SubSeq(text, 0 + 1, 0 + pos)) = pos
        /\ \A i \in 1 .. pos : SubSeq(text, 0 + 1, 0 + pos)[i] = text[0 + i]
    BY <2>1, StretchIs
  <2> QED
    BY <2>1, <2>2
<1>4. /\ tail \in Seq(S) /\ Len(tail) = n - pos - count
      /\ \A i \in 1 .. (n - pos - count) : tail[i] = text[pos + count + i]
  <2>1. /\ pos + count \in Nat /\ n - pos - count \in Nat
        /\ (pos + count) + (n - pos - count) = n
    BY <1>1
  <2> QED
    BY <2>1, StretchIs
<1>5. Spliced(text, pos, count, lines) = (head \o lines) \o tail
  BY DEF Spliced
<1> DEFINE front == head \o lines
<1>6. /\ front \in Seq(S) /\ Len(front) = pos + m
      /\ \A i \in 1 .. (pos + m) : front[i] = IF i <= pos THEN head[i] ELSE lines[i - pos]
  <2> HIDE DEF head
  <2> QED
    BY <1>3, ConcatProperties
<1>7. Spliced(text, pos, count, lines) = front \o tail
  BY <1>5
<1> HIDE DEF head, tail, front
<1>8. /\ front \o tail \in Seq(S)
      /\ Len(front \o tail) = pos + m + (n - pos - count)
      /\ \A i \in 1 .. (pos + m + (n - pos - count)) : (front \o tail)[i] =
           IF i <= pos + m THEN front[i] ELSE tail[i - (pos + m)]
  <2>1. /\ front \o tail \in Seq(S) /\ Len(front \o tail) = Len(front) + Len(tail)
        /\ \A i \in 1 .. (Len(front) + Len(tail)) : (front \o tail)[i] =
             IF i <= Len(front) THEN front[i] ELSE tail[i - Len(front)]
    <3>1. front \in Seq(S) /\ tail \in Seq(S)
      BY <1>4, <1>6
    <3> QED
      BY <3>1, ConcatProperties
  <2> QED
    BY <1>4, <1>6, <2>1
<1> DEFINE whole == front \o tail
<1> HIDE DEF whole
<1>9. \A i \in 1 .. (n - count + m) :
        whole[i] = IF i <= pos THEN text[i]
                   ELSE IF i <= pos + m THEN lines[i - pos] ELSE text[i - m + count]
  <2> SUFFICES ASSUME NEW i \in 1 .. (n - count + m)
               PROVE  whole[i] = IF i <= pos THEN text[i]
                   ELSE IF i <= pos + m THEN lines[i - pos] ELSE text[i - m + count]
    OBVIOUS
  <2>1. i \in 1 .. (pos + m + (n - pos - count))
    BY <1>1
  <2>2. whole[i] = IF i <= pos + m THEN front[i] ELSE tail[i - (pos + m)]
    BY <1>8, <2>1 DEF whole
  <2>3. i <= pos + m => front[i] = IF i <= pos THEN text[i] ELSE lines[i - pos]
    BY <1>1, <1>3, <1>6
  <2>4. ~ (i <= pos + m) => tail[i - (pos + m)] = text[i - m + count]
    <3>1. SUFFICES ASSUME ~ (i <= pos + m) PROVE tail[i - (pos + m)] = text[i - m + count]
      OBVIOUS
    <3>2. i - (pos + m) \in 1 .. (n - pos - count)
      BY <1>1, <3>1
    <3>3. pos + count + (i - (pos + m)) = i - m + count
      BY <1>1
    <3> QED
      BY <1>4, <3>2, <3>3
  <2> QED
    BY <1>1, <2>2, <2>3, <2>4
<1> QED
  BY <1>1, <1>7, <1>8, <1>9 DEF whole

LEMMA OccursIs ==
  ASSUME NEW S, NEW text \in Seq(S), NEW needle \in Seq(S), NEW pos \in Nat
  PROVE  Occurs(needle, text, pos) <=>
           /\ pos + Len(needle) <= Len(text)
           /\ \A i \in 1 .. Len(needle) : text[pos + i] = needle[i]
<1> DEFINE part == SubSeq(text, pos + 1, pos + Len(needle))
<1>1. Len(needle) \in Nat
  BY LenProperties
<1>2. SUFFICES ASSUME pos + Len(needle) <= Len(text)
               PROVE  part = needle <=> \A i \in 1 .. Len(needle) : text[pos + i] = needle[i]
  BY DEF Occurs
<1>3. /\ part \in Seq(S) /\ Len(part) = Len(needle)
      /\ \A i \in 1 .. Len(needle) : part[i] = text[pos + i]
  BY <1>1, <1>2, StretchIs
<1> HIDE DEF part
<1> QED
  BY <1>3, SeqEqual

\* A hunk that fits where it is expected is put there.
LEMMA LocatedAtGuess ==
  ASSUME NEW text, NEW needle, NEW guess, needle # <<>>, Occurs(needle, text, guess)
  PROVE  Locate(text, needle, guess) = guess
BY DEF Locate

\* A hunk is never put beyond the end of the text.
LEMMA LocatedInText ==
  ASSUME NEW S, NEW text \in Seq(S), NEW needle \in Seq(S), NEW guess \in Nat,
         Locate(text, needle, guess) # NotFound
  PROVE  /\ Locate(text, needle, guess) \in Nat
         /\ Locate(text, needle, guess) + Len(needle) <= Len(text)
<1> DEFINE window == {p \in (guess - SearchWindow) .. (guess + SearchWindow) :
                        p >= 0 /\ Occurs(needle, text, p)}
<1>1. Len(needle) \in Nat /\ Len(text) \in Nat /\ SearchWindow \in Nat
  BY LenProperties, PatchAssumption
<1>2. CASE needle = <<>>
  <2>1. Len(needle) = 0
    BY <1>2
  <2> QED
    BY <1>1, <1>2, <2>1 DEF Locate
<1>3. CASE needle # <<>> /\ Occurs(needle, text, guess)
  BY <1>3, LocatedAtGuess DEF Occurs
<1>4. CASE needle # <<>> /\ ~ Occurs(needle, text, guess)
  <2>1. window # {} /\ Locate(text, needle, guess) = CHOOSE p \in window : \A q \in window : p <= q
    BY <1>4 DEF Locate
  <2>2. window \in SUBSET Nat
    BY <1>1
  <2>3. \E p \in window : \A q \in window : p <= q
    BY <2>1, <2>2, LeastNatural
  <2>4. Locate(text, needle, guess) \in window
    BY <2>1, <2>3
  <2> QED
    BY <2>2, <2>4 DEF Occurs
<1> QED
  BY <1>2, <1>3, <1>4

-----------------------------------------------------------------------------
(* An edit and its hunk *)

\* An edit of lines by lines.
IsEdit(text, e) == e \in EditsOf(text, Seq(Lines))

Context(text, i) == IF i \in DOMAIN text THEN <<text[i]>> ELSE <<>>

\* The two sides of the hunk of an edit.
Side(text, e, lines) ==
  (Context(text, e.at) \o lines) \o Context(text, e.at + e.was + 1)

Replaced(text, e) == SubSeq(text, e.at + 1, e.at + e.was)
OldSide(text, e) == Side(text, e, Replaced(text, e))
NewSide(text, e) == Side(text, e, e.by)

Before(e) == IF e.at > 0 THEN 1 ELSE 0
After(text, e) == IF e.at + e.was < Len(text) THEN 1 ELSE 0

\* An edit is of lines that the text has.
LEMMA EditIs ==
  ASSUME NEW text \in Seq(Lines), NEW e, IsEdit(text, e)
  PROVE  /\ Len(text) \in Nat /\ e.at \in Nat /\ e.was \in Nat /\ e.by \in Seq(Lines)
         /\ Len(e.by) \in Nat
         /\ e.at + e.was <= Len(text) /\ (e.was > 0 \/ e.by # <<>>)
         /\ Before(e) \in Nat /\ After(text, e) \in Nat
         /\ \A i \in 1 .. Len(text) : text[i] \in Lines
<1>1. Len(text) \in Nat /\ \A i \in 1 .. Len(text) : text[i] \in Lines
  BY LenProperties, ElementOfSeq
<1>2. /\ e.at \in Nat /\ e.was \in Nat /\ e.by \in Seq(Lines)
      /\ e.at + e.was <= Len(text) /\ (e.was > 0 \/ e.by # <<>>)
  BY <1>1 DEF IsEdit, EditsOf
<1>3. Len(e.by) \in Nat
  BY <1>2, LenProperties
<1> QED
  BY <1>1, <1>2, <1>3 DEF Before, After

\* The line before or after an edit, if there is one.
LEMMA ContextIs ==
  ASSUME NEW text \in Seq(Lines), NEW i \in Nat
  PROVE  /\ Context(text, i) \in Seq(Lines)
         /\ Len(Context(text, i)) = IF i > 0 /\ i <= Len(text) THEN 1 ELSE 0
         /\ i > 0 /\ i <= Len(text) => Context(text, i)[1] = text[i]
<1>1. DOMAIN text = 1 .. Len(text) /\ Len(text) \in Nat
  BY LenProperties
<1>2. CASE i \in DOMAIN text
  <2>1. Context(text, i) = <<text[i]>> /\ text[i] \in Lines
    BY <1>1, <1>2, ElementOfSeq DEF Context
  <2> QED
    BY <1>1, <1>2, <2>1
<1>3. CASE i \notin DOMAIN text
  <2>1. Context(text, i) = <<>>
    BY <1>3 DEF Context
  <2> QED
    BY <1>1, <1>3, <2>1, EmptySeq
<1> QED
  BY <1>2, <1>3

LEMMA SideIs ==
  ASSUME NEW text \in Seq(Lines), NEW e, IsEdit(text, e), NEW lines \in Seq(Lines)
  PROVE  /\ Side(text, e, lines) \in Seq(Lines)
         /\ Len(Side(text, e, lines)) = Before(e) + Len(lines) + After(text, e)
         /\ \A i \in 1 .. (Before(e) + Len(lines) + After(text, e)) :
              Side(text, e, lines)[i] =
                IF i <= Before(e) THEN text[e.at]
                ELSE IF i <= Before(e) + Len(lines) THEN lines[i - Before(e)]
                ELSE text[e.at + e.was + 1]
<1> DEFINE first == Context(text, e.at)
           last == Context(text, e.at + e.was + 1)
           a == Before(e)
           z == After(text, e)
           m == Len(lines)
<1>1. /\ Len(text) \in Nat /\ e.at \in Nat /\ e.was \in Nat /\ e.at + e.was <= Len(text)
      /\ a \in Nat /\ z \in Nat /\ m \in Nat
  BY EditIs, LenProperties
<1>2. /\ first \in Seq(Lines) /\ Len(first) = a /\ a <= 1
      /\ a = 1 => first[1] = text[e.at]
  <2>1. /\ first \in Seq(Lines) /\ Len(first) = IF e.at > 0 /\ e.at <= Len(text) THEN 1 ELSE 0
        /\ e.at > 0 /\ e.at <= Len(text) => first[1] = text[e.at]
    BY <1>1, ContextIs
  <2> HIDE DEF first
  <2> QED
    BY <1>1, <2>1 DEF Before
<1>3. /\ last \in Seq(Lines) /\ Len(last) = z /\ z <= 1
      /\ z = 1 => last[1] = text[e.at + e.was + 1]
  <2> DEFINE next == e.at + e.was + 1
  <2>1. next \in Nat /\ next > 0 /\ (next <= Len(text) <=> e.at + e.was < Len(text))
    BY <1>1
  <2>2. /\ last \in Seq(Lines) /\ Len(last) = IF next > 0 /\ next <= Len(text) THEN 1 ELSE 0
        /\ next > 0 /\ next <= Len(text) => last[1] = text[next]
    <3> HIDE DEF next
    <3> QED
      BY <2>1, ContextIs DEF next
  <2> HIDE DEF last
  <2> QED
    BY <2>1, <2>2 DEF After
<1> DEFINE front == first \o lines
<1>4. Side(text, e, lines) = front \o last
  BY DEF Side
<1> HIDE DEF first, last
<1>5. /\ front \in Seq(Lines) /\ Len(front) = a + m
      /\ \A i \in 1 .. (a + m) : front[i] = IF i <= a THEN first[i] ELSE lines[i - a]
  BY <1>2, ConcatProperties
<1> HIDE DEF front
<1>6. front \in Seq(Lines) /\ last \in Seq(Lines)
  BY <1>3, <1>5
<1>7. /\ front \o last \in Seq(Lines) /\ Len(front \o last) = Len(front) + Len(last)
      /\ \A i \in 1 .. (Len(front) + Len(last)) :
           (front \o last)[i] = IF i <= Len(front) THEN front[i] ELSE last[i - Len(front)]
  BY <1>6, ConcatProperties
<1> DEFINE whole == front \o last
<1> HIDE DEF a, z, m, whole
<1>8. \A i \in 1 .. (a + m + z) :
        whole[i] = IF i <= a THEN text[e.at] ELSE IF i <= a + m THEN lines[i - a]
                   ELSE text[e.at + e.was + 1]
  <2> SUFFICES ASSUME NEW i \in 1 .. (a + m + z)
               PROVE  whole[i] = IF i <= a THEN text[e.at] ELSE IF i <= a + m THEN lines[i - a]
                   ELSE text[e.at + e.was + 1]
    OBVIOUS
  <2>1. whole[i] = IF i <= a + m THEN front[i] ELSE last[i - (a + m)]
    BY <1>1, <1>3, <1>5, <1>7 DEF whole
  <2>2. i <= a => front[i] = text[e.at]
    BY <1>1, <1>2, <1>5
  <2>3. ~ (i <= a) /\ i <= a + m => front[i] = lines[i - a]
    <3>1. a \in Nat /\ m \in Nat /\ z \in Nat
      BY <1>1
    <3>2. i <= a + m => i \in 1 .. (a + m)
      BY <3>1
    <3> QED
      BY <1>5, <3>2
  <2>4. ~ (i <= a + m) => last[i - (a + m)] = text[e.at + e.was + 1]
    <3>1. SUFFICES ASSUME ~ (i <= a + m) PROVE last[i - (a + m)] = text[e.at + e.was + 1]
      OBVIOUS
    <3>2. z = 1 /\ i - (a + m) = 1
      BY <1>1, <1>3, <3>1
    <3> QED
      BY <1>3, <3>2
  <2> QED
    BY <1>1, <2>1, <2>2, <2>3, <2>4
<1> QED
  BY <1>3, <1>4, <1>5, <1>7, <1>8 DEF whole, a, z, m

LEMMA ReplacedIs ==
  ASSUME NEW text \in Seq(Lines), NEW e, IsEdit(text, e)
  PROVE  /\ Replaced(text, e) \in Seq(Lines) /\ Len(Replaced(text, e)) = e.was
         /\ \A i \in 1 .. e.was : Replaced(text, e)[i] = text[e.at + i]
<1>1. /\ Len(text) \in Nat /\ e.at \in Nat /\ e.was \in Nat /\ e.at + e.was <= Len(text)
      /\ \A i \in 1 .. Len(text) : text[i] \in Lines
  BY EditIs
<1> QED
  BY <1>1, StretchIs DEF Replaced

\* The old side is a stretch of the text.
LEMMA OldSideIs ==
  ASSUME NEW text \in Seq(Lines), NEW e, IsEdit(text, e)
  PROVE  /\ OldSide(text, e) \in Seq(Lines)
         /\ Len(OldSide(text, e)) = Before(e) + e.was + After(text, e)
         /\ \A i \in 1 .. (Before(e) + e.was + After(text, e)) :
              OldSide(text, e)[i] = text[e.at - Before(e) + i]
<1> DEFINE a == Before(e)
           z == After(text, e)
           part == Replaced(text, e)
<1>1. /\ Len(text) \in Nat /\ e.at \in Nat /\ e.was \in Nat /\ e.at + e.was <= Len(text)
      /\ a \in Nat /\ z \in Nat /\ a <= 1 /\ z <= 1
  BY EditIs DEF Before, After
<1>2. /\ part \in Seq(Lines) /\ Len(part) = e.was
      /\ \A i \in 1 .. e.was : part[i] = text[e.at + i]
  BY ReplacedIs
<1>3. /\ OldSide(text, e) \in Seq(Lines)
      /\ Len(OldSide(text, e)) = a + e.was + z
      /\ \A i \in 1 .. (a + e.was + z) :
           OldSide(text, e)[i] = IF i <= a THEN text[e.at]
                ELSE IF i <= a + e.was THEN part[i - a] ELSE text[e.at + e.was + 1]
  BY <1>2, SideIs DEF OldSide
<1> HIDE DEF a, z, part
<1>4. \A i \in 1 .. (a + e.was + z) : OldSide(text, e)[i] = text[e.at - a + i]
  <2> SUFFICES ASSUME NEW i \in 1 .. (a + e.was + z)
               PROVE  OldSide(text, e)[i] = text[e.at - a + i]
    OBVIOUS
  <2>1. CASE i <= a
    <3>1. a = 1 /\ i = 1
      BY <1>1, <2>1
    <3>2. e.at - a + i = e.at
      BY <1>1, <3>1
    <3> QED
      BY <1>3, <2>1, <3>2
  <2>2. CASE ~ (i <= a) /\ i <= a + e.was
    <3>1. i - a \in 1 .. e.was /\ e.at + (i - a) = e.at - a + i
      BY <1>1, <2>2
    <3> QED
      BY <1>2, <1>3, <2>2, <3>1
  <2>3. CASE ~ (i <= a + e.was)
    <3>1. z = 1 /\ i = a + e.was + 1
      BY <1>1, <2>3
    <3>2. e.at - a + i = e.at + e.was + 1 /\ ~ (i <= a)
      <4>1. e.at \in Nat /\ e.was \in Nat /\ a \in Nat
        BY <1>1
      <4> QED
        BY <3>1, <4>1
    <3> QED
      BY <1>3, <2>3, <3>2
  <2> QED
    BY <2>1, <2>2, <2>3
<1> QED
  BY <1>3, <1>4 DEF a, z

\* wide is lines between the first a and the last z of the lines of a text that it is to
\* replace from p on.
InContext(now, lines, wide, p, a, was, z) ==
  /\ p + a + was + z <= Len(now) /\ Len(wide) = a + Len(lines) + z
  /\ \A i \in 1 .. a : wide[i] = now[p + i]
  /\ \A i \in 1 .. Len(lines) : wide[a + i] = lines[i]
  /\ \A i \in 1 .. z : wide[a + Len(lines) + i] = now[p + a + was + i]

\* A replacement that leaves its first and last lines as they are is one of the lines
\* between them.
LEMMA ContextStays ==
  ASSUME NEW now \in Seq(Lines), NEW lines \in Seq(Lines), NEW wide \in Seq(Lines),
         NEW p \in Nat, NEW a \in Nat, NEW was \in Nat, NEW z \in Nat,
         InContext(now, lines, wide, p, a, was, z)
  PROVE  Spliced(now, p, a + was + z, wide) = Spliced(now, p + a, was, lines)
<1> DEFINE m == Len(lines)
           w == Len(wide)
           n == Len(now)
           q == p + a
           k == a + was + z
           s == Spliced(now, p, k, wide)
           t == Spliced(now, q, was, lines)
<1>0. n \in Nat /\ w \in Nat /\ m \in Nat /\ q \in Nat /\ k \in Nat
  BY LenProperties
<1>1. /\ q + was <= n /\ p + k <= n /\ w = a + m + z /\ n - k + w = n - was + m
      /\ q = p + a /\ k = a + was + z
  <2>1. p + a + was + z <= n /\ w = a + m + z
    BY DEF InContext
  <2>2. q = p + a /\ k = a + was + z
    OBVIOUS
  <2> HIDE DEF m, w, n, q, k
  <2> QED
    BY <1>0, <2>1, <2>2
<1>9. /\ \A i \in 1 .. a : wide[i] = now[p + i]
      /\ \A i \in 1 .. m : wide[a + i] = lines[i]
      /\ \A i \in 1 .. z : wide[a + m + i] = now[q + was + i]
  BY DEF InContext
<1> HIDE DEF q, k
<1>2. /\ s \in Seq(Lines) /\ Len(s) = n - k + w
      /\ \A i \in 1 .. (n - k + w) :
           s[i] = IF i <= p THEN now[i] ELSE IF i <= p + w THEN wide[i - p] ELSE now[i - w + k]
  <2>1. k \in Nat /\ p + k <= n
    BY <1>0, <1>1
  <2> QED
    BY <2>1, SplicedIs
<1>3. /\ t \in Seq(Lines) /\ Len(t) = n - was + m
      /\ \A i \in 1 .. (n - was + m) :
           t[i] = IF i <= q THEN now[i] ELSE IF i <= q + m THEN lines[i - q]
                  ELSE now[i - m + was]
  <2>1. q \in Nat /\ q + was <= n
    BY <1>0, <1>1
  <2> QED
    BY <2>1, SplicedIs, SMTT(30)
<1> HIDE DEF s, t, n, w, m
<1>5. \A i \in 1 .. (n - was + m) : s[i] = t[i]
  <2> SUFFICES ASSUME NEW i \in 1 .. (n - was + m) PROVE s[i] = t[i]
    OBVIOUS
  <2>1. i \in Nat /\ i >= 1 /\ i \in 1 .. (n - k + w)
    BY <1>0, <1>1
  <2>2. s[i] = IF i <= p THEN now[i] ELSE IF i <= p + w THEN wide[i - p] ELSE now[i - w + k]
    BY <1>2, <2>1
  <2>3. t[i] = IF i <= q THEN now[i] ELSE IF i <= q + m THEN lines[i - q] ELSE now[i - m + was]
    BY <1>3
  <2>4. CASE i <= p
    <3>1. i <= q
      BY <1>0, <1>1, <2>1, <2>4
    <3> QED
      BY <2>2, <2>3, <2>4, <3>1
  <2>5. CASE ~ (i <= p) /\ i <= q
    <3>1. i - p \in 1 .. a /\ p + (i - p) = i /\ i <= p + w
      BY <1>0, <1>1, <2>1, <2>5
    <3>2. wide[i - p] = now[i]
      BY <1>9, <3>1
    <3> QED
      BY <2>2, <2>3, <2>5, <3>1, <3>2
  <2>6. CASE ~ (i <= q) /\ i <= q + m
    <3>1. i - q \in 1 .. m /\ a + (i - q) = i - p /\ ~ (i <= p) /\ i <= p + w
      BY <1>0, <1>1, <2>1, <2>6
    <3>2. wide[i - p] = lines[i - q]
      BY <1>9, <3>1
    <3> QED
      BY <2>2, <2>3, <2>6, <3>1, <3>2
  <2>7. CASE ~ (i <= q + m) /\ i <= p + w
    <3> DEFINE j == i - q - m
    <3>1. /\ j \in 1 .. z /\ a + m + j = i - p /\ q + was + j = i - m + was
          /\ ~ (i <= p) /\ ~ (i <= q)
      BY <1>0, <1>1, <2>1, <2>7
    <3>2. wide[a + m + j] = now[q + was + j]
      BY <1>9, <3>1
    <3> HIDE DEF j
    <3>3. wide[i - p] = now[i - m + was]
      BY <3>1, <3>2
    <3> QED
      BY <2>2, <2>3, <2>7, <3>1, <3>3
  <2>8. CASE ~ (i <= p + w)
    <3>1. i - w + k = i - m + was /\ ~ (i <= p) /\ ~ (i <= q) /\ ~ (i <= q + m)
      BY <1>0, <1>1, <2>1, <2>8
    <3> QED
      BY <2>2, <2>3, <2>8, <3>1
  <2> QED
    BY <2>4, <2>5, <2>6, <2>7, <2>8
<1>6. s = t
  BY <1>1, <1>2, <1>3, <1>5, SeqEqual
<1> QED
  BY <1>6 DEF s, t, q, k

\* Where the parts of a hunk are, as numbers.
LEMMA HunkEnds ==
  ASSUME NEW first \in Nat, NEW was \in Nat, NEW a \in Nat, NEW z \in Nat, NEW n \in Nat,
         NEW shift \in Int, first + was + z <= n
  PROVE  (first - a + shift) + (a + was + z) <= n + shift
OBVIOUS

LEMMA Within ==
  ASSUME NEW a \in Nat, NEW m \in Nat, NEW z \in Nat, NEW i \in 1 .. m, NEW j, j = a + i
  PROVE  j \in 1 .. (a + m + z) /\ ~ (j <= a) /\ j <= a + m /\ j - a = i
OBVIOUS

FirstLine(e) == IF e.at = 0 THEN 1 ELSE e.at
HunkOf(text, e) == Hunk(FirstLine(e), OldSide(text, e), NewSide(text, e))

\* Arithmetic is easier for the provers where they need not think of sequences.
IsText(text) == text \in Seq(Lines)

State(text, shift) == [text |-> text, shift |-> shift, ok |-> TRUE]

\* The old side of an edit begins p lines down the text that earlier hunks have left.
Awaits(text, e, now, shift, p) ==
  /\ p = e.at - Before(e) + shift /\ (e.at = 0 => shift = 0)
  /\ Len(now) = Len(text) + shift
  /\ \A i \in 1 .. (Before(e) + e.was + After(text, e)) :
       now[p + i] = text[e.at - Before(e) + i]

\* A hunk whose surroundings are where its header and the hunks before it say, p lines
\* down the text, is applied there, whatever else the text holds.
LEMMA HunkFits ==
  ASSUME NEW text, IsText(text), Len(text) # 0, NEW e, IsEdit(text, e),
         NEW now, IsText(now), NEW shift \in Int,
         NEW p \in Nat, Awaits(text, e, now, shift, p)
  PROVE  ApplyHunk(State(now, shift), HunkOf(text, e)) =
           State(Spliced(now, e.at + shift, e.was, e.by), shift + Len(e.by) - e.was)
<1> DEFINE a == Before(e)
           z == After(text, e)
           m == Len(e.by)
           k == Len(OldSide(text, e))
           q == e.at + shift
           n == Len(text)
           l == Len(now)
           old == OldSide(text, e)
           new == NewSide(text, e)
           hunk == HunkOf(text, e)
           at == hunk.start - 1 + shift
<1>1. /\ Len(text) \in Nat /\ e.at \in Nat /\ e.was \in Nat /\ e.by \in Seq(Lines)
      /\ m \in Nat /\ (e.was > 0 \/ e.by # <<>>)
      /\ e.at + e.was <= Len(text) /\ a \in Nat /\ z \in Nat /\ a <= 1 /\ z <= 1
      /\ (a = 1 <=> e.at > 0) /\ (z = 1 <=> e.at + e.was < Len(text))
  BY EditIs DEF Before, After, IsText
<1>20. /\ p = e.at - a + shift /\ (e.at = 0 => shift = 0)
       /\ l = n + shift
  BY DEF Awaits
<1>22. /\ n \in Nat /\ e.at \in Nat /\ e.was \in Nat /\ m \in Nat /\ shift \in Int
       /\ e.at + e.was <= n /\ a \in Nat /\ z \in Nat /\ a <= 1 /\ z <= 1
       /\ (a = 1 <=> e.at > 0) /\ (z = 1 <=> e.at + e.was < n)
  BY <1>1
<1>21. \A i \in 1 .. (a + e.was + z) : now[p + i] = text[e.at - a + i]
  BY DEF Awaits
<1>3. /\ old \in Seq(Lines) /\ k = a + e.was + z
      /\ \A i \in 1 .. (a + e.was + z) : old[i] = text[e.at - a + i]
  BY OldSideIs DEF IsText
<1>4. /\ new \in Seq(Lines) /\ Len(new) = a + m + z
      /\ \A i \in 1 .. (a + m + z) :
           new[i] = IF i <= a THEN text[e.at] ELSE IF i <= a + m THEN e.by[i - a]
                    ELSE text[e.at + e.was + 1]
  BY <1>1, SideIs DEF NewSide, IsText
<1>23. k = a + e.was + z /\ Len(new) = a + m + z
  BY <1>3, <1>4
<1>5. hunk.start = (IF e.at = 0 THEN 1 ELSE e.at) /\ hunk.old = old /\ hunk.new = new
  BY DEF HunkOf, Hunk, FirstLine
<1>6. old # <<>>
  <2>1. Len(<<>>) = 0
    BY EmptySeq
  <2>2. k # 0
    <3> HIDE DEF a, z, k, m
    <3> QED
      BY <1>1, <1>3, <2>1
  <2> QED
    BY <2>1, <2>2
<1>7. \A i \in 1 .. k : now[p + i] = old[i]
  <2> HIDE DEF k, old, a, z
  <2> QED
    BY <1>3, <1>21
<1>8. \A i \in 1 .. a : new[i] = now[p + i]
  <2> SUFFICES ASSUME NEW i \in 1 .. a PROVE new[i] = now[p + i]
    OBVIOUS
  <2> HIDE DEF a, z, m, new, n, l
  <2>1. i = 1 /\ a = 1 /\ i \in 1 .. (a + e.was + z) /\ i \in 1 .. (a + m + z) /\ i <= a
    BY <1>1
  <2>2. e.at - a + i = e.at
    BY <1>1, <2>1
  <2>3. now[p + i] = text[e.at - a + i]
    BY <1>21, <2>1
  <2>4. new[i] = text[e.at]
    BY <1>4, <2>1
  <2> QED
    BY <2>2, <2>3, <2>4
<1>9. \A i \in 1 .. m : new[a + i] = e.by[i]
  <2> SUFFICES ASSUME NEW i \in 1 .. m PROVE new[a + i] = e.by[i]
    OBVIOUS
  <2> HIDE DEF a, z, m, new, n, l
  <2>1. PICK j : j = a + i
    OBVIOUS
  <2>2. j \in 1 .. (a + m + z) /\ ~ (j <= a) /\ j <= a + m /\ j - a = i
    BY <1>22, <2>1, Within
  <2>3. new[j] = e.by[j - a]
    BY <1>4, <2>2
  <2> QED
    BY <2>1, <2>2, <2>3
<1>10. \A i \in 1 .. z : new[a + m + i] = now[q + e.was + i]
  <2> SUFFICES ASSUME NEW i \in 1 .. z PROVE new[a + m + i] = now[q + e.was + i]
    OBVIOUS
  <2> DEFINE j == a + e.was + i
  <2> HIDE DEF a, z, m, new, n, l
  <2>0. i = 1 /\ z = 1
    BY <1>22
  <2>1. /\ j \in 1 .. (a + e.was + z)
        /\ a + m + i \in 1 .. (a + m + z) /\ ~ (a + m + i <= a) /\ ~ (a + m + i <= a + m)
    BY <1>22
  <2>2. p + j = q + e.was + i /\ e.at - a + j = e.at + e.was + 1
    <3> DEFINE x == e.at
               y == e.was
    <3>1. /\ p = x - a + shift /\ i = 1 /\ q = x + shift /\ j = a + y + i
          /\ x \in Nat /\ y \in Nat /\ a \in Nat /\ shift \in Int
      BY <1>20, <1>22, <2>0
    <3> HIDE DEF x, y, q, j
    <3>2. p + j = q + y + i /\ x - a + j = x + y + 1
      BY <3>1
    <3> QED
      BY <3>2 DEF x, y
  <2>3. now[p + j] = text[e.at - a + j]
    BY <1>21, <2>1
  <2>4. new[a + m + i] = text[e.at + e.was + 1]
    BY <1>4, <2>1
  <2> HIDE DEF j, q
  <2> QED
    BY <2>2, <2>3, <2>4
<1> HIDE DEF a, z, m, k, old, new, hunk, n, l
<1>11. q = p + a
  BY <1>20, <1>22
<1>12. p + k <= l
  <2>1. e.at + e.was + z <= n
    BY <1>22
  <2>2. (e.at - a + shift) + (a + e.was + z) <= n + shift
    <3>1. /\ e.at \in Nat /\ e.was \in Nat /\ a \in Nat /\ z \in Nat /\ n \in Nat
          /\ shift \in Int
      BY <1>22
    <3> QED
      BY <2>1, <3>1, HunkEnds
  <2> QED
    BY <1>20, <1>23, <2>2
<1>13. (IF at > 0 THEN at ELSE 0) = p /\ p # NotFound
  <2>1. hunk.start = IF e.at = 0 THEN 1 ELSE e.at
    BY <1>5
  <2>2. at = p
    BY <1>20, <1>22, <2>1
  <2> HIDE DEF at
  <2> QED
    BY <2>2 DEF NotFound
<1>14. Occurs(old, now, p)
  <2>1. now \in Seq(Lines) /\ old \in Seq(Lines) /\ k = Len(old)
    BY <1>3 DEF k, old, IsText
  <2> QED
    BY <1>7, <1>12, <2>1, OccursIs DEF l
<1>15. Locate(now, old, p) = p
  BY <1>6, <1>14, LocatedAtGuess
<1>16. Spliced(now, p, k, new) = Spliced(now, q, e.was, e.by)
  <2> HIDE DEF q
  <2> QED
    <3>1. InContext(now, e.by, new, p, a, e.was, z)
      <4>1. p + a + e.was + z <= Len(now)
        BY <1>12, <1>22, <1>23 DEF l
      <4>2. Len(new) = a + Len(e.by) + z
        BY <1>4 DEF m
      <4>3. \A i \in 1 .. Len(e.by) : new[a + i] = e.by[i]
        BY <1>9 DEF m
      <4>4. \A i \in 1 .. z : new[a + Len(e.by) + i] = now[p + a + e.was + i]
        BY <1>10, <1>11 DEF m
      <4> QED
        BY <1>8, <4>1, <4>2, <4>3, <4>4 DEF InContext
    <3>2. Spliced(now, p, a + e.was + z, new) = Spliced(now, p + a, e.was, e.by)
      <4>1. /\ now \in Seq(Lines) /\ e.by \in Seq(Lines) /\ new \in Seq(Lines)
            /\ a \in Nat /\ e.was \in Nat /\ z \in Nat
        BY <1>1, <1>4 DEF IsText
      <4> QED
        BY <3>1, <4>1, ContextStays, SMTT(30)
    <3> QED
      BY <1>3, <1>11, <3>2
<1>17. ApplyHunk(State(now, shift), hunk) = State(Spliced(now, p, k, new), shift + Len(new) - k)
  BY <1>5, <1>13, <1>15 DEF ApplyHunk, k, old, State
<1>18. shift + Len(new) - k = shift + m - e.was
  BY <1>22, <1>23
<1> QED
  BY <1>16, <1>17, <1>18 DEF hunk, m

\* What a replacement of lines makes of a text.
IsSpliced(s, text, pos, count, lines) ==
  /\ IsText(s) /\ Len(s) = Len(text) - count + Len(lines)
  /\ \A i \in 1 .. (Len(text) - count + Len(lines)) :
       s[i] = IF i <= pos THEN text[i]
              ELSE IF i <= pos + Len(lines) THEN lines[i - pos]
              ELSE text[i - Len(lines) + count]

LEMMA SplicedText ==
  ASSUME NEW text, IsText(text), NEW lines, IsText(lines), NEW pos, NEW count,
         pos \in Nat, count \in Nat, pos + count <= Len(text)
  PROVE  IsSpliced(Spliced(text, pos, count, lines), text, pos, count, lines)
BY SplicedIs DEF IsText, IsSpliced

LEMMA TextsEqual ==
  ASSUME NEW s, IsText(s), NEW t, IsText(t), NEW n, Len(s) = n, Len(t) = n,
         \A i \in 1 .. n : s[i] = t[i]
  PROVE  s = t
BY SeqEqual DEF IsText

LEMMA TextLength == \A text : IsText(text) => Len(text) \in Nat
BY LenProperties DEF IsText

Separate(text, p, k, q, l) ==
  /\ p \in Nat /\ k \in Nat /\ q \in Nat /\ l \in Nat
  /\ p + k <= q /\ q + l <= Len(text)

\* Where a line is after a replacement of k lines before it.
MovesBy(r, q, b, k) == r = q + (Len(b) - k)

\* Of two replacements apart from each other, either may come first.
LEMMA SplicesCommute ==
  ASSUME NEW text, IsText(text), NEW b, IsText(b), NEW c, IsText(c),
         NEW p, NEW k, NEW q, NEW l, Separate(text, p, k, q, l), NEW r, MovesBy(r, q, b, k)
  PROVE  Spliced(Spliced(text, p, k, b), r, l, c)
           = Spliced(Spliced(text, q, l, c), p, k, b)
<1> DEFINE n == Len(text)
           m == Len(b)
           h == Len(c)
           u == Spliced(text, p, k, b)
           v == Spliced(text, q, l, c)
           s == Spliced(u, r, l, c)
           t == Spliced(v, p, k, b)
           all == n - k + m - l + h
<1>1. /\ n \in Nat /\ m \in Nat /\ h \in Nat /\ q + l <= n
      /\ p \in Nat /\ k \in Nat /\ q \in Nat /\ l \in Nat /\ p + k <= q
  BY TextLength DEF Separate
<1>10. r = q + (m - k)
  BY DEF MovesBy
<1>2. r \in Nat /\ p + k <= n /\ r + l <= n - k + m /\ p + k <= n - l + h
  <2> HIDE DEF n, m, h
  <2> QED
    BY <1>1, <1>10
<1>3. /\ IsText(u) /\ Len(u) = n - k + m
      /\ \A i \in 1 .. (n - k + m) :
           u[i] = IF i <= p THEN text[i] ELSE IF i <= p + m THEN b[i - p] ELSE text[i - m + k]
  <2>1. p + k <= Len(text)
    BY <1>2
  <2>2. IsSpliced(u, text, p, k, b)
    BY <1>1, <2>1, SplicedText
  <2> QED
    BY <2>2 DEF IsSpliced
<1>4. /\ IsText(v) /\ Len(v) = n - l + h
      /\ \A i \in 1 .. (n - l + h) :
           v[i] = IF i <= q THEN text[i] ELSE IF i <= q + h THEN c[i - q] ELSE text[i - h + l]
  <2>1. IsSpliced(v, text, q, l, c)
    BY SplicedText DEF Separate
  <2> QED
    BY <2>1 DEF IsSpliced
<1> HIDE DEF u, v
<1>5. /\ IsText(s) /\ Len(s) = Len(u) - l + h
      /\ \A i \in 1 .. (Len(u) - l + h) :
           s[i] = IF i <= r THEN u[i] ELSE IF i <= r + h THEN c[i - r] ELSE u[i - h + l]
  <2>1. r + l <= Len(u)
    BY <1>2, <1>3
  <2>2. IsSpliced(s, u, r, l, c)
    BY <1>1, <1>2, <1>3, <2>1, SplicedText
  <2> QED
    BY <2>2 DEF IsSpliced
<1>6. /\ IsText(t) /\ Len(t) = Len(v) - k + m
      /\ \A i \in 1 .. (Len(v) - k + m) :
           t[i] = IF i <= p THEN v[i] ELSE IF i <= p + m THEN b[i - p] ELSE v[i - m + k]
  <2>1. p + k <= Len(v)
    BY <1>2, <1>4
  <2>2. IsSpliced(t, v, p, k, b)
    BY <1>1, <1>4, <2>1, SplicedText
  <2> QED
    BY <2>2 DEF IsSpliced
<1> HIDE DEF s, t, n, m, h
<1>7. Len(u) - l + h = all /\ Len(v) - k + m = all
  BY <1>1, <1>3, <1>4
<1>8. ASSUME NEW i \in 1 .. all PROVE s[i] = t[i]
  <2> DEFINE j == i - m + k
             g == i - h + l
  <2>1. /\ s[i] = IF i <= r THEN u[i] ELSE IF i <= r + h THEN c[i - r] ELSE u[g]
        /\ t[i] = IF i <= p THEN v[i] ELSE IF i <= p + m THEN b[i - p] ELSE v[j]
    BY <1>5, <1>6, <1>7
  <2>2. /\ i \in Nat /\ i >= 1 /\ i <= n - k + m - l + h /\ r = q + (m - k)
        /\ p \in Nat /\ k \in Nat /\ q \in Nat /\ l \in Nat
        /\ p + k <= q /\ q + l <= n
    BY <1>1, <1>10 DEF n
  <2>3. CASE i <= p
    <3>1. i <= r /\ i <= q /\ i \in 1 .. (n - k + m) /\ i \in 1 .. (n - l + h)
      BY <1>1, <2>2, <2>3
    <3>2. u[i] = text[i] /\ v[i] = text[i]
      BY <1>3, <1>4, <2>3, <3>1
    <3> QED
      BY <2>1, <2>3, <3>1, <3>2
  <2>4. CASE ~ (i <= p) /\ i <= p + m
    <3>1. i <= r /\ i \in 1 .. (n - k + m)
      BY <1>1, <2>2, <2>4
    <3>2. u[i] = b[i - p]
      BY <1>3, <2>4, <3>1
    <3> QED
      BY <2>1, <2>4, <3>1, <3>2
  <2>5. CASE ~ (i <= p + m) /\ i <= r
    <3>1. ~ (i <= p) /\ i \in 1 .. (n - k + m) /\ j \in 1 .. (n - l + h) /\ j <= q
      BY <1>1, <2>2, <2>5
    <3>2. u[i] = text[j]
      BY <1>3, <2>5, <3>1
    <3> HIDE DEF j
    <3>3. v[j] = text[j]
      BY <1>4, <3>1
    <3> QED
      BY <2>1, <2>5, <3>1, <3>2, <3>3
  <2>6. CASE ~ (i <= r) /\ i <= r + h
    <3>1. /\ ~ (i <= p) /\ ~ (i <= p + m) /\ j \in 1 .. (n - l + h)
          /\ ~ (j <= q) /\ j <= q + h /\ j - q = i - r
      BY <1>1, <2>2, <2>6
    <3> HIDE DEF j
    <3>2. v[j] = c[j - q]
      BY <1>4, <3>1
    <3> QED
      BY <2>1, <2>6, <3>1, <3>2
  <2>7. CASE ~ (i <= r + h)
    <3>1. /\ ~ (i <= p) /\ ~ (i <= p + m) /\ ~ (i <= r) /\ j \in 1 .. (n - l + h)
          /\ ~ (j <= q) /\ ~ (j <= q + h) /\ j - h + l = g - m + k
          /\ g \in 1 .. (n - k + m) /\ ~ (g <= p) /\ ~ (g <= p + m)
      BY <1>1, <2>2, <2>7
    <3> HIDE DEF j, g
    <3>2. v[j] = text[j - h + l]
      BY <1>4, <3>1
    <3>3. u[g] = text[g - m + k]
      BY <1>3, <3>1
    <3> QED
      BY <2>1, <2>7, <3>1, <3>2, <3>3
  <2> QED
    BY <2>3, <2>4, <2>5, <2>6, <2>7
<1>9. s = t
  <2> HIDE DEF all
  <2>1. Len(s) = all /\ Len(t) = all
    BY <1>5, <1>6, <1>7
  <2>2. \A i \in 1 .. all : s[i] = t[i]
    BY <1>8
  <2> QED
    BY <1>5, <1>6, <2>1, <2>2, TextsEqual
<1> QED
  BY <1>9 DEF s, t, u, v

\* The first hunk is awaited where it was made.
LEMMA FirstAwaits ==
  ASSUME NEW text, IsText(text), NEW e, IsEdit(text, e)
  PROVE  e.at - Before(e) \in Nat /\ Awaits(text, e, text, 0, e.at - Before(e))
<1>1. e.at \in Nat /\ Before(e) \in Nat /\ Before(e) <= e.at /\ Len(text) \in Nat
  BY EditIs DEF IsText, Before
<1>2. e.at - Before(e) \in Nat /\ e.at - Before(e) = e.at - Before(e) + 0 /\ Len(text) = Len(text) + 0
  BY <1>1
<1> QED
  BY <1>2 DEF Awaits

\* The second hunk is awaited as much further down as the first one has moved it.
LEMMA SecondAwaits ==
  ASSUME NEW text, IsText(text), NEW d, IsEdit(text, d), NEW e, IsEdit(text, e), Apart(d, e)
  PROVE  /\ Len(d.by) - d.was \in Int /\ e.at - 1 + (Len(d.by) - d.was) \in Nat
         /\ Awaits(text, e, Spliced(text, d.at, d.was, d.by), Len(d.by) - d.was,
                   e.at - 1 + (Len(d.by) - d.was))
<1> DEFINE n == Len(text)
           m == Len(d.by)
           a == Before(e)
           z == After(text, e)
           shift == m - d.was
           p == e.at - 1 + shift
           now == Spliced(text, d.at, d.was, d.by)
<1>1. /\ n \in Nat /\ d.at \in Nat /\ d.was \in Nat /\ m \in Nat /\ IsText(d.by)
      /\ d.at + d.was <= n
      /\ e.at \in Nat /\ e.was \in Nat /\ e.at + e.was <= n /\ d.at + d.was < e.at
      /\ z \in Nat /\ z <= 1 /\ (z = 1 => e.at + e.was < n)
  BY EditIs DEF IsText, After, Apart
<1>2. a = 1
  BY <1>1 DEF Before
<1>3. /\ IsText(now) /\ Len(now) = n - d.was + m
      /\ \A i \in 1 .. (n - d.was + m) :
           now[i] = IF i <= d.at THEN text[i] ELSE IF i <= d.at + m THEN d.by[i - d.at]
                    ELSE text[i - m + d.was]
  <2>1. IsSpliced(now, text, d.at, d.was, d.by)
    BY <1>1, SplicedText
  <2> QED
    BY <2>1 DEF IsSpliced
<1> HIDE DEF n, m, a, z, now
<1>4. shift \in Int /\ p \in Nat /\ p = e.at - a + shift /\ e.at # 0 /\ Len(now) = n + shift
  <2>1. shift \in Int /\ p \in Nat /\ p = e.at - a + shift /\ e.at # 0 /\ n - d.was + m = n + shift
    BY <1>1, <1>2
  <2> HIDE DEF shift, p
  <2> QED
    BY <1>3, <2>1
<1>5. ASSUME NEW i \in 1 .. (a + e.was + z) PROVE now[p + i] = text[e.at - a + i]
  <2> DEFINE j == p + i
  <2>1. /\ j \in 1 .. (n - d.was + m) /\ ~ (j <= d.at) /\ ~ (j <= d.at + m)
        /\ j - m + d.was = e.at - a + i
    BY <1>1, <1>2
  <2> HIDE DEF j, p
  <2>2. now[j] = text[j - m + d.was]
    BY <1>3, <2>1
  <2> QED
    BY <2>1, <2>2 DEF j
<1>6. Awaits(text, e, now, shift, p)
  <2> HIDE DEF shift, p
  <2> QED
    BY <1>4, <1>5 DEF Awaits, n, a, z
<1> QED
  BY <1>4, <1>6 DEF m, now

-----------------------------------------------------------------------------
(* The recursive functions of Patch *)

\* What has been made of a text by each of its hunks.
IsApplied(f, original, hunks) ==
  \A i \in 0 .. Len(hunks) :
    f[i] = IF i = 0 THEN State(original, 0) ELSE ApplyHunk(f[i - 1], hunks[i])

\* A function whose values up to any number can be given is defined by its equations.
LEMMA AppliedIs ==
  ASSUME NEW original, NEW hunks, Len(hunks) \in Nat
  PROVE  \E f : IsApplied(f, original, hunks) /\ ApplyHunks(original, hunks) = f[Len(hunks)]
<1> DEFINE g(f, n) == [i \in 0 .. n |->
                      IF i = 0 THEN State(original, 0) ELSE ApplyHunk(f[i - 1], hunks[i])]
           T == {n \in Nat : ~ \E f : f = g(f, n)}
<1>1. 0 \notin T
  <2> DEFINE f == [i \in 0 .. 0 |-> State(original, 0)]
  <2>1. g(f, 0) = f
    OBVIOUS
  <2> HIDE DEF f
  <2> QED
    BY <2>1
<1>2. ASSUME NEW n \in Nat, n \notin T PROVE n + 1 \notin T
  <2> DEFINE x(f) == [i \in 0 .. (n + 1) |-> IF i = n + 1 THEN ApplyHunk(f[n], hunks[n + 1]) ELSE f[i]]
  <2>1. PICK f : f = g(f, n)
    BY <1>2
  <2>2. \A i \in 0 .. n : f[i] = IF i = 0 THEN State(original, 0) ELSE ApplyHunk(f[i - 1], hunks[i])
    BY <2>1
  <2>3. g(x(f), n + 1) = x(f)
    <3> SUFFICES ASSUME NEW i \in 0 .. (n + 1) PROVE g(x(f), n + 1)[i] = x(f)[i]
      OBVIOUS
    <3>1. CASE i = 0
      BY <2>2, <3>1
    <3>2. CASE i \in 1 .. n
      <4>1. i - 1 \in 0 .. n /\ i \in 0 .. n /\ i # 0 /\ i # n + 1 /\ i - 1 # n + 1
        BY <3>2
      <4>2. x(f)[i] = f[i] /\ x(f)[i - 1] = f[i - 1]
        BY <4>1
      <4> QED
        BY <2>2, <4>1, <4>2
    <3>3. CASE i = n + 1
      <4>1. i - 1 = n /\ n \in 0 .. (n + 1) /\ n # n + 1 /\ i # 0
        BY <3>3
      <4>2. x(f)[n] = f[n] /\ x(f)[i] = ApplyHunk(f[n], hunks[n + 1])
        BY <3>3, <4>1
      <4>3. g(x(f), n + 1)[i] = ApplyHunk(x(f)[i - 1], hunks[i])
        BY <4>1
      <4> QED
        BY <3>3, <4>1, <4>2, <4>3
    <3> QED
      BY <3>1, <3>2, <3>3
  <2> QED
    BY <2>3
<1>3. T = {}
  <2> SUFFICES ASSUME T # {} PROVE FALSE
    OBVIOUS
  <2>1. T \in SUBSET Nat
    OBVIOUS
  <2> HIDE DEF T
  <2>2. PICK n \in T : \A k \in T : n <= k
    BY <2>1, LeastNatural
  <2>3. n - 1 \in Nat /\ n - 1 \notin T /\ (n - 1) + 1 = n
    BY <1>1, <2>1, <2>2
  <2> QED
    BY <1>2, <2>2, <2>3
<1>4. \E f : f = g(f, Len(hunks))
  BY <1>3
<1>5. PICK f : f = g(f, Len(hunks)) /\ ApplyHunks(original, hunks) = f[Len(hunks)]
  BY <1>4 DEF ApplyHunks, State
<1>6. IsApplied(f, original, hunks)
  BY <1>5 DEF IsApplied
<1> QED
  BY <1>5, <1>6

\* Nothing read of a diff, and a hunk being read.
Unread == [files |-> <<>>, open |-> FALSE, hunk |-> Hunk(0, <<>>, <<>>), ok |-> TRUE]
InHunk(files, hunk) == [files |-> files, open |-> TRUE, hunk |-> hunk, ok |-> TRUE]

Following(diff, i) == IF i < Len(diff) THEN diff[i + 1] ELSE Other

\* What has been read after every line.
IsReading(r, diff) ==
  \A i \in 0 .. Len(diff) :
    r[i] = IF i = 0 THEN Unread ELSE ParseLine(r[i - 1], diff[i], Following(diff, i))

LEMMA ReadingIs ==
  ASSUME NEW diff, Len(diff) \in Nat
  PROVE  IsReading(Reading(diff), diff)
<1> DEFINE g(f, n) == [i \in 0 .. n |->
                         IF i = 0 THEN Unread ELSE ParseLine(f[i - 1], diff[i], Following(diff, i))]
           T == {n \in Nat : ~ \E f : f = g(f, n)}
<1>1. 0 \notin T
  <2> DEFINE f == [i \in 0 .. 0 |-> Unread]
  <2>1. g(f, 0) = f
    OBVIOUS
  <2> HIDE DEF f
  <2> QED
    BY <2>1
<1>2. ASSUME NEW n \in Nat, n \notin T PROVE n + 1 \notin T
  <2> DEFINE m == n + 1
             x(f) == [i \in 0 .. m |-> IF i = m THEN ParseLine(f[n], diff[m], Following(diff, m))
                                       ELSE f[i]]
  <2>1. PICK f : f = g(f, n)
    BY <1>2
  <2>2. \A i \in 0 .. n :
          f[i] = IF i = 0 THEN Unread ELSE ParseLine(f[i - 1], diff[i], Following(diff, i))
    BY <2>1
  <2>3. g(x(f), m) = x(f)
    <3> SUFFICES ASSUME NEW i \in 0 .. m PROVE g(x(f), m)[i] = x(f)[i]
      OBVIOUS
    <3>1. CASE i = 0
      BY <2>2, <3>1
    <3>2. CASE i \in 1 .. n
      <4>1. i - 1 \in 0 .. n /\ i \in 0 .. n /\ i # 0 /\ i # m /\ i - 1 # m
        BY <3>2
      <4>2. x(f)[i] = f[i] /\ x(f)[i - 1] = f[i - 1]
        BY <4>1
      <4> QED
        BY <2>2, <4>1, <4>2
    <3>3. CASE i = m
      <4>1. i - 1 = n /\ n \in 0 .. m /\ n # m /\ i # 0
        BY <3>3
      <4>2. x(f)[n] = f[n] /\ x(f)[i] = ParseLine(f[n], diff[m], Following(diff, m))
        BY <3>3, <4>1
      <4>3. g(x(f), m)[i] = ParseLine(x(f)[i - 1], diff[i], Following(diff, i))
        BY <4>1
      <4> QED
        BY <3>3, <4>1, <4>2, <4>3
    <3> QED
      BY <3>1, <3>2, <3>3
  <2> QED
    BY <2>3
<1>3. T = {}
  <2> SUFFICES ASSUME T # {} PROVE FALSE
    OBVIOUS
  <2>1. T \in SUBSET Nat
    OBVIOUS
  <2> HIDE DEF T
  <2>2. PICK n \in T : \A k \in T : n <= k
    BY <2>1, LeastNatural
  <2>3. n - 1 \in Nat /\ n - 1 \notin T /\ (n - 1) + 1 = n
    BY <1>1, <2>1, <2>2
  <2> QED
    BY <1>2, <2>2, <2>3
<1>4. \E f : f = g(f, Len(diff))
  BY <1>3
<1>5. Reading(diff) = g(Reading(diff), Len(diff))
  BY <1>4 DEF Reading, Unread, Following
<1> QED
  BY <1>5 DEF IsReading

-----------------------------------------------------------------------------
(* Parts of a diff *)

Records == [tag : {"---", "+++", "@@", " ", "-", "+"}, content : Lines \cup Paths \cup Nat]

\* The lines of a diff after the first k.
Placed(diff, k, part) ==
  /\ k \in Nat /\ Len(part) \in Nat /\ k + Len(part) <= Len(diff)
  /\ \A i \in 1 .. Len(part) : diff[k + i] = part[i]

LEMMA PlacedSplit ==
  ASSUME NEW diff, NEW k, NEW s \in Seq(Records), NEW t \in Seq(Records), Placed(diff, k, s \o t),
         Len(diff) \in Nat
  PROVE  Placed(diff, k, s) /\ Placed(diff, k + Len(s), t)
<1> DEFINE a == Len(s)
           b == Len(t)
           whole == s \o t
           n == Len(diff)
<1>1. /\ a \in Nat /\ b \in Nat /\ Len(whole) = a + b
      /\ \A i \in 1 .. (a + b) : whole[i] = IF i <= a THEN s[i] ELSE t[i - a]
  BY ConcatProperties, LenProperties
<1> HIDE DEF a, b, whole
<1>2. k \in Nat /\ k + (a + b) <= n /\ \A i \in 1 .. (a + b) : diff[k + i] = whole[i]
  BY <1>1 DEF Placed, whole
<1> HIDE DEF n
<1>3. n \in Nat
  BY DEF n
<1>4. k + a \in Nat /\ k + a <= n /\ (k + a) + b <= n
  BY <1>1, <1>2, <1>3
<1>5. ASSUME NEW i \in 1 .. a PROVE diff[k + i] = s[i]
  <2>1. i \in 1 .. (a + b) /\ i <= a
    BY <1>1
  <2> QED
    BY <1>1, <1>2, <2>1
<1>6. ASSUME NEW i \in 1 .. b PROVE diff[(k + a) + i] = t[i]
  <2> DEFINE j == a + i
  <2>1. j \in 1 .. (a + b) /\ ~ (j <= a) /\ j - a = i /\ k + j = (k + a) + i
    BY <1>1, <1>2
  <2> HIDE DEF j
  <2>2. diff[k + j] = t[j - a]
    BY <1>1, <1>2, <2>1
  <2> QED
    BY <2>1, <2>2
<1> QED
  BY <1>1, <1>2, <1>4, <1>5, <1>6 DEF Placed, a, b, n

LEMMA SameBound ==
  ASSUME NEW a \in Nat, NEW b \in Nat, 1 .. a = 1 .. b
  PROVE  a = b
<1>1. a > 0 => a \in 1 .. a
  OBVIOUS
<1>2. b > 0 => b \in 1 .. b
  OBVIOUS
<1>3. (a > 0 => a <= b) /\ (b > 0 => b <= a)
  BY <1>1, <1>2
<1> QED
  BY <1>3

LEMMA TaggedIs ==
  ASSUME NEW tag \in {" ", "-", "+"}, NEW lines \in Seq(Lines)
  PROVE  /\ Tagged(tag, lines) \in Seq(Records) /\ Len(Tagged(tag, lines)) = Len(lines)
         /\ \A i \in 1 .. Len(lines) : Tagged(tag, lines)[i] = [tag |-> tag, content |-> lines[i]]
<1>1. DOMAIN lines = 1 .. Len(lines) /\ Len(lines) \in Nat /\ \A i \in 1 .. Len(lines) : lines[i] \in Lines
  BY LenProperties, ElementOfSeq
<1>2. Tagged(tag, lines) = [i \in 1 .. Len(lines) |-> [tag |-> tag, content |-> lines[i]]]
  BY <1>1 DEF Tagged
<1> DEFINE n == Len(lines)
           tagged == Tagged(tag, lines)
<1>3. tagged \in [1 .. n -> Records]
  <2>1. \A i \in 1 .. n : [tag |-> tag, content |-> lines[i]] \in Records
    <3> SUFFICES ASSUME NEW i \in 1 .. n PROVE [tag |-> tag, content |-> lines[i]] \in Records
      OBVIOUS
    <3>1. lines[i] \in Lines \cup Paths \cup Nat
      BY <1>1
    <3>2. tag \in {"---", "+++", "@@", " ", "-", "+"}
      OBVIOUS
    <3> QED
      BY <3>1, <3>2 DEF Records
  <2> HIDE DEF n
  <2> QED
    BY <1>2, <2>1, Zenon DEF n
<1>4. tagged \in Seq(Records) /\ Len(tagged) = n
  <2>1. n \in Nat
    BY <1>1
  <2>2. \E m \in Nat : tagged \in [1 .. m -> Records]
    BY <1>3, <2>1
  <2> HIDE DEF n, tagged
  <2>3. tagged \in Seq(Records)
    <3>1. Seq(Records) = UNION {[1 .. m -> Records] : m \in Nat}
      BY SeqDef
    <3> QED
      BY <2>2, <3>1, Zenon
  <2>4. DOMAIN tagged = 1 .. n
    BY <1>3
  <2> QED
    <3>1. Len(tagged) \in Nat /\ DOMAIN tagged = 1 .. Len(tagged)
      BY <2>3, LenProperties
    <3> QED
      BY <2>1, <2>3, <2>4, <3>1, SameBound
<1> QED
  BY <1>2, <1>4

LEMMA PrefixGrows ==
  ASSUME NEW side, IsText(side), NEW lines, IsText(lines), NEW i \in Nat, i + 1 <= Len(lines)
  PROVE  Append(side \o SubSeq(lines, 1, i), lines[i + 1]) = side \o SubSeq(lines, 1, i + 1)
<1> DEFINE j == i + 1
           p == SubSeq(lines, 1, i)
           q == SubSeq(lines, 1, j)
           a == Len(side)
           s == Append(side \o p, lines[j])
           t == side \o q
<1>1. Len(lines) \in Nat /\ a \in Nat /\ lines[j] \in Lines
  BY TextLength, ElementOfSeq DEF IsText
<1>2. p \in Seq(Lines) /\ Len(p) = i /\ \A h \in 1 .. i : p[h] = lines[h]
  <2>1. 0 + i <= Len(lines) /\ 0 + 1 = 1 /\ \A h \in 0 .. i : 0 + h = h
    BY <1>1
  <2>2. /\ SubSeq(lines, 0 + 1, 0 + i) \in Seq(Lines) /\ Len(SubSeq(lines, 0 + 1, 0 + i)) = i
        /\ \A h \in 1 .. i : SubSeq(lines, 0 + 1, 0 + i)[h] = lines[0 + h]
    BY <2>1, StretchIs DEF IsText
  <2> QED
    BY <2>1, <2>2
<1>3. q \in Seq(Lines) /\ Len(q) = j /\ \A h \in 1 .. j : q[h] = lines[h]
  <2>1. j \in Nat /\ 0 + j <= Len(lines) /\ 0 + 1 = 1 /\ \A h \in 0 .. j : 0 + h = h
    BY <1>1
  <2> HIDE DEF j
  <2>2. /\ SubSeq(lines, 0 + 1, 0 + j) \in Seq(Lines) /\ Len(SubSeq(lines, 0 + 1, 0 + j)) = j
        /\ \A h \in 1 .. j : SubSeq(lines, 0 + 1, 0 + j)[h] = lines[0 + h]
    BY <2>1, StretchIs DEF IsText
  <2> QED
    BY <2>1, <2>2
<1> HIDE DEF p, q
<1>4. /\ side \o p \in Seq(Lines) /\ Len(side \o p) = a + i
      /\ \A h \in 1 .. (a + i) : (side \o p)[h] = IF h <= a THEN side[h] ELSE p[h - a]
  BY <1>2, ConcatProperties DEF IsText
<1>5. /\ t \in Seq(Lines) /\ Len(t) = a + j
      /\ \A h \in 1 .. (a + j) : t[h] = IF h <= a THEN side[h] ELSE q[h - a]
  <2> HIDE DEF j
  <2> QED
    BY <1>3, ConcatProperties DEF IsText
<1> DEFINE front == side \o p
<1> HIDE DEF front
<1>6. /\ s \in Seq(Lines) /\ Len(s) = Len(front) + 1
      /\ \A h \in 1 .. Len(front) : s[h] = front[h]
      /\ s[Len(front) + 1] = lines[j]
  <2> HIDE DEF j
  <2> QED
    <3>1. side \o p \in Seq(Lines) /\ lines[j] \in Lines
      BY <1>1, <1>4
    <3> QED
      BY <3>1, AppendProperties DEF front
<1> HIDE DEF s, t, a
<1>7. ASSUME NEW h \in 1 .. (a + j) PROVE s[h] = t[h]
  <2>1. t[h] = IF h <= a THEN side[h] ELSE q[h - a]
    BY <1>5
  <2>2. CASE h = a + j
    <3>1. ~ (h <= a) /\ h - a = j /\ j \in 1 .. j /\ h = Len(front) + 1
      BY <1>1, <1>4, <2>2 DEF front
    <3> HIDE DEF j
    <3> QED
      BY <1>3, <1>6, <2>1, <3>1
  <2>3. CASE h # a + j
    <3>1. h \in 1 .. (a + i) /\ (~ (h <= a) => h - a \in 1 .. i /\ h - a \in 1 .. j)
      BY <1>1, <2>3
    <3> HIDE DEF j
    <3>2. s[h] = IF h <= a THEN side[h] ELSE p[h - a]
      BY <1>4, <1>6, <3>1 DEF front
    <3> QED
      BY <1>2, <1>3, <2>1, <3>1, <3>2
  <2> QED
    BY <2>2, <2>3
<1>8. s = t
  <2>1. Len(s) = a + j /\ a + i + 1 = a + j
    BY <1>1, <1>4, <1>6 DEF front
  <2> QED
    BY <1>5, <1>6, <1>7, <2>1, TextsEqual DEF IsText
<1> QED
  BY <1>8 DEF s, t, p, q

LEMMA EmptyPrefix ==
  ASSUME NEW side, IsText(side), NEW lines, IsText(lines)
  PROVE  side \o SubSeq(lines, 1, 0) = side /\ SubSeq(lines, 1, Len(lines)) = lines
<1>1. SubSeq(lines, 1, 0) = <<>>
  BY SubSeqEmpty DEF IsText
<1>2. side \o <<>> = side
  BY ConcatEmptySeq DEF IsText
<1>3. SubSeq(lines, 1, Len(lines)) = lines
  BY SubSeqFull DEF IsText
<1> QED
  BY <1>1, <1>2, <1>3

\* No removed line of a diff looks like the name of a file.
IsPlain(diff) == \A i \in 1 .. Len(diff) : diff[i].tag = "-" => ~ IsOld(diff[i])
IsDiff(diff) == Len(diff) \in Nat /\ IsPlain(diff)
IsTag(tag) == tag \in {" ", "-", "+"}

\* A side of a hunk, with more lines where they are of that side.
Taken(take, side, lines) == IF take THEN side \o lines ELSE side

LEMMA LineReads ==
  ASSUME NEW files, NEW start, NEW old, NEW new, NEW content, NEW next, NEW tag, IsTag(tag),
         tag = "-" => ~ IsOld([tag |-> tag, content |-> content])
  PROVE  ParseLine(InHunk(files, Hunk(start, old, new)), [tag |-> tag, content |-> content], next) =
           InHunk(files, Hunk(start, IF tag # "+" THEN Append(old, content) ELSE old,
                              IF tag # "-" THEN Append(new, content) ELSE new))
<1>1. CASE tag = " "
  BY <1>1 DEF ParseLine, IsOld, InHunk, Hunk
<1>2. CASE tag = "-"
  BY <1>2 DEF ParseLine, IsOld, InHunk, Hunk
<1>3. CASE tag = "+"
  BY <1>3 DEF ParseLine, IsOld, InHunk, Hunk
<1> QED
  BY <1>1, <1>2, <1>3 DEF IsTag

\* The hunk read after the first k lines.
Reads(r, k, files, start, old, new) == r[k] = InHunk(files, Hunk(start, old, new))

\* The lines of a hunk with the same tag are added to its sides.
LEMMA StretchReads ==
  ASSUME NEW diff, IsDiff(diff), NEW r, IsReading(r, diff), NEW k,
         NEW tag, IsTag(tag), NEW lines, IsText(lines), Placed(diff, k, Tagged(tag, lines)),
         NEW files, NEW start, NEW old, IsText(old), NEW new, IsText(new),
         Reads(r, k, files, start, old, new)
  PROVE  Reads(r, k + Len(lines), files, start,
               Taken(tag # "+", old, lines), Taken(tag # "-", new, lines))
<1> DEFINE m == Len(lines)
           n == Len(diff)
           H(i) == InHunk(files, Hunk(start, Taken(tag # "+", old, SubSeq(lines, 1, i)),
                                      Taken(tag # "-", new, SubSeq(lines, 1, i))))
           T == {i \in Nat : i <= m /\ r[k + i] # H(i)}
<1>1. /\ k \in Nat /\ k + m <= n
      /\ \A i \in 1 .. m : diff[k + i] = [tag |-> tag, content |-> lines[i]]
  <2>1. /\ Len(Tagged(tag, lines)) = Len(lines)
        /\ \A i \in 1 .. Len(lines) : Tagged(tag, lines)[i] = [tag |-> tag, content |-> lines[i]]
    BY TaggedIs DEF IsText, IsTag
  <2> QED
    BY <2>1 DEF Placed
<1>2. m \in Nat /\ n \in Nat /\ k \in Nat /\ k + m <= n
  BY <1>1, TextLength DEF IsDiff
<1> HIDE DEF m, n
<1>3. 0 \notin T
  <2>1. k + 0 = k
    BY <1>2
  <2>2. Taken(tag # "+", old, SubSeq(lines, 1, 0)) = old /\ Taken(tag # "-", new, SubSeq(lines, 1, 0)) = new
    BY EmptyPrefix DEF Taken
  <2> QED
    BY <2>1, <2>2 DEF Reads
<1>4. ASSUME NEW i \in Nat, i + 1 <= m, i \notin T PROVE i + 1 \notin T
  <2> DEFINE j == i + 1
  <2>1. i <= m /\ j \in 1 .. m /\ k + j \in 0 .. n /\ k + j # 0 /\ (k + j) - 1 = k + i
    BY <1>2, <1>4
  <2>2. r[k + i] = H(i)
    <3>1. ~ (i <= m /\ r[k + i] # H(i))
      BY <1>4
    <3> HIDE DEF H
    <3> QED
      BY <2>1, <3>1
  <2>3. r[k + j] = ParseLine(r[k + i], diff[k + j], Following(diff, k + j))
    <3> DEFINE h == k + j
    <3>1. h \in 0 .. Len(diff) /\ h # 0 /\ h - 1 = k + i
      BY <2>1 DEF n
    <3> HIDE DEF h
    <3>2. r[h] = ParseLine(r[h - 1], diff[h], Following(diff, h))
      BY <3>1 DEF IsReading
    <3> QED
      BY <3>1, <3>2 DEF h
  <2>4. /\ diff[k + j] = [tag |-> tag, content |-> lines[j]]
        /\ tag = "-" => ~ IsOld([tag |-> tag, content |-> lines[j]])
    <3> DEFINE h == k + j
               line == [tag |-> tag, content |-> lines[j]]
    <3>1. diff[h] = line /\ line.tag = tag
      BY <1>1, <2>1
    <3>2. h \in 1 .. n
      BY <1>2, <2>1
    <3> HIDE DEF h, line
    <3>3. diff[h].tag = "-" => ~ IsOld(diff[h])
      BY <3>2 DEF IsDiff, IsPlain, n
    <3> QED
      BY <3>1, <3>3 DEF h, line
  <2>5. /\ Append(old \o SubSeq(lines, 1, i), lines[j]) = old \o SubSeq(lines, 1, j)
        /\ Append(new \o SubSeq(lines, 1, i), lines[j]) = new \o SubSeq(lines, 1, j)
    <3>1. i + 1 <= Len(lines)
      BY <1>4 DEF m
    <3> QED
      BY <3>1, PrefixGrows
  <2> HIDE DEF j
  <2>6. r[k + j] =
          InHunk(files, Hunk(start,
            IF tag # "+" THEN Append(Taken(tag # "+", old, SubSeq(lines, 1, i)), lines[j])
              ELSE Taken(tag # "+", old, SubSeq(lines, 1, i)),
            IF tag # "-" THEN Append(Taken(tag # "-", new, SubSeq(lines, 1, i)), lines[j])
              ELSE Taken(tag # "-", new, SubSeq(lines, 1, i))))
    <3> DEFINE o == Taken(tag # "+", old, SubSeq(lines, 1, i))
               w == Taken(tag # "-", new, SubSeq(lines, 1, i))
    <3>1. r[k + i] = InHunk(files, Hunk(start, o, w))
      BY <2>2
    <3> HIDE DEF o, w
    <3>2. r[k + j] = InHunk(files, Hunk(start, IF tag # "+" THEN Append(o, lines[j]) ELSE o,
                                        IF tag # "-" THEN Append(w, lines[j]) ELSE w))
      BY <2>3, <2>4, <3>1, LineReads
    <3> QED
      BY <3>2 DEF o, w
  <2>7. r[k + j] = H(j)
    BY <2>5, <2>6 DEF Taken
  <2> QED
    BY <2>7 DEF j
<1>5. T = {}
  <2> SUFFICES ASSUME T # {} PROVE FALSE
    OBVIOUS
  <2>1. T \in SUBSET Nat /\ \A i \in T : i <= m
    <3> HIDE DEF H
    <3> QED
      OBVIOUS
  <2> HIDE DEF T
  <2>2. PICK i \in T : \A h \in T : i <= h
    BY <2>1, LeastNatural
  <2>3. i - 1 \in Nat /\ i - 1 \notin T /\ (i - 1) + 1 = i /\ (i - 1) + 1 <= m
    <3>1. i # 0 /\ i \in Nat /\ i <= m
      BY <1>3, <2>1
    <3>2. i - 1 \in Nat /\ ~ (i <= i - 1) /\ (i - 1) + 1 = i /\ (i - 1) + 1 <= m
      BY <1>2, <3>1
    <3> QED
      BY <2>2, <3>2
  <2> QED
    BY <1>4, <2>2, <2>3
<1>6. r[k + m] = H(m)
  <2>1. m \in Nat /\ m <= m /\ m \notin T
    BY <1>2, <1>5
  <2> HIDE DEF H
  <2> QED
    BY <2>1
<1>7. SubSeq(lines, 1, Len(lines)) = lines
  BY EmptyPrefix
<1> QED
  BY <1>6, <1>7 DEF m, Reads

LEMMA Concatenated ==
  ASSUME NEW S, NEW s \in Seq(S), NEW t \in Seq(S)
  PROVE  s \o t \in Seq(S) /\ Len(s \o t) = Len(s) + Len(t)
BY ConcatProperties

\* The first part of a diff at k, followed by a second one.
IsPart(s) == s \in Seq(Records)

LEMMA PartsJoin ==
  ASSUME NEW s, IsPart(s), NEW t, IsPart(t)
  PROVE  IsPart(s \o t) /\ Len(s \o t) = Len(s) + Len(t) /\ Len(s) \in Nat /\ Len(t) \in Nat
BY Concatenated, LenProperties DEF IsPart

\* Where a part of a diff ends.
End(k, s) == k + Len(s)

LEMMA PartsFollow ==
  ASSUME NEW diff, IsDiff(diff), NEW k, NEW s, IsPart(s), NEW t, IsPart(t), Placed(diff, k, s \o t)
  PROVE  /\ Placed(diff, k, s) /\ Placed(diff, End(k, s), t) /\ IsPart(s \o t)
         /\ End(k, s \o t) = End(End(k, s), t)
<1>1. Placed(diff, k, s) /\ Placed(diff, k + Len(s), t)
  BY PlacedSplit DEF IsPart, IsDiff
<1>2. k \in Nat
  BY DEF Placed
<1>3. k + (Len(s) + Len(t)) = (k + Len(s)) + Len(t)
  <2> DEFINE a == Len(s)
             b == Len(t)
  <2>1. a \in Nat /\ b \in Nat
    BY PartsJoin
  <2> HIDE DEF a, b
  <2>2. k + (a + b) = (k + a) + b
    BY <1>2, <2>1
  <2> QED
    BY <2>2 DEF a, b
<1>4. IsPart(s \o t) /\ Len(s \o t) = Len(s) + Len(t)
  BY PartsJoin
<1> QED
  BY <1>1, <1>3, <1>4 DEF End

LEMMA FiveParts ==
  ASSUME NEW diff, IsDiff(diff), NEW k,
         NEW a, IsPart(a), NEW b, IsPart(b), NEW c, IsPart(c), NEW d, IsPart(d), NEW f, IsPart(f),
         Placed(diff, k, (((a \o b) \o c) \o d) \o f)
  PROVE  /\ IsPart((((a \o b) \o c) \o d) \o f)
         /\ Placed(diff, k, a) /\ Placed(diff, End(k, a), b) /\ Placed(diff, End(End(k, a), b), c)
         /\ Placed(diff, End(End(End(k, a), b), c), d)
         /\ Placed(diff, End(End(End(End(k, a), b), c), d), f)
         /\ End(k, (((a \o b) \o c) \o d) \o f) = End(End(End(End(End(k, a), b), c), d), f)
<1> DEFINE w1 == a \o b
           w2 == w1 \o c
           w3 == w2 \o d
           whole == w3 \o f
<1>1. IsPart(w1) /\ IsPart(w2) /\ IsPart(w3)
  <2>1. IsPart(w1)
    BY PartsJoin
  <2> HIDE DEF w1
  <2>2. IsPart(w2)
    BY <2>1, PartsJoin
  <2> HIDE DEF w2
  <2>3. IsPart(w3)
    BY <2>2, PartsJoin
  <2> QED
    BY <2>1, <2>2, <2>3
<1>2. whole = w3 \o f
  OBVIOUS
<1>10. Placed(diff, k, whole)
  OBVIOUS
<1> HIDE DEF w3, whole
<1>3. /\ Placed(diff, k, w3) /\ Placed(diff, End(k, w3), f) /\ IsPart(whole)
      /\ End(k, whole) = End(End(k, w3), f)
  BY <1>1, <1>2, <1>10, PartsFollow
<1>4. w3 = w2 \o d
  BY DEF w3
<1> HIDE DEF w2
<1>5. /\ Placed(diff, k, w2) /\ Placed(diff, End(k, w2), d) /\ End(k, w3) = End(End(k, w2), d)
  BY <1>1, <1>3, <1>4, PartsFollow
<1>6. w2 = w1 \o c
  BY DEF w2
<1> HIDE DEF w1
<1>7. /\ Placed(diff, k, w1) /\ Placed(diff, End(k, w1), c) /\ End(k, w2) = End(End(k, w1), c)
  BY <1>1, <1>5, <1>6, PartsFollow
<1>8. w1 = a \o b
  BY DEF w1
<1>9. /\ Placed(diff, k, a) /\ Placed(diff, End(k, a), b) /\ End(k, w1) = End(End(k, a), b)
  BY <1>7, <1>8, PartsFollow
<1> QED
  BY <1>3, <1>5, <1>7, <1>9 DEF whole, w3, w2, w1

LEMMA TextsJoin ==
  ASSUME NEW s, IsText(s), NEW t, IsText(t)
  PROVE  IsText(s \o t)
BY Concatenated DEF IsText

LEMMA TaggedPart ==
  ASSUME NEW tag, IsTag(tag), NEW lines, IsText(lines)
  PROVE  IsPart(Tagged(tag, lines)) /\ Len(Tagged(tag, lines)) = Len(lines)
BY TaggedIs DEF IsTag, IsText, IsPart

LEMMA Tags == IsTag(" ") /\ IsTag("-") /\ IsTag("+")
BY DEF IsTag

HunkHead(e) == <<[tag |-> "@@", content |-> FirstLine(e)]>>

LEMMA PartReads ==
  ASSUME NEW diff, IsDiff(diff), NEW r, IsReading(r, diff), NEW k,
         NEW tag, IsTag(tag), NEW lines, IsText(lines), Placed(diff, k, Tagged(tag, lines)),
         NEW files, NEW start, NEW old, IsText(old), NEW new, IsText(new),
         Reads(r, k, files, start, old, new)
  PROVE  Reads(r, End(k, Tagged(tag, lines)), files, start,
               Taken(tag # "+", old, lines), Taken(tag # "-", new, lines))
<1>1. Reads(r, k + Len(lines), files, start, Taken(tag # "+", old, lines), Taken(tag # "-", new, lines))
  BY StretchReads
<1>2. End(k, Tagged(tag, lines)) = k + Len(lines)
  BY TaggedPart DEF End
<1> QED
  BY <1>1, <1>2

\* The parts of an edit and of its hunk are texts.
LEMMA HunkTexts ==
  ASSUME NEW text, IsText(text), NEW e, IsEdit(text, e)
  PROVE  /\ IsText(Context(text, e.at)) /\ IsText(Context(text, e.at + e.was + 1))
         /\ IsText(Replaced(text, e)) /\ IsText(e.by) /\ IsText(<<>>)
         /\ FirstLine(e) \in Nat
<1>1. e.at \in Nat /\ e.was \in Nat /\ IsText(e.by)
  BY EditIs DEF IsText
<1>2. e.at + e.was + 1 \in Nat /\ FirstLine(e) \in Nat
  BY <1>1 DEF FirstLine
<1>3. IsText(Context(text, e.at))
  BY <1>1, ContextIs DEF IsText
<1>4. IsText(Context(text, e.at + e.was + 1))
  <2> DEFINE i == e.at + e.was + 1
  <2>1. i \in Nat
    BY <1>2
  <2> HIDE DEF i
  <2>2. IsText(Context(text, i))
    BY <2>1, ContextIs DEF IsText
  <2> QED
    BY <2>2 DEF i
<1>5. IsText(Replaced(text, e))
  BY ReplacedIs DEF IsText
<1> QED
  BY <1>1, <1>2, <1>3, <1>4, <1>5 DEF IsText

\* The lines of the hunk of an edit are read as the hunk it is to be.
LEMMA HunkReads ==
  ASSUME NEW text, IsText(text), NEW e, IsEdit(text, e),
         NEW diff, IsDiff(diff), NEW r, IsReading(r, diff), NEW k, Placed(diff, k, HunkLines(text, e)),
         NEW files, Reads(r, k + 1, files, FirstLine(e), <<>>, <<>>)
  PROVE  r[End(k, HunkLines(text, e))] = InHunk(files, HunkOf(text, e))
<1> DEFINE h == HunkHead(e)
           c == Context(text, e.at)
           b == Replaced(text, e)
           d == Context(text, e.at + e.was + 1)
           A == Tagged(" ", c)
           B == Tagged("-", b)
           C == Tagged("+", e.by)
           D == Tagged(" ", d)
           first == FirstLine(e)
<1>1. /\ IsText(c) /\ IsText(b) /\ IsText(e.by) /\ IsText(d) /\ IsText(<<>>) /\ first \in Nat
  BY HunkTexts
<1>2. IsPart(h) /\ Len(h) = 1
  <2>1. first \in Lines \cup Paths \cup Nat
    BY <1>1
  <2>2. [tag |-> "@@", content |-> first] \in Records
    BY <2>1 DEF Records
  <2> QED
    BY <2>2 DEF IsPart, HunkHead
<1>3. HunkLines(text, e) = (((h \o A) \o B) \o C) \o D
  BY DEF HunkLines, Context, Replaced, HunkHead, FirstLine
<1>4. IsPart(A) /\ IsPart(B) /\ IsPart(C) /\ IsPart(D)
  <2> HIDE DEF b, c, d
  <2> QED
    BY <1>1, TaggedPart, Tags
<1> HIDE DEF h, c, b, d, A, B, C, D, first
<1> DEFINE k1 == End(k, h)
           k2 == End(k1, A)
           k3 == End(k2, B)
           k4 == End(k3, C)
           k5 == End(k4, D)
<1>5. /\ Placed(diff, k1, A) /\ Placed(diff, k2, B) /\ Placed(diff, k3, C) /\ Placed(diff, k4, D)
      /\ End(k, HunkLines(text, e)) = k5
  BY <1>2, <1>3, <1>4, FiveParts
<1>6. Reads(r, k1, files, first, <<>>, <<>>)
  BY <1>2 DEF first, End
<1> HIDE DEF k1, k2, k3, k4, k5
<1>7. Reads(r, k2, files, first, c, c)
  <2>1. <<>> \o c = c
    BY <1>1, ConcatEmptySeq DEF IsText
  <2>2. Taken(" " # "+", <<>>, c) = c /\ Taken(" " # "-", <<>>, c) = c
    BY <2>1 DEF Taken
  <2>3. Reads(r, k2, files, first, Taken(" " # "+", <<>>, c), Taken(" " # "-", <<>>, c))
    BY <1>1, <1>5, <1>6, PartReads, Tags DEF A, k2
  <2> QED
    BY <2>2, <2>3
<1>8. Reads(r, k3, files, first, c \o b, c)
  <2>1. Taken("-" # "+", c, b) = c \o b /\ Taken("-" # "-", c, b) = c
    BY DEF Taken
  <2>2. Reads(r, k3, files, first, Taken("-" # "+", c, b), Taken("-" # "-", c, b))
    BY <1>1, <1>5, <1>7, PartReads, Tags DEF B, k3
  <2> QED
    BY <2>1, <2>2
<1>9. IsText(c \o b) /\ IsText(c \o e.by)
  BY <1>1, TextsJoin
<1>10. Reads(r, k4, files, first, c \o b, c \o e.by)
  <2>1. Taken("+" # "+", c \o b, e.by) = c \o b /\ Taken("+" # "-", c, e.by) = c \o e.by
    BY DEF Taken
  <2>2. Reads(r, k4, files, first, Taken("+" # "+", c \o b, e.by), Taken("+" # "-", c, e.by))
    BY <1>1, <1>5, <1>8, <1>9, PartReads, Tags DEF C, k4
  <2> QED
    BY <2>1, <2>2
<1>11. Reads(r, k5, files, first, (c \o b) \o d, (c \o e.by) \o d)
  <2>1. /\ Taken(" " # "+", c \o b, d) = (c \o b) \o d
        /\ Taken(" " # "-", c \o e.by, d) = (c \o e.by) \o d
    BY DEF Taken
  <2>2. Reads(r, k5, files, first, Taken(" " # "+", c \o b, d), Taken(" " # "-", c \o e.by, d))
    BY <1>1, <1>5, <1>9, <1>10, PartReads, Tags DEF D, k5
  <2> QED
    BY <2>1, <2>2
<1>12. HunkOf(text, e) = Hunk(first, (c \o b) \o d, (c \o e.by) \o d)
  BY DEF HunkOf, OldSide, NewSide, Side, c, b, d, first
<1> QED
  BY <1>5, <1>11, <1>12 DEF Reads

\* The section of a patch for one file, and what has been read between its hunks.
Section(p, hunks) == <<FilePatch(p, p, hunks)>>
Between(files, hunk) == [files |-> files, open |-> FALSE, hunk |-> hunk, ok |-> TRUE]

\* A hunk is added to the only section there is.
LEMMA OnlySection ==
  ASSUME NEW x, NEW hunk
  PROVE  [<<x>> EXCEPT ![1].hunks = Append(@, hunk)] = <<[x EXCEPT !.hunks = Append(@, hunk)]>>
<1>1. \A y : [<<x>> EXCEPT ![1] = y] = <<y>>
  OBVIOUS
<1>2. [<<x>> EXCEPT ![1].hunks = Append(@, hunk)] =
        [<<x>> EXCEPT ![1] = [x EXCEPT !.hunks = Append(@, hunk)]]
  OBVIOUS
<1> QED
  BY <1>1, <1>2

\* flush_hunk adds the hunk being read to the section of its file.
LEMMA HunkIsFlushed ==
  ASSUME NEW p, NEW hunks, NEW hunk
  PROVE  Flushed(InHunk(Section(p, hunks), hunk)) = Between(Section(p, Append(hunks, hunk)), hunk)
<1> DEFINE s == InHunk(Section(p, hunks), hunk)
<1>1. Len(s.files) = 1 /\ s.files = <<FilePatch(p, p, hunks)>> /\ s.hunk = hunk /\ s.open
  BY DEF InHunk, Section
<1>2. [s.files EXCEPT ![1].hunks = Append(@, hunk)] = Section(p, Append(hunks, hunk))
  <2>1. [FilePatch(p, p, hunks) EXCEPT !.hunks = Append(@, hunk)] = FilePatch(p, p, Append(hunks, hunk))
    BY DEF FilePatch
  <2> QED
    BY <1>1, <2>1, OnlySection DEF Section
<1>3. Flushed(s) = [s EXCEPT !.open = FALSE, !.files[1].hunks = Append(@, hunk)]
  BY <1>1 DEF Flushed
<1>4. Flushed(s) = [s EXCEPT !.open = FALSE, !.files = [s.files EXCEPT ![1].hunks = Append(@, hunk)]]
  BY <1>3
<1> QED
  BY <1>2, <1>4 DEF InHunk, Between

Opened(s, hunk) == [s EXCEPT !.open = TRUE, !.hunk = hunk]

LEMMA HunkOpens ==
  ASSUME NEW files, NEW hunk, NEW new, NEW s, s = Between(files, hunk)
  PROVE  Opened(s, new) = InHunk(files, new)
<1>1. PICK yes : yes = TRUE
  OBVIOUS
<1>2. PICK no : no = FALSE
  OBVIOUS
<1> DEFINE t == [s EXCEPT !.open = yes, !.hunk = new]
           names == {"files", "open", "hunk", "ok"}
<1>3. s = [files |-> files, open |-> no, hunk |-> hunk, ok |-> yes]
  BY <1>1, <1>2 DEF Between
<1>4. DOMAIN t = names
  BY <1>3
<1>5. t.files = files /\ t.open = yes /\ t.hunk = new /\ t.ok = yes
  BY <1>3
<1>6. t = [i \in names |-> t[i]]
  BY <1>4
<1>7. t = [files |-> t.files, open |-> t.open, hunk |-> t.hunk, ok |-> t.ok]
  <2> HIDE DEF t
  <2> QED
    BY <1>6
<1>8. InHunk(files, new) = [files |-> files, open |-> yes, hunk |-> new, ok |-> yes]
  BY <1>1 DEF InHunk
<1>9. t = InHunk(files, new)
  <2> HIDE DEF t
  <2> QED
    BY <1>5, <1>7, <1>8
<1> QED
  BY <1>1, <1>9 DEF Opened

\* A header begins a hunk and ends the one before it.
LEMMA HeaderReads ==
  ASSUME NEW p, NEW hunks, NEW hunk, NEW content, NEW next
  PROVE  /\ ParseLine(Between(Section(p, hunks), hunk), [tag |-> "@@", content |-> content], next)
              = InHunk(Section(p, hunks), Hunk(content, <<>>, <<>>))
         /\ ParseLine(InHunk(Section(p, hunks), hunk), [tag |-> "@@", content |-> content], next)
              = InHunk(Section(p, Append(hunks, hunk)), Hunk(content, <<>>, <<>>))
<1> DEFINE line == [tag |-> "@@", content |-> content]
           s == Between(Section(p, hunks), hunk)
           t == InHunk(Section(p, hunks), hunk)
<1>1. \A q, h : Section(q, h) # <<>>
  BY DEF Section
<1>2. s.ok /\ s.files # <<>> /\ ~ s.open /\ t.ok /\ t.files # <<>>
  BY <1>1 DEF Between, InHunk
<1>3. /\ ParseLine(s, line, next) = Opened(Flushed(s), Hunk(content, <<>>, <<>>))
      /\ ParseLine(t, line, next) = Opened(Flushed(t), Hunk(content, <<>>, <<>>))
  <2> HIDE DEF s, t
  <2> QED
    BY <1>2 DEF ParseLine, IsOld, Opened
<1>4. Flushed(s) = s
  <2> HIDE DEF s
  <2> QED
    BY <1>2 DEF Flushed
<1>5. Flushed(t) = Between(Section(p, Append(hunks, hunk)), hunk)
  BY HunkIsFlushed
<1>6. /\ ParseLine(s, line, next) = InHunk(Section(p, hunks), Hunk(content, <<>>, <<>>))
      /\ ParseLine(t, line, next)
           = InHunk(Section(p, Append(hunks, hunk)), Hunk(content, <<>>, <<>>))
  <2> HIDE DEF line, s, t
  <2>1. s = Between(Section(p, hunks), hunk)
    BY DEF s
  <2> DEFINE u == Flushed(t)
  <2>2. u = Between(Section(p, Append(hunks, hunk)), hunk)
    BY <1>5
  <2>3. ParseLine(t, line, next) = Opened(u, Hunk(content, <<>>, <<>>))
    BY <1>3
  <2> HIDE DEF u
  <2>4. Opened(s, Hunk(content, <<>>, <<>>))
          = InHunk(Section(p, hunks), Hunk(content, <<>>, <<>>))
    BY <2>1, HunkOpens, Zenon
  <2>5. Opened(u, Hunk(content, <<>>, <<>>))
          = InHunk(Section(p, Append(hunks, hunk)), Hunk(content, <<>>, <<>>))
    BY <2>2, HunkOpens, Zenon
  <2> QED
    BY <1>3, <1>4, <2>3, <2>4, <2>5, Zenon
<1> QED
  BY <1>6

LEMMA FirstHeaderReads ==
  ASSUME NEW p, NEW hunks, NEW hunk, NEW content, NEW next
  PROVE  ParseLine(Between(Section(p, hunks), hunk), [tag |-> "@@", content |-> content], next)
           = InHunk(Section(p, hunks), Hunk(content, <<>>, <<>>))
<1>1. /\ ParseLine(Between(Section(p, hunks), hunk), [tag |-> "@@", content |-> content], next)
           = InHunk(Section(p, hunks), Hunk(content, <<>>, <<>>))
      /\ ParseLine(InHunk(Section(p, hunks), hunk), [tag |-> "@@", content |-> content], next)
           = InHunk(Section(p, Append(hunks, hunk)), Hunk(content, <<>>, <<>>))
  BY HeaderReads
<1> QED
  BY <1>1

\* The two lines that name a file.
LEMMA FileReads ==
  ASSUME NEW p, NEW next
  PROVE  /\ ParseLine(Unread, [tag |-> "---", content |-> p], [tag |-> "+++", content |-> p])
              = Between(Section(p, <<>>), Hunk(0, <<>>, <<>>))
         /\ ParseLine(Between(Section(p, <<>>), Hunk(0, <<>>, <<>>)), [tag |-> "+++", content |-> p], next)
              = Between(Section(p, <<>>), Hunk(0, <<>>, <<>>))
<1>1. Append(<<>>, FilePatch(p, p, <<>>)) = Section(p, <<>>)
  BY DEF Section
<1>2. Flushed(Unread) = Unread
  BY DEF Flushed, Unread
<1>3. ParseLine(Unread, [tag |-> "---", content |-> p], [tag |-> "+++", content |-> p]) =
        [Unread EXCEPT !.files = Append(@, FilePatch(p, p, <<>>))]
  <2>1. Unread.ok
    BY DEF Unread
  <2> QED
    BY <1>2, <2>1 DEF ParseLine, IsOld, IsNew, PathOf
<1>4. ParseLine(Between(Section(p, <<>>), Hunk(0, <<>>, <<>>)), [tag |-> "+++", content |-> p], next)
        = Between(Section(p, <<>>), Hunk(0, <<>>, <<>>))
  BY DEF ParseLine, IsOld, Between
<1> QED
  BY <1>1, <1>3, <1>4 DEF Between, Unread

LEMMA FirstOfParts ==
  ASSUME NEW s, IsPart(s), NEW t, IsPart(t), Len(s) > 0
  PROVE  IsPart(s \o t) /\ Len(s \o t) \in Nat \ {0} /\ Len(s \o t) > 0 /\ (s \o t)[1] = s[1]
<1> DEFINE a == Len(s)
           b == Len(t)
<1>1. /\ IsPart(s \o t) /\ Len(s \o t) = a + b
      /\ \A i \in 1 .. (a + b) : (s \o t)[i] = IF i <= a THEN s[i] ELSE t[i - a]
  BY ConcatProperties DEF IsPart
<1>2. a \in Nat /\ b \in Nat /\ a > 0
  BY LenProperties DEF IsPart
<1> HIDE DEF a, b
<1>3. a + b \in Nat \ {0} /\ 1 \in 1 .. (a + b) /\ 1 <= a /\ a + b > 0
  BY <1>2
<1> QED
  BY <1>1, <1>3

LEMMA PartsOfPatch ==
  ASSUME NEW p \in Paths, NEW text, IsText(text), NEW e, IsEdit(text, e)
  PROVE  /\ IsPart(FileLines(p, p)) /\ Len(FileLines(p, p)) = 2
         /\ FileLines(p, p)[1] = [tag |-> "---", content |-> p]
         /\ FileLines(p, p)[2] = [tag |-> "+++", content |-> p]
         /\ IsPart(HunkLines(text, e)) /\ Len(HunkLines(text, e)) \in Nat \ {0}
         /\ HunkLines(text, e)[1] = [tag |-> "@@", content |-> FirstLine(e)]
<1>1. /\ IsPart(FileLines(p, p)) /\ Len(FileLines(p, p)) = 2
      /\ FileLines(p, p)[1] = [tag |-> "---", content |-> p]
      /\ FileLines(p, p)[2] = [tag |-> "+++", content |-> p]
  <2>1. p \in Lines \cup Paths \cup Nat
    OBVIOUS
  <2>2. [tag |-> "---", content |-> p] \in Records /\ [tag |-> "+++", content |-> p] \in Records
    BY <2>1 DEF Records
  <2> QED
    BY <2>2 DEF IsPart, FileLines
<1> DEFINE h == HunkHead(e)
           A == Tagged(" ", Context(text, e.at))
           B == Tagged("-", Replaced(text, e))
           C == Tagged("+", e.by)
           D == Tagged(" ", Context(text, e.at + e.was + 1))
           u == h \o A
           v == u \o B
           w == v \o C
           x == w \o D
<1>2. IsPart(h) /\ Len(h) = 1 /\ h[1] = [tag |-> "@@", content |-> FirstLine(e)]
  <2>1. FirstLine(e) \in Lines \cup Paths \cup Nat
    BY HunkTexts
  <2>2. [tag |-> "@@", content |-> FirstLine(e)] \in Records
    BY <2>1 DEF Records
  <2> QED
    BY <2>2 DEF IsPart, HunkHead
<1>3. IsPart(A) /\ IsPart(B) /\ IsPart(C) /\ IsPart(D)
  BY HunkTexts, TaggedPart, Tags
<1>4. HunkLines(text, e) = x
  BY DEF HunkLines, Context, Replaced, HunkHead, FirstLine
<1> HIDE DEF h, A, B, C, D
<1>5. IsPart(u) /\ Len(u) > 0 /\ u[1] = h[1]
  BY <1>2, <1>3, FirstOfParts
<1> HIDE DEF u
<1>6. IsPart(v) /\ Len(v) > 0 /\ v[1] = u[1]
  BY <1>3, <1>5, FirstOfParts
<1> HIDE DEF v
<1>7. IsPart(w) /\ Len(w) > 0 /\ w[1] = v[1]
  BY <1>3, <1>6, FirstOfParts
<1> HIDE DEF w
<1>8. IsPart(x) /\ Len(x) \in Nat \ {0} /\ x[1] = w[1]
  BY <1>3, <1>7, FirstOfParts
<1> QED
  BY <1>1, <1>2, <1>4, <1>5, <1>6, <1>7, <1>8

\* One line more.
LEMMA LineIsRead ==
  ASSUME NEW diff, IsDiff(diff), NEW r, IsReading(r, diff), NEW k \in Nat, k + 1 <= Len(diff)
  PROVE  r[k + 1] = ParseLine(r[k], diff[k + 1], Following(diff, k + 1))
<1> DEFINE i == k + 1
           n == Len(diff)
<1>1. n \in Nat
  BY DEF IsDiff
<1>2. i <= n
  OBVIOUS
<1> HIDE DEF n
<1>3. i \in 0 .. n /\ i # 0 /\ i - 1 = k
  BY <1>1, <1>2
<1> HIDE DEF i
<1>4. r[i] = ParseLine(r[i - 1], diff[i], Following(diff, i))
  BY <1>3 DEF IsReading, n
<1> QED
  BY <1>3, <1>4 DEF i

\* The hunk being read after the first k lines.
IsOpen(r, k, files, hunk) == r[k] = InHunk(files, hunk)

\* A hunk after the lines that name the file, and one after another hunk.
LEMMA NextHunkReads ==
  ASSUME NEW text, IsText(text), NEW e, IsEdit(text, e), NEW p \in Paths,
         NEW diff, IsDiff(diff), NEW r, IsReading(r, diff), NEW k, Placed(diff, k, HunkLines(text, e)),
         NEW hunks, NEW hunk
  PROVE  /\ r[k] = Between(Section(p, hunks), hunk) =>
              IsOpen(r, End(k, HunkLines(text, e)), Section(p, hunks), HunkOf(text, e))
         /\ IsOpen(r, k, Section(p, hunks), hunk) =>
              IsOpen(r, End(k, HunkLines(text, e)), Section(p, Append(hunks, hunk)), HunkOf(text, e))
<1> DEFINE lines == HunkLines(text, e)
           m == Len(lines)
           n == Len(diff)
<1>1. m \in Nat \ {0} /\ lines[1] = [tag |-> "@@", content |-> FirstLine(e)]
  BY PartsOfPatch
<1> HIDE DEF lines, m, n
<1>2. k \in Nat /\ k + m <= n /\ \A i \in 1 .. m : diff[k + i] = lines[i]
  BY DEF Placed, lines, m, n
<1>3. 1 \in 1 .. m /\ k + 1 <= n
  <2>1. n \in Nat
    BY DEF IsDiff, n
  <2> QED
    BY <1>1, <1>2, <2>1
<1>4. diff[k + 1] = [tag |-> "@@", content |-> FirstLine(e)]
  BY <1>1, <1>2, <1>3
<1>5. r[k + 1] = ParseLine(r[k], diff[k + 1], Following(diff, k + 1))
  BY <1>2, <1>3, LineIsRead DEF n
<1>6. ASSUME r[k] = Between(Section(p, hunks), hunk)
      PROVE  IsOpen(r, End(k, HunkLines(text, e)), Section(p, hunks), HunkOf(text, e))
  <2>2. ParseLine(Between(Section(p, hunks), hunk), [tag |-> "@@", content |-> FirstLine(e)],
                  Following(diff, k + 1)) = InHunk(Section(p, hunks), Hunk(FirstLine(e), <<>>, <<>>))
    BY FirstHeaderReads
  <2>1. Reads(r, k + 1, Section(p, hunks), FirstLine(e), <<>>, <<>>)
    BY <1>4, <1>5, <1>6, <2>2 DEF Reads
  <2> QED
    BY <2>1, HunkReads DEF IsOpen
<1>7. ASSUME IsOpen(r, k, Section(p, hunks), hunk)
      PROVE  IsOpen(r, End(k, HunkLines(text, e)), Section(p, Append(hunks, hunk)), HunkOf(text, e))
  <2>1. Reads(r, k + 1, Section(p, Append(hunks, hunk)), FirstLine(e), <<>>, <<>>)
    BY <1>4, <1>5, <1>7, HeaderReads DEF Reads, IsOpen
  <2> QED
    BY <2>1, HunkReads DEF IsOpen
<1> QED
  BY <1>6, <1>7

LEMMA FileIsRead ==
  ASSUME NEW p \in Paths, NEW diff, IsDiff(diff), NEW r, IsReading(r, diff),
         Placed(diff, 0, FileLines(p, p)), NEW text, IsText(text), NEW e, IsEdit(text, e)
  PROVE  r[2] = Between(Section(p, <<>>), Hunk(0, <<>>, <<>>))
<1> DEFINE lines == FileLines(p, p)
<1>1. Len(lines) = 2 /\ lines[1] = [tag |-> "---", content |-> p] /\ lines[2] = [tag |-> "+++", content |-> p]
  BY PartsOfPatch
<1> HIDE DEF lines
<1>2. 0 + 2 <= Len(diff) /\ \A i \in 1 .. 2 : diff[0 + i] = lines[i]
  BY <1>1 DEF Placed, lines
<1>3. diff[1] = lines[1] /\ diff[2] = lines[2]
  <2>1. 1 \in 1 .. 2 /\ 2 \in 1 .. 2 /\ 0 + 1 = 1 /\ 0 + 2 = 2
    OBVIOUS
  <2> QED
    BY <1>2, <2>1
<1>4. 0 + 1 = 1 /\ 1 + 1 = 2 /\ 0 + 1 <= Len(diff) /\ 1 + 1 <= Len(diff) /\ 1 < Len(diff)
  BY <1>2 DEF IsDiff
<1>5. r[0] = Unread
  BY DEF IsReading, IsDiff
<1>6. r[1] = ParseLine(r[0], diff[1], Following(diff, 1))
  <2>1. r[0 + 1] = ParseLine(r[0], diff[0 + 1], Following(diff, 0 + 1))
    BY <1>4, LineIsRead
  <2> QED
    BY <1>4, <2>1
<1>7. r[2] = ParseLine(r[1], diff[2], Following(diff, 2))
  <2>1. r[1 + 1] = ParseLine(r[1], diff[1 + 1], Following(diff, 1 + 1))
    BY <1>4, LineIsRead
  <2> QED
    BY <1>4, <2>1
<1>8. Following(diff, 1) = diff[2]
  BY <1>4 DEF Following
<1>9. r[1] = Between(Section(p, <<>>), Hunk(0, <<>>, <<>>))
  BY <1>1, <1>3, <1>5, <1>6, <1>8, FileReads
<1> QED
  BY <1>1, <1>3, <1>7, <1>9, FileReads

LEMMA EndIsRead ==
  ASSUME NEW p, NEW diff, NEW hunks, NEW hunk,
         IsOpen(Reading(diff), Len(diff), Section(p, hunks), hunk)
  PROVE  Parse(diff) = [files |-> Section(p, Append(hunks, hunk)), ok |-> TRUE]
<1> DEFINE last == Flushed(Reading(diff)[Len(diff)])
<1>1. last = Between(Section(p, Append(hunks, hunk)), hunk)
  BY HunkIsFlushed DEF IsOpen
<1>2. \A q, h : Section(q, h) # <<>>
  BY DEF Section
<1> HIDE DEF last
<1>3. last.files = Section(p, Append(hunks, hunk)) /\ last.ok
  BY <1>1 DEF Between
<1>4. Parse(diff) = [files |-> last.files, ok |-> last.ok /\ last.files # <<>>]
  BY DEF Parse, last
<1>5. (last.ok /\ last.files # <<>>) = TRUE
  BY <1>2, <1>3
<1> QED
  BY <1>3, <1>4, <1>5

PatchOf(p, text, e) == FileLines(p, p) \o HunkLines(text, e)
PatchOfTwo(p, text, d, e) == PatchOf(p, text, d) \o HunkLines(text, e)

LEMMA WholePlaced ==
  ASSUME NEW diff, IsPart(diff), IsPlain(diff)
  PROVE  IsDiff(diff) /\ Placed(diff, 0, diff) /\ End(0, diff) = Len(diff)
<1> DEFINE n == Len(diff)
<1>1. n \in Nat
  BY LenProperties DEF IsPart
<1> HIDE DEF n
<1>2. 0 + n <= n /\ 0 + n = n /\ 0 \in Nat /\ \A i \in 1 .. n : 0 + i = i
  BY <1>1
<1>3. \A i \in 1 .. n : diff[0 + i] = diff[i]
  BY <1>2
<1> QED
  BY <1>1, <1>2, <1>3 DEF IsDiff, Placed, End, n

\* A diff that names its file first.
Begins(diff) == IsPart(diff) /\ Len(diff) > 0 /\ diff[1].tag = "---"

LEMMA BeginningGrows ==
  ASSUME NEW S, NEW s \in Seq(S), NEW i \in Nat, i + 1 <= Len(s)
  PROVE  Append(SubSeq(s, 1, i), s[i + 1]) = SubSeq(s, 1, i + 1)
<1> DEFINE j == i + 1
           p == SubSeq(s, 1, i)
           q == SubSeq(s, 1, j)
           a == Append(p, s[j])
<1>1. j \in Nat /\ j <= Len(s) /\ i <= Len(s) /\ s[j] \in S
  <2>1. Len(s) \in Nat
    BY LenProperties
  <2>2. j \in 1 .. Len(s)
    BY <2>1
  <2>3. s[j] \in S
    <3> HIDE DEF j
    <3> QED
      BY <2>2, ElementOfSeq
  <2> QED
    BY <2>1, <2>2, <2>3
<1>2. \A m \in Nat : m <= Len(s) =>
        /\ SubSeq(s, 1, m) \in Seq(S) /\ Len(SubSeq(s, 1, m)) = m
        /\ \A h \in 1 .. m : SubSeq(s, 1, m)[h] = s[h]
  <2> SUFFICES ASSUME NEW m \in Nat, m <= Len(s)
               PROVE  /\ SubSeq(s, 1, m) \in Seq(S) /\ Len(SubSeq(s, 1, m)) = m
                      /\ \A h \in 1 .. m : SubSeq(s, 1, m)[h] = s[h]
    OBVIOUS
  <2>1. 0 + m <= Len(s) /\ 0 + 1 = 1 /\ \A h \in 0 .. m : 0 + h = h
    OBVIOUS
  <2>2. /\ SubSeq(s, 0 + 1, 0 + m) \in Seq(S) /\ Len(SubSeq(s, 0 + 1, 0 + m)) = m
        /\ \A h \in 1 .. m : SubSeq(s, 0 + 1, 0 + m)[h] = s[0 + h]
    BY <2>1, StretchIs
  <2> QED
    BY <2>1, <2>2
<1>3. p \in Seq(S) /\ Len(p) = i /\ \A h \in 1 .. i : p[h] = s[h]
  BY <1>1, <1>2
<1>4. q \in Seq(S) /\ Len(q) = j /\ \A h \in 1 .. j : q[h] = s[h]
  <2> HIDE DEF j
  <2> QED
    BY <1>1, <1>2
<1> HIDE DEF p, q
<1>5. a \in Seq(S) /\ Len(a) = i + 1 /\ a[i + 1] = s[j] /\ \A h \in 1 .. i : a[h] = p[h]
  BY <1>1, <1>3, AppendProperties
<1> HIDE DEF a
<1>6. \A h \in 1 .. j : a[h] = q[h]
  BY <1>3, <1>4, <1>5
<1>7. a = q
  BY <1>4, <1>5, <1>6, SeqEqual
<1> QED
  BY <1>7 DEF a, p, q

\* A diff without the lines that git puts before the names is kept as it is.
LEMMA KeptIs ==
  ASSUME NEW diff, IsPart(diff)
  PROVE  Kept(diff) = diff
<1> DEFINE n == Len(diff)
           next(u, i) == IF diff[i].tag = "preamble" THEN u ELSE Append(u, diff[i])
           g(f) == [i \in 0 .. n |-> IF i = 0 THEN <<>> ELSE next(f[i - 1], i)]
           b == [i \in 0 .. n |-> SubSeq(diff, 1, i)]
<1>1. n \in Nat /\ \A i \in 1 .. n : diff[i].tag # "preamble"
  <2>1. n \in Nat
    BY LenProperties DEF IsPart
  <2>2. \A i \in 1 .. n : diff[i] \in Records
    <3>1. diff \in Seq(Records)
      BY DEF IsPart
    <3> QED
      BY <2>1, <3>1, ElementOfSeq
  <2>3. ASSUME NEW x \in Records PROVE x.tag # "preamble"
    <3> DEFINE tags == {"---", "+++", "@@", " ", "-", "+"}
    <3>1. "preamble" \notin tags
      BY Zenon
    <3>2. Records = [tag : tags, content : Lines \cup Paths \cup Nat]
      BY Zenon DEF Records
    <3> HIDE DEF tags
    <3>3. x.tag \in tags
      BY <3>2
    <3> QED
      BY <3>1, <3>3
  <2> QED
    BY <2>1, <2>2, <2>3
<1>2. SubSeq(diff, 1, 0) = <<>> /\ SubSeq(diff, 1, n) = diff
  BY SubSeqEmpty, SubSeqFull DEF IsPart
<1>3. ASSUME NEW i \in 1 .. n PROVE next(SubSeq(diff, 1, i - 1), i) = SubSeq(diff, 1, i)
  <2> DEFINE h == i - 1
  <2>1. h \in Nat /\ h + 1 = i /\ h + 1 <= n
    BY <1>1
  <2> HIDE DEF h
  <2>2. Append(SubSeq(diff, 1, h), diff[h + 1]) = SubSeq(diff, 1, h + 1)
    BY <2>1, BeginningGrows DEF IsPart
  <2>3. diff[i].tag # "preamble"
    BY <1>1
  <2> QED
    BY <2>1, <2>2, <2>3 DEF h
<1> HIDE DEF n, next
<1>4. b = g(b)
  <2> SUFFICES ASSUME NEW i \in 0 .. n PROVE b[i] = g(b)[i]
    OBVIOUS
  <2>1. CASE i = 0
    BY <1>2, <2>1
  <2>2. CASE i # 0
    <3>1. i \in 1 .. n /\ i - 1 \in 0 .. n
      BY <1>1, <2>2
    <3>2. b[i - 1] = SubSeq(diff, 1, i - 1) /\ b[i] = SubSeq(diff, 1, i)
      BY <3>1
    <3>3. g(b)[i] = next(b[i - 1], i)
      BY <2>2
    <3> QED
      BY <1>3, <3>1, <3>2, <3>3
  <2> QED
    BY <2>1, <2>2
<1>5. PICK f : f = g(f) /\ Kept(diff) = f[n]
  <2>1. \E f : f = g(f)
    <3> HIDE DEF b
    <3> QED
      BY <1>4
  <2> QED
    BY <2>1 DEF Kept, n, next
<1>6. \A i \in 0 .. n : f[i] = IF i = 0 THEN <<>> ELSE next(f[i - 1], i)
  BY <1>5
<1> DEFINE T == {i \in 0 .. n : f[i] # SubSeq(diff, 1, i)}
<1>7. T = {}
  <2> SUFFICES ASSUME T # {} PROVE FALSE
    OBVIOUS
  <2>1. T \in SUBSET Nat
    BY <1>1
  <2>2. PICK i \in T : \A j \in T : i <= j
    BY <2>1, LeastNatural
  <2>3. i \in 0 .. n /\ f[i] # SubSeq(diff, 1, i) /\ i # 0
    BY <1>2, <1>6, <2>2
  <2>4. i \in 1 .. n /\ i - 1 \in 0 .. n /\ ~ (i <= i - 1)
    BY <1>1, <2>3
  <2>5. f[i - 1] = SubSeq(diff, 1, i - 1)
    BY <2>2, <2>4
  <2> QED
    BY <1>3, <1>6, <2>3, <2>4, <2>5
<1>8. n \in 0 .. n
  BY <1>1
<1>9. f[n] = SubSeq(diff, 1, n)
  BY <1>7, <1>8
<1> QED
  BY <1>2, <1>5, <1>9

LEMMA LeastIs ==
  ASSUME NEW S \in SUBSET Nat, NEW n \in S
  PROVE  /\ (\A i \in S : n <= i) => Min(S) = n
         /\ (\A i \in S : i <= n) => Max(S) = n
<1>1. ASSUME \A i \in S : n <= i PROVE Min(S) = n
  <2>1. \A m \in S : (\A i \in S : m <= i) => m = n
    BY <1>1
  <2>2. \E m \in S : \A i \in S : m <= i
    BY <1>1
  <2> QED
    BY <2>1, <2>2 DEF Min
<1>2. ASSUME \A i \in S : i <= n PROVE Max(S) = n
  <2>1. \A m \in S : (\A i \in S : m >= i) => m = n
    BY <1>2
  <2>2. \E m \in S : \A i \in S : m >= i
    BY <1>2
  <2> QED
    BY <2>1, <2>2 DEF Max
<1> QED
  BY <1>1, <1>2

\* There is nothing to strip of a diff that begins with the name of its file and ends with
\* a line as it was printed.
LEMMA StrippedIs ==
  ASSUME NEW diff, Begins(diff), AsPrinted(diff)
  PROVE  Stripped(diff) = diff
<1> DEFINE n == Len(diff)
           solid == {i \in DOMAIN diff : ~ IsBlank(diff[i])}
<1>1. n \in Nat /\ n > 0 /\ DOMAIN diff = 1 .. n
  BY LenProperties DEF Begins, IsPart
<1>2. ~ IsBlank(diff[1]) /\ ~ IsBlank(diff[n]) /\ Trimmed(diff[n]) = diff[n]
  BY DEF Begins, AsPrinted, IsBlank
<1> HIDE DEF n
<1>3. solid \in SUBSET Nat /\ 1 \in solid /\ n \in solid /\ \A i \in solid : 1 <= i /\ i <= n
  BY <1>1, <1>2
<1> HIDE DEF solid
<1>4. Min(solid) = 1 /\ Max(solid) = n /\ solid # {}
  BY <1>3, LeastIs
<1>5. Stripped(diff) = SubSeq([diff EXCEPT ![n] = Trimmed(@)], 1, n)
  BY <1>4 DEF Stripped, solid
<1>6. [diff EXCEPT ![n] = Trimmed(@)] = diff
  <2>1. diff = [i \in 1 .. n |-> diff[i]]
    BY <1>1 DEF Begins, IsPart
  <2>2. [diff EXCEPT ![n] = Trimmed(@)] = [diff EXCEPT ![n] = diff[n]]
    BY <1>2
  <2>3. [diff EXCEPT ![n] = diff[n]] = [i \in 1 .. n |-> diff[i]]
    BY <1>1
  <2> QED
    BY <2>1, <2>2, <2>3
<1>7. SubSeq(diff, 1, n) = diff
  BY SubSeqFull DEF Begins, IsPart, n
<1> QED
  BY <1>5, <1>6, <1>7

\* Such a diff goes to the parser as it is.
LEMMA NormalIs ==
  ASSUME NEW diff, Begins(diff), AsPrinted(diff)
  PROVE  Normal(diff) = diff
<1>1. Stripped(diff) = diff
  BY StrippedIs
<1>2. Unfenced(diff) = diff
  <2>1. diff[1].tag # "fence"
    BY Zenon DEF Begins
  <2> QED
    BY <2>1, Zenon DEF Unfenced
<1>3. Kept(diff) = diff
  BY KeptIs DEF Begins
<1> QED
  BY <1>1, <1>2, <1>3 DEF Normal

LEMMA PlainIs ==
  ASSUME NEW diff, IsPart(diff), AsPrinted(diff)
  PROVE  IsPlain(diff)
<1>1. DOMAIN diff = 1 .. Len(diff)
  BY LenProperties DEF IsPart
<1> QED
  BY <1>1 DEF IsPlain, AsPrinted

\* The diff of an edit is read as its hunk.
LEMMA PatchParses ==
  ASSUME NEW p \in Paths, NEW text, IsText(text), NEW e, IsEdit(text, e),
         IsPlain(PatchOf(p, text, e))
  PROVE  Parse(PatchOf(p, text, e)) = [files |-> Section(p, <<HunkOf(text, e)>>), ok |-> TRUE]
<1> DEFINE a == FileLines(p, p)
           b == HunkLines(text, e)
           diff == PatchOf(p, text, e)
           r == Reading(diff)
<1>1. IsPart(a) /\ Len(a) = 2 /\ IsPart(b)
  BY PartsOfPatch
<1>2. diff = a \o b
  BY DEF PatchOf
<1> HIDE DEF a, b, diff
<1>3. IsPart(diff)
  BY <1>1, <1>2, PartsJoin
<1>4. IsDiff(diff) /\ Placed(diff, 0, a \o b) /\ End(0, diff) = Len(diff)
  <2>1. IsPlain(diff)
    BY DEF diff
  <2> QED
    BY <1>2, <1>3, <2>1, WholePlaced
<1>5. Placed(diff, 0, a) /\ Placed(diff, End(0, a), b) /\ End(0, diff) = End(End(0, a), b)
  BY <1>1, <1>2, <1>4, PartsFollow
<1>6. End(0, a) = 2
  BY <1>1 DEF End
<1>7. IsReading(r, diff)
  BY <1>4, ReadingIs DEF IsDiff
<1> HIDE DEF r
<1>8. r[2] = Between(Section(p, <<>>), Hunk(0, <<>>, <<>>))
  BY <1>4, <1>5, <1>7, FileIsRead DEF a
<1>9. IsOpen(r, Len(diff), Section(p, <<>>), HunkOf(text, e))
  <2>1. IsOpen(r, End(2, b), Section(p, <<>>), HunkOf(text, e))
    BY <1>4, <1>5, <1>6, <1>7, <1>8, NextHunkReads DEF b
  <2> QED
    BY <1>4, <1>5, <1>6, <2>1
<1>10. Append(<<>>, HunkOf(text, e)) = <<HunkOf(text, e)>>
  OBVIOUS
<1>11. Parse(diff) = [files |-> Section(p, Append(<<>>, HunkOf(text, e))), ok |-> TRUE]
  BY <1>9, EndIsRead DEF r
<1> QED
  BY <1>10, <1>11 DEF diff

\* And that of two edits as the two.
LEMMA PatchOfTwoParses ==
  ASSUME NEW p \in Paths, NEW text, IsText(text), NEW d, IsEdit(text, d), NEW e, IsEdit(text, e),
         IsPlain(PatchOfTwo(p, text, d, e))
  PROVE  Parse(PatchOfTwo(p, text, d, e)) =
           [files |-> Section(p, Append(<<HunkOf(text, d)>>, HunkOf(text, e))), ok |-> TRUE]
<1> DEFINE a == FileLines(p, p)
           b == HunkLines(text, d)
           c == HunkLines(text, e)
           front == a \o b
           diff == PatchOfTwo(p, text, d, e)
           r == Reading(diff)
<1>1. IsPart(a) /\ Len(a) = 2 /\ IsPart(b) /\ IsPart(c)
  BY PartsOfPatch
<1>2. diff = front \o c
  BY DEF PatchOfTwo, PatchOf
<1> HIDE DEF a, b, c, diff
<1>3. IsPart(front)
  BY <1>1, PartsJoin
<1>4. IsPart(diff)
  BY <1>1, <1>2, <1>3, PartsJoin
<1>5. IsDiff(diff) /\ Placed(diff, 0, front \o c) /\ End(0, diff) = Len(diff)
  <2>1. IsPlain(diff)
    BY DEF diff
  <2> QED
    BY <1>2, <1>4, <2>1, WholePlaced
<1>6. Placed(diff, 0, front) /\ Placed(diff, End(0, front), c) /\ End(0, diff) = End(End(0, front), c)
  <2> HIDE DEF front
  <2> QED
    BY <1>1, <1>2, <1>3, <1>5, PartsFollow
<1>7. Placed(diff, 0, a) /\ Placed(diff, End(0, a), b) /\ End(0, front) = End(End(0, a), b)
  BY <1>1, <1>5, <1>6, PartsFollow
<1>8. End(0, a) = 2
  BY <1>1 DEF End
<1>9. IsReading(r, diff)
  BY <1>5, ReadingIs DEF IsDiff
<1> HIDE DEF r
<1>10. r[2] = Between(Section(p, <<>>), Hunk(0, <<>>, <<>>))
  BY <1>5, <1>7, <1>9, FileIsRead DEF a
<1>11. IsOpen(r, End(2, b), Section(p, <<>>), HunkOf(text, d))
  BY <1>5, <1>7, <1>8, <1>9, <1>10, NextHunkReads DEF b
<1> DEFINE k == End(2, b)
<1> HIDE DEF k
<1>12. k = End(0, front)
  BY <1>7, <1>8 DEF k
<1>13. IsOpen(r, End(k, c), Section(p, Append(<<>>, HunkOf(text, d))), HunkOf(text, e))
  <2>1. IsOpen(r, k, Section(p, <<>>), HunkOf(text, d)) /\ Placed(diff, k, c)
    BY <1>6, <1>11, <1>12 DEF k
  <2> QED
    BY <1>5, <1>9, <2>1, NextHunkReads DEF c
<1>14. IsOpen(r, Len(diff), Section(p, Append(<<>>, HunkOf(text, d))), HunkOf(text, e))
  BY <1>5, <1>6, <1>12, <1>13
<1>15. Append(<<>>, HunkOf(text, d)) = <<HunkOf(text, d)>>
  OBVIOUS
<1>16. Parse(diff) =
         [files |-> Section(p, Append(Append(<<>>, HunkOf(text, d)), HunkOf(text, e))), ok |-> TRUE]
  BY <1>14, EndIsRead DEF r
<1> QED
  BY <1>15, <1>16 DEF diff

\* The hunk of an edit, applied to the text it was made for.
LEMMA EditFits ==
  ASSUME NEW text, IsText(text), Len(text) # 0, NEW e, IsEdit(text, e)
  PROVE  \E shift : ApplyHunk(State(text, 0), HunkOf(text, e)) = State(Spliced(text, e.at, e.was, e.by), shift)
<1>1. e.at + 0 = e.at
  BY EditIs DEF IsText
<1>2. e.at - Before(e) \in Nat /\ Awaits(text, e, text, 0, e.at - Before(e))
  BY FirstAwaits
<1>3. ApplyHunk(State(text, 0), HunkOf(text, e)) =
        State(Spliced(text, e.at + 0, e.was, e.by), 0 + Len(e.by) - e.was)
  BY <1>2, HunkFits
<1> QED
  BY <1>1, <1>3

\* The hunks of two edits apart from each other: the first may move the lines of the
\* second, and the code counts by how much.
LEMMA EditAfterFits ==
  ASSUME NEW text, IsText(text), Len(text) # 0, NEW d, IsEdit(text, d), NEW e, IsEdit(text, e),
         Apart(d, e)
  PROVE  /\ ApplyHunk(State(text, 0), HunkOf(text, d)) =
              State(Spliced(text, d.at, d.was, d.by), Len(d.by) - d.was)
         /\ \E shift :
              ApplyHunk(State(Spliced(text, d.at, d.was, d.by), Len(d.by) - d.was), HunkOf(text, e)) =
                State(Spliced(Spliced(text, e.at, e.was, e.by), d.at, d.was, d.by), shift)
<1> DEFINE now == Spliced(text, d.at, d.was, d.by)
           shift == Len(d.by) - d.was
           p == e.at - 1 + shift
<1>1. /\ d.at \in Nat /\ d.was \in Nat /\ IsText(d.by) /\ Len(d.by) \in Nat /\ Len(text) \in Nat
      /\ d.at + d.was <= Len(text)
      /\ e.at \in Nat /\ e.was \in Nat /\ IsText(e.by) /\ e.at + e.was <= Len(text)
  BY EditIs DEF IsText
<1>2. ApplyHunk(State(text, 0), HunkOf(text, d)) = State(now, shift)
  <2>1. d.at + 0 = d.at /\ 0 + Len(d.by) - d.was = shift
    BY <1>1
  <2>2. d.at - Before(d) \in Nat /\ Awaits(text, d, text, 0, d.at - Before(d))
    BY FirstAwaits
  <2>3. ApplyHunk(State(text, 0), HunkOf(text, d)) =
          State(Spliced(text, d.at + 0, d.was, d.by), 0 + Len(d.by) - d.was)
    BY <2>2, HunkFits
  <2> QED
    BY <2>1, <2>3
<1>3. shift \in Int /\ p \in Nat /\ Awaits(text, e, now, shift, p)
  BY SecondAwaits
<1>4. IsText(now)
  BY <1>1, SplicedText DEF IsSpliced
<1> HIDE DEF now, p
<1>5. ApplyHunk(State(now, shift), HunkOf(text, e)) =
        State(Spliced(now, e.at + shift, e.was, e.by), shift + Len(e.by) - e.was)
  <2> HIDE DEF shift
  <2> QED
    BY <1>3, <1>4, HunkFits
<1>6. Spliced(now, e.at + shift, e.was, e.by) =
        Spliced(Spliced(text, e.at, e.was, e.by), d.at, d.was, d.by)
  <2>1. d.at + d.was <= e.at
    BY <1>1 DEF Apart
  <2> QED
    <3>1. Separate(text, d.at, d.was, e.at, e.was) /\ IsText(d.by) /\ IsText(e.by)
      BY <1>1, <2>1 DEF Separate
    <3> DEFINE r == e.at + shift
    <3>3. MovesBy(r, e.at, d.by, d.was)
      BY DEF MovesBy
    <3> HIDE DEF r
    <3>2. Spliced(Spliced(text, d.at, d.was, d.by), r, e.was, e.by) =
            Spliced(Spliced(text, e.at, e.was, e.by), d.at, d.was, d.by)
      BY <3>1, <3>3, SplicesCommute
    <3> QED
      BY <3>2 DEF now, r
<1> QED
  BY <1>2, <1>5, <1>6 DEF now

LEMMA HunkApplies ==
  ASSUME NEW text, IsText(text), Len(text) # 0, NEW e, IsEdit(text, e)
  PROVE  \E shift : ApplyHunks(text, <<HunkOf(text, e)>>) =
                      State(Spliced(text, e.at, e.was, e.by), shift)
<1> DEFINE hunks == <<HunkOf(text, e)>>
<1>1. Len(hunks) = 1 /\ hunks[1] = HunkOf(text, e)
  OBVIOUS
<1> HIDE DEF hunks
<1>2. PICK f : IsApplied(f, text, hunks) /\ ApplyHunks(text, hunks) = f[Len(hunks)]
  <2>1. Len(hunks) \in Nat
    BY <1>1
  <2> QED
    BY <2>1, AppliedIs
<1>3. f[1] = ApplyHunk(f[0], hunks[1]) /\ f[0] = State(text, 0)
  <2>1. 0 \in 0 .. 1 /\ 1 \in 0 .. 1 /\ 1 # 0 /\ 1 - 1 = 0
    OBVIOUS
  <2> QED
    BY <1>1, <1>2, <2>1 DEF IsApplied
<1> QED
  BY <1>1, <1>2, <1>3, EditFits DEF hunks

LEMMA PairIs ==
  ASSUME NEW x, NEW y
  PROVE  /\ Len(Append(<<x>>, y)) = 2 /\ Append(<<x>>, y)[1] = x /\ Append(<<x>>, y)[2] = y
<1> DEFINE s == <<x>>
           S == {x, y}
<1>1. s \in Seq(S) /\ y \in S /\ Len(s) = 1 /\ s[1] = x
  OBVIOUS
<1> HIDE DEF s, S
<1>2. /\ Len(Append(s, y)) = Len(s) + 1 /\ Append(s, y)[Len(s) + 1] = y
      /\ \A i \in 1 .. Len(s) : Append(s, y)[i] = s[i]
  <2>1. s \in Seq(S) /\ y \in S
    BY <1>1
  <2> QED
    BY <2>1, AppendProperties
<1>3. 1 \in 1 .. 1 /\ 1 + 1 = 2
  OBVIOUS
<1>4. Len(Append(s, y)) = 2 /\ Append(s, y)[1] = x /\ Append(s, y)[2] = y
  BY <1>1, <1>2, <1>3
<1> QED
  BY <1>4 DEF s

LEMMA TwoHunksApply ==
  ASSUME NEW text, IsText(text), Len(text) # 0, NEW d, IsEdit(text, d), NEW e, IsEdit(text, e),
         Apart(d, e)
  PROVE  \E shift : ApplyHunks(text, Append(<<HunkOf(text, d)>>, HunkOf(text, e))) =
                      State(Spliced(Spliced(text, e.at, e.was, e.by), d.at, d.was, d.by), shift)
<1> DEFINE hunks == Append(<<HunkOf(text, d)>>, HunkOf(text, e))
<1>1. Len(hunks) = 2 /\ hunks[1] = HunkOf(text, d) /\ hunks[2] = HunkOf(text, e)
  BY PairIs
<1> HIDE DEF hunks
<1>2. PICK f : IsApplied(f, text, hunks) /\ ApplyHunks(text, hunks) = f[Len(hunks)]
  <2>1. Len(hunks) \in Nat
    BY <1>1
  <2> QED
    BY <2>1, AppliedIs
<1>3. /\ f[2] = ApplyHunk(f[1], hunks[2]) /\ f[1] = ApplyHunk(f[0], hunks[1]) /\ f[0] = State(text, 0)
  <2>1. 0 \in 0 .. 2 /\ 1 \in 0 .. 2 /\ 2 \in 0 .. 2 /\ 1 # 0 /\ 2 # 0 /\ 1 - 1 = 0 /\ 2 - 1 = 1
    OBVIOUS
  <2> QED
    BY <1>1, <1>2, <2>1 DEF IsApplied
<1>4. f[2] = ApplyHunk(ApplyHunk(State(text, 0), HunkOf(text, d)), HunkOf(text, e))
  BY <1>1, <1>3
<1>5. /\ ApplyHunk(State(text, 0), HunkOf(text, d)) =
           State(Spliced(text, d.at, d.was, d.by), Len(d.by) - d.was)
      /\ \E shift :
           ApplyHunk(State(Spliced(text, d.at, d.was, d.by), Len(d.by) - d.was), HunkOf(text, e)) =
             State(Spliced(Spliced(text, e.at, e.was, e.by), d.at, d.was, d.by), shift)
  BY EditAfterFits
<1>6. ApplyHunks(text, hunks) = f[2]
  BY <1>1, <1>2
<1> QED
  BY <1>4, <1>5, <1>6 DEF hunks

-----------------------------------------------------------------------------
(* What is written to a disk *)

Done(disk) == [disk |-> disk, ok |-> TRUE]

Refused(disk) == [disk |-> disk, ok |-> FALSE]

\* What has been written after each section.
IsWriting(f, disk, files) ==
  \A i \in 0 .. Len(files) :
    f[i] = IF i = 0 THEN Done(disk) ELSE Perform(f[i - 1], Planned(disk, files[i]))

\* What the sections leave behind when they are broken off.
Breaks(f, disk, files) ==
  UNION {BrokenOff(f[i - 1], Planned(disk, files[i])) : i \in {j \in 1 .. Len(files) : f[j - 1].ok}}

LEMMA WrittenIs ==
  ASSUME NEW disk, NEW files, Len(files) \in Nat, DOMAIN files = 1 .. Len(files),
         \A i \in 1 .. Len(files) : Planned(disk, files[i]).ok
  PROVE  \E f : /\ IsWriting(f, disk, files)
                /\ ApplyFiles(disk, files) = {f[Len(files)]} \cup Breaks(f, disk, files)
<1> DEFINE plan == [i \in DOMAIN files |-> Planned(disk, files[i])]
           g(f, n) == [i \in 0 .. n |-> IF i = 0 THEN Done(disk) ELSE Perform(f[i - 1], plan[i])]
           T == {n \in Nat : ~ \E f : f = g(f, n)}
<1>0. /\ DOMAIN plan = 1 .. Len(files)
      /\ \A i \in 1 .. Len(files) : plan[i] = Planned(disk, files[i])
  OBVIOUS
<1> DEFINE all(f) == {f[Len(files)]}
                       \cup UNION {BrokenOff(f[i - 1], plan[i]) : i \in {j \in DOMAIN plan : f[j - 1].ok}}
<1>7. ApplyFiles(disk, files) =
        IF \E i \in DOMAIN plan : ~ plan[i].ok THEN {[disk |-> disk, ok |-> FALSE]}
        ELSE LET written[i \in 0 .. Len(files)] ==
                   IF i = 0 THEN Done(disk) ELSE Perform(written[i - 1], plan[i])
             IN  all(written)
  BY DEF ApplyFiles, Done
<1> HIDE DEF plan
<1>1. 0 \notin T
  <2> DEFINE f == [i \in 0 .. 0 |-> Done(disk)]
  <2>1. g(f, 0) = f
    OBVIOUS
  <2> HIDE DEF f
  <2> QED
    BY <2>1
<1>2. ASSUME NEW n \in Nat, n \notin T PROVE n + 1 \notin T
  <2> DEFINE x(f) == [i \in 0 .. (n + 1) |-> IF i = n + 1 THEN Perform(f[n], plan[n + 1]) ELSE f[i]]
  <2>1. PICK f : f = g(f, n)
    BY <1>2
  <2>2. \A i \in 0 .. n : f[i] = IF i = 0 THEN Done(disk) ELSE Perform(f[i - 1], plan[i])
    BY <2>1
  <2>3. g(x(f), n + 1) = x(f)
    <3> SUFFICES ASSUME NEW i \in 0 .. (n + 1) PROVE g(x(f), n + 1)[i] = x(f)[i]
      OBVIOUS
    <3>1. CASE i = 0
      BY <2>2, <3>1
    <3>2. CASE i \in 1 .. n
      <4>1. i - 1 \in 0 .. n /\ i \in 0 .. n /\ i # 0 /\ i # n + 1 /\ i - 1 # n + 1
        BY <3>2
      <4>2. x(f)[i] = f[i] /\ x(f)[i - 1] = f[i - 1]
        BY <4>1
      <4> QED
        BY <2>2, <4>1, <4>2
    <3>3. CASE i = n + 1
      <4>1. i - 1 = n /\ n \in 0 .. (n + 1) /\ n # n + 1 /\ i # 0
        BY <3>3
      <4>2. x(f)[n] = f[n] /\ x(f)[i] = Perform(f[n], plan[n + 1])
        BY <3>3, <4>1
      <4>3. g(x(f), n + 1)[i] = Perform(x(f)[i - 1], plan[i])
        BY <4>1
      <4> QED
        BY <3>3, <4>1, <4>2, <4>3
    <3> QED
      BY <3>1, <3>2, <3>3
  <2> QED
    BY <2>3
<1>3. T = {}
  <2> SUFFICES ASSUME T # {} PROVE FALSE
    OBVIOUS
  <2>1. T \in SUBSET Nat
    OBVIOUS
  <2> HIDE DEF T
  <2>2. PICK n \in T : \A k \in T : n <= k
    BY <2>1, LeastNatural
  <2>3. n - 1 \in Nat /\ n - 1 \notin T /\ (n - 1) + 1 = n
    BY <1>1, <2>1, <2>2
  <2> QED
    BY <1>2, <2>2, <2>3
<1>4. \E f : f = g(f, Len(files))
  BY <1>3
<1>5. PICK f : f = g(f, Len(files)) /\ ApplyFiles(disk, files) = all(f)
  <2>1. ~ \E i \in DOMAIN plan : ~ plan[i].ok
    BY <1>0
  <2> HIDE DEF all
  <2> QED
    BY <1>4, <1>7, <2>1
<1>6. all(f) = {f[Len(files)]} \cup Breaks(f, disk, files)
  <2>1. {j \in DOMAIN plan : f[j - 1].ok} = {j \in 1 .. Len(files) : f[j - 1].ok}
    BY <1>0
  <2> DEFINE begun == {j \in 1 .. Len(files) : f[j - 1].ok}
  <2>2. \A i \in begun : BrokenOff(f[i - 1], plan[i]) = BrokenOff(f[i - 1], Planned(disk, files[i]))
    BY <1>0
  <2>3. all(f) = {f[Len(files)]} \cup UNION {BrokenOff(f[i - 1], plan[i]) : i \in begun}
    BY <2>1
  <2>4. Breaks(f, disk, files) = UNION {BrokenOff(f[i - 1], Planned(disk, files[i])) : i \in begun}
    BY DEF Breaks
  <2> HIDE DEF begun, all
  <2>5. {BrokenOff(f[i - 1], plan[i]) : i \in begun} = {BrokenOff(f[i - 1], Planned(disk, files[i])) : i \in begun}
    BY <2>2
  <2> QED
    BY <2>3, <2>4, <2>5
<1>8. IsWriting(f, disk, files)
  <2>1. \A i \in 0 .. Len(files) : f[i] = IF i = 0 THEN Done(disk) ELSE Perform(f[i - 1], plan[i])
    BY <1>5
  <2>2. \A i \in 0 .. Len(files) : i # 0 => i \in 1 .. Len(files)
    OBVIOUS
  <2> QED
    BY <1>0, <2>1, <2>2 DEF IsWriting
<1> QED
  BY <1>5, <1>6, <1>8

\* A section that does not fit is refused before anything is written.
LEMMA RefusedIs ==
  ASSUME NEW disk, NEW files, DOMAIN files = 1 .. Len(files),
         \E i \in 1 .. Len(files) : ~ Planned(disk, files[i]).ok
  PROVE  ApplyFiles(disk, files) = {Refused(disk)}
<1> DEFINE plan == [i \in DOMAIN files |-> Planned(disk, files[i])]
<1>1. \E i \in DOMAIN plan : ~ plan[i].ok
  <2>1. DOMAIN plan = 1 .. Len(files) /\ \A i \in 1 .. Len(files) : plan[i] = Planned(disk, files[i])
    OBVIOUS
  <2> HIDE DEF plan
  <2> QED
    BY <2>1
<1> QED
  BY <1>1, Zenon DEF ApplyFiles, Refused

\* A patch of one section.
LEMMA OneSection ==
  ASSUME NEW disk, NEW f
  PROVE  LET change == Planned(disk, f)
         IN  /\ change.ok => ApplyFiles(disk, <<f>>) = {Perform(Done(disk), change)}
                                                        \cup BrokenOff(Done(disk), change)
             /\ ~ change.ok => ApplyFiles(disk, <<f>>) = {Refused(disk)}
<1> DEFINE files == <<f>>
           change == Planned(disk, f)
<1>1. /\ Len(files) = 1 /\ Len(files) \in Nat /\ DOMAIN files = 1 .. Len(files) /\ files[1] = f
      /\ \A i \in 1 .. Len(files) : i = 1
      /\ 1 \in 1 .. Len(files)
  OBVIOUS
<1> HIDE DEF files, change
<1>2. ASSUME change.ok PROVE ApplyFiles(disk, files) = {Perform(Done(disk), change)}
                                                         \cup BrokenOff(Done(disk), change)
  <2>1. \A i \in 1 .. Len(files) : Planned(disk, files[i]).ok
    BY <1>1, <1>2 DEF change
  <2>2. PICK w : /\ IsWriting(w, disk, files)
                 /\ ApplyFiles(disk, files) = {w[Len(files)]} \cup Breaks(w, disk, files)
    BY <1>1, <2>1, WrittenIs
  <2>3. w[0] = Done(disk) /\ w[1] = Perform(Done(disk), change)
    <3>1. 0 \in 0 .. 1 /\ 1 \in 0 .. 1 /\ 1 # 0 /\ 1 - 1 = 0
      OBVIOUS
    <3> QED
      BY <1>1, <2>2, <3>1 DEF IsWriting, change
  <2>4. Breaks(w, disk, files) = BrokenOff(Done(disk), change)
    <3>1. {j \in 1 .. Len(files) : w[j - 1].ok} = {1}
      <4>1. 1 - 1 = 0 /\ Done(disk).ok
        BY DEF Done
      <4> QED
        BY <1>1, <2>3, <4>1
    <3>2. Breaks(w, disk, files) = BrokenOff(w[1 - 1], Planned(disk, files[1]))
      BY <3>1 DEF Breaks
    <3>3. 1 - 1 = 0
      OBVIOUS
    <3> QED
      BY <1>1, <2>3, <3>2, <3>3 DEF change
  <2> QED
    BY <1>1, <2>2, <2>3, <2>4
<1>3. ASSUME ~ change.ok PROVE ApplyFiles(disk, files) = {Refused(disk)}
  BY <1>1, <1>3, RefusedIs DEF change
<1> QED
  BY <1>2, <1>3 DEF files, change

LEMMA NoTextIsMissing ==
  /\ \A text : IsText(text) => text # NoFile
  /\ \A p \in Paths : p # NoFile
BY PatchAssumption DEF IsText

LEMMA SectionPlanned ==
  ASSUME NEW p \in Paths, NEW text, IsText(text), NEW hunks, NEW new, NEW shift,
         ApplyHunks(text, hunks) = State(new, shift), ValidPython(new)
  PROVE  Planned(Disk(p, text), FilePatch(p, p, hunks)) = [path |-> p, ok |-> TRUE, text |-> new]
<1> DEFINE patch == FilePatch(p, p, hunks)
           disk == Disk(p, text)
<1>1. patch.old = p /\ patch.new = p /\ patch.hunks = hunks
  BY DEF FilePatch
<1>2. disk[p] = text /\ text # NoFile /\ p # NoFile
  BY NoTextIsMissing DEF Disk
<1> HIDE DEF patch, disk
<1>3. State(new, shift).ok /\ State(new, shift).text = new
  BY DEF State
<1>4. Planned(disk, patch) =
        [path |-> p, ok |-> State(new, shift).ok /\ ValidPython(State(new, shift).text),
         text |-> State(new, shift).text]
  BY <1>1, <1>2 DEF Planned
<1>5. (State(new, shift).ok /\ ValidPython(State(new, shift).text)) = TRUE
  BY <1>3
<1> QED
  BY <1>3, <1>4, <1>5 DEF patch, disk

LEMMA ChangePerformed ==
  ASSUME NEW p \in Paths, NEW text, NEW new, new # NoFile
  PROVE  Perform(Done(Disk(p, text)), [path |-> p, ok |-> TRUE, text |-> new]) = Done(Disk(p, new))
<1> DEFINE disk == Disk(p, text)
           s == Done(disk)
           change == [path |-> p, ok |-> TRUE, text |-> new]
<1>1. change.path = p /\ change.text = new
  OBVIOUS
<1>2. s.ok /\ s.disk = disk
  BY DEF Done
<1> HIDE DEF change, s, disk
<1>3. Perform(s, change) = [s EXCEPT !.disk[p] = new]
  BY <1>1, <1>2 DEF Perform
<1>4. [disk EXCEPT ![p] = new] = Disk(p, new)
  BY DEF Disk, disk
<1>5. [s EXCEPT !.disk[p] = new] = [s EXCEPT !.disk = [disk EXCEPT ![p] = new]]
  BY <1>2
<1>6. [s EXCEPT !.disk = Disk(p, new)] = Done(Disk(p, new))
  <2>1. PICK yes : yes = TRUE
    OBVIOUS
  <2>2. s = [disk |-> disk, ok |-> yes]
    BY <2>1 DEF s, Done
  <2>3. [s EXCEPT !.disk = Disk(p, new)] = [disk |-> Disk(p, new), ok |-> yes]
    BY <2>2
  <2> QED
    BY <2>1, <2>3 DEF Done
<1> QED
  BY <1>3, <1>4, <1>5, <1>6 DEF change, s, disk

\* What becomes of the only file when it is to be written.
Outcomes(p, text, new) ==
  {Done(Disk(p, new))} \cup {[disk |-> Disk(p, left), ok |-> FALSE] : left \in {text, Torn}}

LEMMA ChangeBrokenOff ==
  ASSUME NEW p \in Paths, NEW text, NEW new, new # NoFile
  PROVE  BrokenOff(Done(Disk(p, text)), [path |-> p, ok |-> TRUE, text |-> new])
           = {[disk |-> Disk(p, left), ok |-> FALSE] : left \in {text, Torn}}
<1> DEFINE disk == Disk(p, text)
           s == Done(disk)
           change == [path |-> p, ok |-> TRUE, text |-> new]
<1>1. change.path = p /\ change.text = new /\ s.disk = disk
  BY DEF Done
<1>2. disk[p] = text /\ \A left : [disk EXCEPT ![p] = left] = Disk(p, left)
  BY DEF Disk
<1> HIDE DEF change, s, disk
<1>3. BrokenOff(s, change) = {[disk |-> [disk EXCEPT ![p] = left], ok |-> FALSE] : left \in {text, Torn}}
  BY <1>1, <1>2 DEF BrokenOff
<1> QED
  BY <1>2, <1>3 DEF change, s, disk

\* A section whose hunks fit is written.
LEMMA SectionApplies ==
  ASSUME NEW p \in Paths, NEW text, IsText(text), NEW hunks, NEW new, NEW shift,
         ApplyHunks(text, hunks) = State(new, shift), ValidPython(new), IsText(new)
  PROVE  ApplyFiles(Disk(p, text), Section(p, hunks)) = Outcomes(p, text, new)
<1> DEFINE disk == Disk(p, text)
           f == FilePatch(p, p, hunks)
           change == [path |-> p, ok |-> TRUE, text |-> new]
<1>1. Planned(disk, f) = change /\ change.ok
  BY SectionPlanned
<1>2. Perform(Done(disk), change) = Done(Disk(p, new))
  BY NoTextIsMissing, ChangePerformed
<1>3. BrokenOff(Done(disk), change) = {[disk |-> Disk(p, left), ok |-> FALSE] : left \in {text, Torn}}
  BY NoTextIsMissing, ChangeBrokenOff
<1> HIDE DEF disk, f, change
<1>4. ApplyFiles(disk, <<f>>) = {Perform(Done(disk), change)} \cup BrokenOff(Done(disk), change)
  BY <1>1, OneSection
<1> QED
  BY <1>2, <1>3, <1>4 DEF disk, f, Section, Outcomes

\* An edit of a text is a text.
LEMMA EditedIs ==
  ASSUME NEW text, IsText(text), NEW e, IsEdit(text, e)
  PROVE  IsText(Spliced(text, e.at, e.was, e.by))
<1>1. e.at \in Nat /\ e.was \in Nat /\ IsText(e.by) /\ e.at + e.was <= Len(text)
  BY EditIs DEF IsText
<1> QED
  BY <1>1, SplicedText DEF IsSpliced

LEMMA EditedTwiceIs ==
  ASSUME NEW text, IsText(text), NEW d, IsEdit(text, d), NEW e, IsEdit(text, e), Apart(d, e)
  PROVE  IsText(Spliced(Spliced(text, e.at, e.was, e.by), d.at, d.was, d.by))
<1> DEFINE now == Spliced(text, e.at, e.was, e.by)
           n == Len(text)
           m == Len(e.by)
<1>1. /\ d.at \in Nat /\ d.was \in Nat /\ IsText(d.by)
      /\ e.at \in Nat /\ e.was \in Nat /\ IsText(e.by) /\ e.at + e.was <= n
      /\ n \in Nat /\ m \in Nat
  BY EditIs DEF IsText
<1>2. IsText(now) /\ Len(now) = n - e.was + m
  <2>1. e.at + e.was <= Len(text)
    BY <1>1
  <2>2. IsSpliced(now, text, e.at, e.was, e.by)
    BY <1>1, <2>1, SplicedText
  <2> QED
    BY <2>2 DEF IsSpliced
<1> HIDE DEF now, n, m
<1>3. d.at + d.was <= Len(now)
  <2>1. d.at + d.was < e.at
    BY DEF Apart
  <2>2. d.at + d.was <= n - e.was + m
    BY <1>1, <2>1
  <2> QED
    BY <1>2, <2>2
<1> QED
  BY <1>1, <1>2, <1>3, SplicedText DEF IsSpliced, now

LEMMA PatchLandsIn ==
  ASSUME NEW p \in Paths, NEW text, IsText(text), NEW diff, NEW hunks, NEW new, NEW shift,
         Begins(diff), AsPrinted(diff),
         Parse(diff) = [files |-> Section(p, hunks), ok |-> TRUE],
         ApplyHunks(text, hunks) = State(new, shift), ValidPython(new), IsText(new)
  PROVE  Lands(p, text, diff, new)
<1>1. Parse(diff).ok /\ Parse(diff).files = Section(p, hunks)
  OBVIOUS
<1>2. Normal(diff) = diff
  BY NormalIs
<1>3. ApplyPatch(Disk(p, text), diff) = ApplyFiles(Disk(p, text), Section(p, hunks))
  BY <1>1, <1>2 DEF ApplyPatch
<1> QED
  BY <1>3, SectionApplies DEF Lands, Outcomes, Done

LEMMA PatchBegins ==
  ASSUME NEW p \in Paths, NEW text, IsText(text), NEW d, IsEdit(text, d), NEW e, IsEdit(text, e)
  PROVE  Begins(PatchOf(p, text, e)) /\ Begins(PatchOfTwo(p, text, d, e))
<1> DEFINE a == FileLines(p, p)
<1>1. IsPart(a) /\ Len(a) > 0 /\ a[1].tag = "---" /\ \A f \in {d, e} : IsPart(HunkLines(text, f))
  <2>1. IsPart(a) /\ Len(a) = 2 /\ a[1] = [tag |-> "---", content |-> p]
    BY PartsOfPatch
  <2>2. IsPart(HunkLines(text, d)) /\ IsPart(HunkLines(text, e))
    BY PartsOfPatch
  <2> HIDE DEF a
  <2> QED
    BY <2>1, <2>2
<1> HIDE DEF a
<1>2. \A f \in {d, e} : LET b == a \o HunkLines(text, f) IN IsPart(b) /\ Len(b) > 0 /\ b[1].tag = "---"
  BY <1>1, FirstOfParts
<1> DEFINE b == a \o HunkLines(text, d)
<1>3. IsPart(b) /\ Len(b) > 0 /\ b[1].tag = "---"
  BY <1>2
<1> HIDE DEF b
<1>4. LET c == b \o HunkLines(text, e) IN IsPart(c) /\ Len(c) > 0 /\ c[1].tag = "---"
  BY <1>1, <1>3, FirstOfParts
<1> QED
  BY <1>2, <1>4 DEF PatchOf, PatchOfTwo, Begins, a, b

\* The hunks of one edit or of two are parsed as the hunks they are to be, found where they
\* belong and applied there, if the diff is read as it was printed: a patch made for a text
\* with a line turns it into the edited text, or the write fails.
THEOREM EditsAlwaysLand ==
  ASSUME NEW texts \in SUBSET Seq(Lines), NEW inserts \in SUBSET Seq(Lines)
  PROVE  EditsLand(texts, inserts)
<1> SUFFICES ASSUME NEW p \in Paths, NEW text \in texts \ {<<>>}
             PROVE  /\ \A e \in EditsOf(text, inserts) :
                         AsPrinted(PatchOf(p, text, e)) /\ ValidPython(Spliced(text, e.at, e.was, e.by))
                         => Lands(p, text, PatchOf(p, text, e), Spliced(text, e.at, e.was, e.by))
                    /\ \A d, e \in EditsOf(text, inserts) :
                         LET new == Spliced(Spliced(text, e.at, e.was, e.by), d.at, d.was, d.by)
                         IN  Apart(d, e) /\ AsPrinted(PatchOfTwo(p, text, d, e)) /\ ValidPython(new)
                             => Lands(p, text, PatchOfTwo(p, text, d, e), new)
  BY DEF EditsLand, PatchOf, PatchOfTwo
<1>1. IsText(text) /\ Len(text) # 0
  <2>1. text \in Seq(Lines) /\ text # <<>>
    OBVIOUS
  <2> QED
    BY <2>1, EmptySeq DEF IsText
<1>2. \A e \in EditsOf(text, inserts) : IsEdit(text, e)
  BY DEF EditsOf, IsEdit
<1>3. ASSUME NEW e \in EditsOf(text, inserts), AsPrinted(PatchOf(p, text, e)),
             ValidPython(Spliced(text, e.at, e.was, e.by))
      PROVE  Lands(p, text, PatchOf(p, text, e), Spliced(text, e.at, e.was, e.by))
  <2>1. IsEdit(text, e)
    BY <1>2
  <2>2. PICK shift : ApplyHunks(text, <<HunkOf(text, e)>>) =
                       State(Spliced(text, e.at, e.was, e.by), shift)
    BY <1>1, <2>1, HunkApplies
  <2>3. Begins(PatchOf(p, text, e)) /\ IsPlain(PatchOf(p, text, e))
    BY <1>1, <1>3, <2>1, PatchBegins, PlainIs DEF Begins
  <2>4. Parse(PatchOf(p, text, e)) = [files |-> Section(p, <<HunkOf(text, e)>>), ok |-> TRUE]
    BY <1>1, <2>1, <2>3, PatchParses
  <2>5. IsText(Spliced(text, e.at, e.was, e.by))
    BY <1>1, <2>1, EditedIs
  <2> QED
    BY <1>1, <1>3, <2>2, <2>3, <2>4, <2>5, PatchLandsIn
<1>4. ASSUME NEW d \in EditsOf(text, inserts), NEW e \in EditsOf(text, inserts), Apart(d, e),
             AsPrinted(PatchOfTwo(p, text, d, e)),
             ValidPython(Spliced(Spliced(text, e.at, e.was, e.by), d.at, d.was, d.by))
      PROVE  Lands(p, text, PatchOfTwo(p, text, d, e),
                   Spliced(Spliced(text, e.at, e.was, e.by), d.at, d.was, d.by))
  <2> DEFINE hunks == Append(<<HunkOf(text, d)>>, HunkOf(text, e))
             new == Spliced(Spliced(text, e.at, e.was, e.by), d.at, d.was, d.by)
  <2>1. IsEdit(text, d) /\ IsEdit(text, e)
    BY <1>2
  <2>2. PICK shift : ApplyHunks(text, hunks) = State(new, shift)
    BY <1>1, <1>4, <2>1, TwoHunksApply
  <2>3. Begins(PatchOfTwo(p, text, d, e)) /\ IsPlain(PatchOfTwo(p, text, d, e))
    BY <1>1, <1>4, <2>1, PatchBegins, PlainIs DEF Begins
  <2>4. Parse(PatchOfTwo(p, text, d, e)) = [files |-> Section(p, hunks), ok |-> TRUE]
    BY <1>1, <2>1, <2>3, PatchOfTwoParses
  <2>5. IsText(new)
    BY <1>1, <1>4, <2>1, EditedTwiceIs
  <2>6. ValidPython(new)
    BY <1>4
  <2> HIDE DEF hunks, new
  <2>7. Lands(p, text, PatchOfTwo(p, text, d, e), new)
    BY <1>1, <1>4, <2>2, <2>3, <2>4, <2>5, <2>6, PatchLandsIn
  <2> QED
    BY <2>7 DEF new
<1> QED
  BY <1>3, <1>4

\* Where a text occurs in another one.
Sites(needle, text) == {pos \in 0 .. Len(text) : Occurs(needle, text, pos)}

LEMMA OccursAtSite ==
  ASSUME NEW text, IsText(text), NEW needle, IsText(needle), NEW pos \in Nat, Occurs(needle, text, pos)
  PROVE  pos \in Sites(needle, text)
<1>1. Len(needle) \in Nat /\ Len(text) \in Nat
  BY TextLength
<1>2. pos + Len(needle) <= Len(text)
  BY DEF Occurs
<1> DEFINE m == Len(needle)
           n == Len(text)
<1>3. m \in Nat /\ n \in Nat /\ pos + m <= n
  BY <1>1, <1>2
<1> HIDE DEF m, n
<1>4. pos \in 0 .. n
  BY <1>3
<1> QED
  BY <1>4 DEF Sites, n

\* A text that occurs once, no further down than the window reaches, is found.
LEMMA LocatedOnce ==
  ASSUME NEW text, IsText(text), NEW needle, IsText(needle), needle # <<>>, NEW guess \in Nat,
         NEW site, Sites(needle, text) = {site}, site \in guess .. (guess + SearchWindow)
  PROVE  Locate(text, needle, guess) = site
<1> DEFINE window == {p \in (guess - SearchWindow) .. (guess + SearchWindow) :
                        p >= 0 /\ Occurs(needle, text, p)}
<1>1. CASE Occurs(needle, text, guess)
  <2>1. guess \in Sites(needle, text)
    BY <1>1, OccursAtSite
  <2> QED
    BY <1>1, <2>1, LocatedAtGuess
<1>2. CASE ~ Occurs(needle, text, guess)
  <2>1. SearchWindow \in Nat
    BY PatchAssumption
  <2>2. site \in Nat /\ Occurs(needle, text, site)
    <3>1. site \in Sites(needle, text)
      OBVIOUS
    <3> QED
      BY <2>1, <3>1 DEF Sites
  <2>3. site \in window
    BY <2>1, <2>2
  <2>4. \A p \in window : p = site
    <3> SUFFICES ASSUME NEW p \in window PROVE p = site
      OBVIOUS
    <3>1. p \in Nat /\ Occurs(needle, text, p)
      BY <2>1
    <3>2. p \in Sites(needle, text)
      BY <3>1, OccursAtSite
    <3> QED
      BY <3>2
  <2>5. window = {site}
    BY <2>3, <2>4
  <2>6. Locate(text, needle, guess) = CHOOSE p \in window : \A q \in window : p <= q
    <3>1. window # {}
      BY <2>5
    <3> QED
      BY <1>2, <3>1 DEF Locate
  <2>7. site <= site
    BY <2>2
  <2> HIDE DEF window
  <2>8. (CHOOSE p \in window : \A q \in window : p <= q) = site
    BY <2>5, <2>7
  <2> QED
    BY <2>6, <2>8
<1> QED
  BY <1>1, <1>2

\* A hunk whose lines occur once in a text is put there, though as many lines as the
\* window has were put before them since the diff was made.
THEOREM DriftedHunksAlwaysLand ==
  ASSUME NEW texts \in SUBSET Seq(Lines), NEW needles \in SUBSET Seq(Lines)
  PROVE  DriftedHunksLand(texts, needles)
<1> SUFFICES ASSUME NEW text \in texts, NEW above \in texts, NEW old \in needles, NEW new \in needles,
                    NEW guess \in 0 .. Len(text), old # <<>>,
                    Cardinality(Sites(old, above \o text)) = 1,
                    Sites(old, above \o text) \subseteq guess .. (guess + SearchWindow)
             PROVE  LET now == above \o text
                        s == ApplyHunks(now, <<Hunk(guess + 1, old, new)>>)
                    IN  s.ok /\ \A pos \in Sites(old, now) : s.text = Spliced(now, pos, Len(old), new)
  BY DEF DriftedHunksLand, Sites
<1> DEFINE now == above \o text
           hunk == Hunk(guess + 1, old, new)
           hunks == <<hunk>>
           here == Sites(old, now)
<1>1. IsText(now) /\ IsText(old) /\ guess \in Nat
  <2>1. IsText(text) /\ IsText(above) /\ IsText(old)
    BY DEF IsText
  <2>2. Len(text) \in Nat
    BY <2>1, TextLength
  <2> QED
    BY <2>1, <2>2, TextsJoin
<1>2. PICK site : here = {site}
  <2>1. Len(now) \in Nat
    BY <1>1, TextLength
  <2>2. IsFiniteSet(0 .. Len(now)) /\ here \subseteq 0 .. Len(now)
    BY <2>1, FS_Interval DEF Sites
  <2>3. IsFiniteSet(here)
    BY <2>2, FS_Subset
  <2> HIDE DEF here
  <2> QED
    BY <2>3, FS_Singleton DEF here
<1>3. Locate(now, old, guess) = site
  <2>1. site \in guess .. (guess + SearchWindow)
    BY <1>2
  <2> HIDE DEF now
  <2> QED
    BY <1>1, <1>2, <2>1, LocatedOnce
<1>4. Len(hunks) = 1 /\ hunks[1] = hunk
  OBVIOUS
<1>5. hunk.start = guess + 1 /\ hunk.old = old /\ hunk.new = new
  BY DEF Hunk
<1> HIDE DEF now, hunk, hunks
<1>6. PICK f : IsApplied(f, now, hunks) /\ ApplyHunks(now, hunks) = f[1]
  <2>1. Len(hunks) \in Nat
    BY <1>4
  <2>2. \E f : IsApplied(f, now, hunks) /\ ApplyHunks(now, hunks) = f[Len(hunks)]
    BY <2>1, AppliedIs
  <2> QED
    BY <1>4, <2>2
<1>7. f[1] = ApplyHunk(State(now, 0), hunk)
  <2>1. 0 \in 0 .. 1 /\ 1 \in 0 .. 1 /\ 1 # 0 /\ 1 - 1 = 0
    OBVIOUS
  <2> QED
    BY <1>4, <1>6, <2>1 DEF IsApplied
<1>8. f[1] = State(Spliced(now, site, Len(old), new), 0 + Len(new) - Len(old))
  <2> DEFINE at == hunk.start - 1 + 0
  <2>1. (IF at > 0 THEN at ELSE 0) = guess
    BY <1>1, <1>5
  <2>2. site # NotFound
    <3>1. site \in here
      BY <1>2
    <3>2. Len(now) \in Nat
      BY <1>1, TextLength
    <3> QED
      BY <3>1, <3>2 DEF Sites, NotFound
  <2>3. Locate(now, hunk.old, IF at > 0 THEN at ELSE 0) = site
    BY <1>3, <1>5, <2>1
  <2> HIDE DEF at
  <2>4. State(now, 0).ok /\ State(now, 0).text = now /\ State(now, 0).shift = 0
    BY DEF State
  <2> QED
    BY <1>5, <1>7, <2>2, <2>3 DEF ApplyHunk, at, State
<1>9. f[1].ok /\ f[1].text = Spliced(now, site, Len(old), new)
  BY <1>8 DEF State
<1> QED
  BY <1>2, <1>6, <1>9 DEF now, hunks, hunk

PatchHunks == [start : Int, old : Seq(Lines), new : Seq(Lines)]

\* What the hunks applied so far may have made of a text.
IsState(s) == \E text, shift, ok : /\ IsText(text) /\ shift \in Int /\ ok \in BOOLEAN
                                   /\ s = [text |-> text, shift |-> shift, ok |-> ok]

LEMMA HunkKeepsText ==
  ASSUME NEW s, IsState(s), NEW hunk \in PatchHunks
  PROVE  IsState(ApplyHunk(s, hunk))
<1>1. PICK text, shift, ok : /\ IsText(text) /\ shift \in Int /\ ok \in BOOLEAN
                             /\ s = [text |-> text, shift |-> shift, ok |-> ok]
  BY DEF IsState
<1> DEFINE at == hunk.start - 1 + s.shift
           guess == IF at > 0 THEN at ELSE 0
           pos == Locate(s.text, hunk.old, guess)
           m == Len(hunk.new)
           k == Len(hunk.old)
<1>2. s.text = text /\ s.shift = shift /\ s.ok = ok
  BY <1>1
<1>3. hunk.start \in Int /\ IsText(hunk.old) /\ IsText(hunk.new)
  BY DEF PatchHunks, IsText
<1>4. guess \in Nat
  BY <1>1, <1>2, <1>3
<1>5. m \in Nat /\ k \in Nat
  BY <1>3, TextLength
<1> HIDE DEF guess
<1>6. CASE ~ s.ok \/ pos = NotFound
  <2>1. ApplyHunk(s, hunk) = s \/ ApplyHunk(s, hunk) = [s EXCEPT !.ok = FALSE]
    BY <1>6 DEF ApplyHunk, guess
  <2>2. IsState([s EXCEPT !.ok = FALSE])
    <3>1. PICK no : no = FALSE
      OBVIOUS
    <3>2. [s EXCEPT !.ok = no] = [text |-> text, shift |-> shift, ok |-> no]
      BY <1>1
    <3>3. no \in BOOLEAN
      BY <3>1
    <3> QED
      <4>1. IsState([s EXCEPT !.ok = no])
        BY <1>1, <3>2, <3>3 DEF IsState
      <4> QED
        BY <3>1, <4>1
  <2> QED
    BY <2>1, <2>2
<1>7. CASE s.ok /\ pos # NotFound
  <2> DEFINE after == Spliced(text, pos, k, hunk.new)
             moved == shift + m - k
  <2>1. ApplyHunk(s, hunk) = [s EXCEPT !.text = after, !.shift = moved]
    BY <1>2, <1>7 DEF ApplyHunk, guess
  <2>2. IsText(after)
    <3>1. pos \in Nat /\ pos + k <= Len(text)
      <4>1. Locate(text, hunk.old, guess) # NotFound
        BY <1>2, <1>7
      <4>2. text \in Seq(Lines) /\ hunk.old \in Seq(Lines)
        BY <1>1, <1>3 DEF IsText
      <4>3. /\ Locate(text, hunk.old, guess) \in Nat
            /\ Locate(text, hunk.old, guess) + Len(hunk.old) <= Len(text)
        BY <1>4, <4>1, <4>2, LocatedInText
      <4> QED
        BY <1>2, <4>3
    <3> HIDE DEF pos
    <3> QED
      BY <1>1, <1>3, <1>5, <3>1, SplicedText DEF IsSpliced
  <2>3. moved \in Int
    <3> HIDE DEF m, k
    <3> QED
      BY <1>1, <1>5
  <2> HIDE DEF after, moved
  <2>4. [s EXCEPT !.text = after, !.shift = moved] = [text |-> after, shift |-> moved, ok |-> ok]
    <3> DEFINE t == [s EXCEPT !.text = after, !.shift = moved]
               names == {"text", "shift", "ok"}
    <3>1. DOMAIN t = names
      BY <1>1
    <3>2. t.text = after /\ t.shift = moved /\ t.ok = ok
      BY <1>1
    <3>3. t = [i \in names |-> t[i]]
      BY <3>1
    <3>4. t = [text |-> t.text, shift |-> t.shift, ok |-> t.ok]
      <4> HIDE DEF t
      <4> QED
        BY <3>3
    <3> QED
      BY <3>2, <3>4
  <2> QED
    BY <1>1, <2>1, <2>2, <2>3, <2>4 DEF IsState
<1> QED
  BY <1>6, <1>7

\* Whatever the hunks of a patch, what they make of a text is a text.
LEMMA HunksKeepText ==
  ASSUME NEW text, IsText(text), NEW hunks \in Seq(PatchHunks)
  PROVE  IsState(ApplyHunks(text, hunks))
<1> DEFINE n == Len(hunks)
<1>1. n \in Nat /\ \A i \in 1 .. n : hunks[i] \in PatchHunks
  BY LenProperties, ElementOfSeq
<1>2. PICK f : IsApplied(f, text, hunks) /\ ApplyHunks(text, hunks) = f[n]
  BY <1>1, AppliedIs
<1>3. \A i \in 0 .. n : f[i] = IF i = 0 THEN State(text, 0) ELSE ApplyHunk(f[i - 1], hunks[i])
  BY <1>2 DEF IsApplied
<1> HIDE DEF n
<1> DEFINE T == {i \in 0 .. n : ~ IsState(f[i])}
<1>4. 0 \notin T
  <2>1. f[0] = State(text, 0)
    BY <1>1, <1>3
  <2>2. PICK yes : yes = TRUE
    OBVIOUS
  <2>3. State(text, 0) = [text |-> text, shift |-> 0, ok |-> yes]
    BY <2>2 DEF State
  <2>4. yes \in BOOLEAN /\ 0 \in Int
    BY <2>2
  <2>5. IsState(State(text, 0))
    BY <2>3, <2>4 DEF IsState
  <2> QED
    BY <2>1, <2>5
<1>5. T = {}
  <2> SUFFICES ASSUME T # {} PROVE FALSE
    OBVIOUS
  <2>1. T \in SUBSET Nat
    OBVIOUS
  <2>2. PICK i \in T : \A k \in T : i <= k
    BY <2>1, LeastNatural
  <2>3. i # 0 /\ i \in 0 .. n /\ ~ IsState(f[i])
    BY <1>4, <2>2
  <2>4. i - 1 \in 0 .. n /\ i \in 1 .. n /\ ~ (i <= i - 1)
    BY <1>1, <2>3
  <2>5. IsState(f[i - 1])
    BY <2>2, <2>4
  <2>6. f[i] = ApplyHunk(f[i - 1], hunks[i])
    BY <1>3, <2>3
  <2> QED
    BY <1>1, <2>3, <2>4, <2>5, <2>6, HunkKeepsText
<1>6. n \in 0 .. n
  BY <1>1
<1> QED
  BY <1>2, <1>5, <1>6

Sides == Paths \cup {NoFile}
Named(f) == {f.old, f.new} \ {NoFile}

\* The sections of a patch as the code takes them: a new file, one that goes, or a changed one.
IsSection(f) ==
  /\ f.old \in Sides /\ f.new \in Sides /\ f.hunks \in Seq(PatchHunks)
  /\ \/ f.old = NoFile /\ f.new # NoFile
     \/ f.old # NoFile /\ f.new \in {NoFile, f.old}

IsDisk(disk) == DOMAIN disk = Paths /\ \A p \in Paths : disk[p] = NoFile \/ IsText(disk[p])

\* A section that is planned is for the one file it names, and it has no text for this file
\* only if it removes a file that is there.
LEMMA PlanIs ==
  ASSUME NEW disk, IsDisk(disk), NEW f, IsSection(f), Planned(disk, f).ok
  PROVE  \E p \in Paths : /\ Named(f) = {p} /\ Planned(disk, f).path = p
                          /\ (Planned(disk, f).text = NoFile <=> f.new = NoFile)
                          /\ (f.new = NoFile => f.old = p /\ disk[p] # NoFile)
<1> DEFINE target == IF f.new = NoFile THEN f.old ELSE f.new
           missing == disk[target] = NoFile
           text == IF missing THEN <<>> ELSE disk[target]
           edited == ApplyHunks(text, f.hunks)
<1>1. target \in Paths /\ target # NoFile /\ Named(f) = {target}
  BY NoTextIsMissing DEF IsSection, Sides, Named
<1>2. CASE f.new = NoFile
  <2>1. PICK fine : fine = (~ missing)
    OBVIOUS
  <2>2. Planned(disk, f) = [path |-> target, ok |-> fine, text |-> NoFile]
    BY <1>2, <2>1 DEF Planned
  <2>3. target = f.old
    BY <1>2
  <2> HIDE DEF missing
  <2>4. Planned(disk, f).path = target /\ Planned(disk, f).text = NoFile
    BY <2>2
  <2>5. disk[target] # NoFile
    <3>1. Planned(disk, f).ok = fine
      BY <2>2
    <3> QED
      BY <2>1, <3>1 DEF missing
  <2> HIDE DEF target
  <2> QED
    BY <1>1, <1>2, <2>3, <2>4, <2>5
<1>3. CASE f.new # NoFile
  <2>1. IsText(text)
    <3>1. IsText(<<>>)
      BY DEF IsText
    <3> QED
      BY <1>1, <3>1 DEF IsDisk
  <2>2. IsState(edited)
    <3> HIDE DEF text
    <3> QED
      BY <2>1, HunksKeepText DEF IsSection
  <2>3. edited.text # NoFile
    <3> HIDE DEF edited
    <3> QED
      BY <2>2, NoTextIsMissing DEF IsState
  <2>4. Planned(disk, f).path = target /\ Planned(disk, f).text = edited.text
    <3>1. \/ Planned(disk, f) = [path |-> target, ok |-> FALSE, text |-> NoFile]
          \/ Planned(disk, f) = [path |-> target, ok |-> edited.ok /\ ValidPython(edited.text),
                                  text |-> edited.text]
      BY <1>3 DEF Planned
    <3> HIDE DEF edited, target
    <3> QED
      BY <3>1
  <2> HIDE DEF edited, target
  <2> QED
    BY <1>1, <1>3, <2>3, <2>4
<1> QED
  BY <1>2, <1>3

\* A planned change is made.
LEMMA ChangeIsMade ==
  ASSUME NEW disk, NEW change, change.text = NoFile => disk[change.path] # NoFile
  PROVE  Perform(Done(disk), change) = Done([disk EXCEPT ![change.path] = change.text])
<1> DEFINE s == Done(disk)
           new == [disk EXCEPT ![change.path] = change.text]
<1>1. s.ok /\ s.disk = disk
  BY DEF Done
<1> HIDE DEF s
<1>2. Perform(s, change) = [s EXCEPT !.disk[change.path] = change.text]
  BY <1>1 DEF Perform
<1>3. [s EXCEPT !.disk[change.path] = change.text] = [s EXCEPT !.disk = new]
  BY <1>1
<1> HIDE DEF new
<1>4. [s EXCEPT !.disk = new] = Done(new)
  <2>1. PICK yes : yes = TRUE
    OBVIOUS
  <2>2. s = [disk |-> disk, ok |-> yes]
    BY <2>1 DEF s, Done
  <2>3. [s EXCEPT !.disk = new] = [disk |-> new, ok |-> yes]
    BY <2>2
  <2> QED
    BY <2>1, <2>3 DEF Done
<1> QED
  BY <1>2, <1>3, <1>4 DEF s, new

\* A section is planned from the file it names alone.
LEMMA PlanIsLocal ==
  ASSUME NEW disk, NEW d, NEW f, IsSection(f), NEW p \in Paths, Named(f) = {p}, d[p] = disk[p]
  PROVE  Planned(d, f) = Planned(disk, f)
<1> DEFINE target == IF f.new = NoFile THEN f.old ELSE f.new
<1>1. target = p
  BY NoTextIsMissing DEF IsSection, Sides, Named
<1>2. d[target] = disk[target]
  BY <1>1
<1> HIDE DEF target
<1>3. \A u : Planned(u, f) =
        LET edited == ApplyHunks(IF u[target] = NoFile THEN <<>> ELSE u[target], f.hunks)
        IN  IF f.new = NoFile THEN [path |-> target, ok |-> u[target] # NoFile, text |-> NoFile]
            ELSE IF (u[target] = NoFile) # (f.old = NoFile)
              THEN [path |-> target, ok |-> FALSE, text |-> NoFile]
              ELSE [path |-> target, ok |-> edited.ok /\ ValidPython(edited.text), text |-> edited.text]
  BY Zenon DEF Planned, target
<1> QED
  BY <1>2, <1>3, Zenon

LEMMA BrokenIsNotOk ==
  ASSUME NEW s, NEW change, NEW r \in BrokenOff(s, change)
  PROVE  ~ r.ok
<1>1. \E d : r = [disk |-> d, ok |-> FALSE]
  BY DEF BrokenOff
<1> QED
  BY <1>1

\* What a patch of one section may come to when nothing goes wrong.
Complete(disk, f) == {r \in ApplyFiles(disk, <<f>>) : r.ok}

\* The disk with a planned change.
With(disk, change) == [disk EXCEPT ![change.path] = change.text]

\* A patch of one section writes its file, or nothing comes of it.
LEMMA SectionDone ==
  ASSUME NEW disk, IsDisk(disk), NEW f, IsSection(f)
  PROVE  /\ Planned(disk, f).ok =>
              /\ Complete(disk, f) = {Done(With(disk, Planned(disk, f)))}
              /\ Perform(Done(disk), Planned(disk, f)) = Done(With(disk, Planned(disk, f)))
              /\ ApplyFiles(disk, <<f>>) \ Complete(disk, f)
                   = BrokenOff(Done(disk), Planned(disk, f))
         /\ ~ Planned(disk, f).ok => Complete(disk, f) = {}
<1> DEFINE a == Planned(disk, f)
           d == With(disk, a)
           done == Complete(disk, f)
<1>0. done = {r \in ApplyFiles(disk, <<f>>) : r.ok}
  BY DEF Complete
<1>1. Done(d).ok /\ ~ Refused(disk).ok
  BY DEF Done, Refused
<1>2. a.ok => /\ done = {Done(d)} /\ Perform(Done(disk), a) = Done(d)
              /\ ApplyFiles(disk, <<f>>) \ done = BrokenOff(Done(disk), a)
  <2> SUFFICES ASSUME a.ok
               PROVE  /\ done = {Done(d)} /\ Perform(Done(disk), a) = Done(d)
                      /\ ApplyFiles(disk, <<f>>) \ done = BrokenOff(Done(disk), a)
    OBVIOUS
  <2>1. a.text = NoFile => disk[a.path] # NoFile
    BY PlanIs
  <2>2. Perform(Done(disk), a) = Done(d)
    BY <2>1, ChangeIsMade DEF With
  <2>3. ApplyFiles(disk, <<f>>) = {Done(d)} \cup BrokenOff(Done(disk), a)
    BY <2>2, OneSection
  <2>4. \A r \in BrokenOff(Done(disk), a) : ~ r.ok
    BY BrokenIsNotOk
  <2> HIDE DEF a, d, done
  <2> QED
    BY <1>0, <1>1, <2>2, <2>3, <2>4
<1>3. ~ a.ok => done = {}
  <2> SUFFICES ASSUME ~ a.ok PROVE done = {}
    OBVIOUS
  <2>1. ApplyFiles(disk, <<f>>) = {Refused(disk)}
    BY OneSection
  <2> HIDE DEF a, d, done
  <2> QED
    BY <1>0, <1>1, <2>1
<1> QED
  BY <1>2, <1>3

\* A patch of two sections that fit.
LEMMA TwoSections ==
  ASSUME NEW disk, NEW f, NEW g, NEW a, a = Planned(disk, f), NEW b, b = Planned(disk, g),
         a.ok, b.ok, NEW d, Perform(Done(disk), a) = Done(d)
  PROVE  ApplyFiles(disk, <<f, g>>)
           = {Perform(Done(d), b)} \cup (BrokenOff(Done(disk), a) \cup BrokenOff(Done(d), b))
<1> DEFINE files == <<f, g>>
<1>1. /\ Len(files) = 2 /\ Len(files) \in Nat /\ DOMAIN files = 1 .. Len(files)
      /\ files[1] = f /\ files[2] = g
      /\ \A i \in 1 .. Len(files) : i = 1 \/ i = 2
      /\ 1 \in 1 .. Len(files) /\ 2 \in 1 .. Len(files)
  OBVIOUS
<1> HIDE DEF files
<1>2. PICK w : /\ IsWriting(w, disk, files)
               /\ ApplyFiles(disk, files) = {w[Len(files)]} \cup Breaks(w, disk, files)
  <2>1. \A i \in 1 .. Len(files) : Planned(disk, files[i]).ok
    BY <1>1
  <2> QED
    BY <1>1, <2>1, WrittenIs
<1>3. w[0] = Done(disk) /\ w[1] = Done(d) /\ w[2] = Perform(Done(d), b)
  <2>1. 0 \in 0 .. 2 /\ 1 \in 0 .. 2 /\ 2 \in 0 .. 2 /\ 1 # 0 /\ 2 # 0 /\ 1 - 1 = 0 /\ 2 - 1 = 1
    OBVIOUS
  <2> QED
    BY <1>1, <1>2, <2>1 DEF IsWriting
<1>4. Breaks(w, disk, files) = BrokenOff(Done(disk), a) \cup BrokenOff(Done(d), b)
  <2>1. 1 - 1 = 0 /\ 2 - 1 = 1 /\ Done(disk).ok /\ Done(d).ok
    BY DEF Done
  <2>2. {j \in 1 .. Len(files) : w[j - 1].ok} = {1, 2}
    BY <1>1, <1>3, <2>1
  <2> DEFINE B(i) == BrokenOff(w[i - 1], Planned(disk, files[i]))
  <2>3. Breaks(w, disk, files) = UNION {B(i) : i \in {1, 2}}
    BY <2>2 DEF Breaks
  <2>4. B(1) = BrokenOff(Done(disk), a) /\ B(2) = BrokenOff(Done(d), b)
    BY <1>1, <1>3, <2>1
  <2> HIDE DEF B
  <2>5. UNION {B(i) : i \in {1, 2}} = B(1) \cup B(2)
    OBVIOUS
  <2> QED
    BY <2>3, <2>4, <2>5
<1> QED
  BY <1>1, <1>2, <1>3, <1>4 DEF files

\* What is to come of a patch of two sections.
Expected(disk, f, g, both) ==
  /\ Complete(disk, f) = {} \/ Complete(disk, g) = {} => both = {Refused(disk)}
  /\ Complete(disk, f) # {} /\ Complete(disk, g) # {} =>
       both = (ApplyFiles(disk, <<f>>) \ Complete(disk, f))
                \cup UNION {ApplyFiles(r.disk, <<g>>) : r \in Complete(disk, f)}
  /\ \A r \in both : r.ok =>
       \A p \in Named(f) \cup Named(g) :
         (r.disk[p] = NoFile) <=> (\E h \in {f, g} : h.old = p /\ h.new = NoFile)

LEMMA BothOrNeither ==
  ASSUME NEW disk, IsDisk(disk), NEW f, IsSection(f), NEW g, IsSection(g),
         Named(f) \cap Named(g) = {}
  PROVE  Expected(disk, f, g, ApplyFiles(disk, <<f, g>>))
<1> DEFINE a == Planned(disk, f)
           b == Planned(disk, g)
           both == ApplyFiles(disk, <<f, g>>)
           d1 == With(disk, a)
           d2 == With(d1, b)
           first == Complete(disk, f)
           second == Complete(disk, g)
           whole == ApplyFiles(disk, <<f>>)
<1>2. /\ a.ok => first = {Done(d1)} /\ Perform(Done(disk), a) = Done(d1)
                 /\ whole \ first = BrokenOff(Done(disk), a)
      /\ ~ a.ok => first = {}
  BY SectionDone
<1>3. (b.ok => second # {}) /\ (~ b.ok => second = {})
  <2> DEFINE e == With(disk, b)
  <2>1. (b.ok => second = {Done(e)}) /\ (~ b.ok => second = {})
    BY SectionDone
  <2> HIDE DEF e, b, second
  <2> QED
    BY <2>1
<1>4. CASE ~ a.ok \/ ~ b.ok
  <2>1. both = {Refused(disk)}
    <3> DEFINE files == <<f, g>>
    <3>1. /\ DOMAIN files = 1 .. Len(files) /\ 1 \in 1 .. Len(files) /\ 2 \in 1 .. Len(files)
          /\ files[1] = f /\ files[2] = g
      OBVIOUS
    <3> HIDE DEF files
    <3>2. ApplyFiles(disk, files) = {Refused(disk)}
      BY <1>4, <3>1, RefusedIs
    <3> QED
      BY <3>2 DEF files
  <2>2. \A r \in both : ~ r.ok
    <3> HIDE DEF both
    <3> QED
      BY <2>1 DEF Refused
  <2>3. first = {} \/ second = {}
    BY <1>2, <1>3, <1>4
  <2> HIDE DEF first, second, both
  <2>4. Expected(disk, f, g, both)
    BY <2>1, <2>2, <2>3 DEF Expected, first, second
  <2> QED
    BY <2>4 DEF both
<1>5. CASE a.ok /\ b.ok
  <2>1. PICK p \in Paths : /\ Named(f) = {p} /\ a.path = p /\ (a.text = NoFile <=> f.new = NoFile)
                          /\ (f.new = NoFile => f.old = p /\ disk[p] # NoFile)
    BY <1>5, PlanIs
  <2>2. PICK q \in Paths : /\ Named(g) = {q} /\ b.path = q /\ (b.text = NoFile <=> g.new = NoFile)
                          /\ (g.new = NoFile => g.old = q /\ disk[q] # NoFile)
    BY <1>5, PlanIs
  <2>3. p # q
    BY <2>1, <2>2
  <2>4. d1[p] = a.text /\ d1[q] = disk[q] /\ DOMAIN d1 = Paths
    BY <2>1, <2>3 DEF With, IsDisk
  <2>5. Planned(d1, g) = b
    <3> HIDE DEF d1
    <3> QED
      BY <2>2, <2>4, PlanIsLocal
  <2>6. Perform(Done(d1), b) = Done(d2)
    <3>1. b.text = NoFile => d1[b.path] # NoFile
      BY <2>2, <2>4
    <3> HIDE DEF d1
    <3> QED
      BY <3>1, ChangeIsMade DEF With
  <2>7. d2[p] = a.text /\ d2[q] = b.text
    <3> HIDE DEF d1
    <3> QED
      BY <2>2, <2>3, <2>4 DEF With
  <2> HIDE DEF a, b, d1, d2, first, second, whole, both
  <2>8. both = {Done(d2)} \cup (BrokenOff(Done(disk), a) \cup BrokenOff(Done(d1), b))
    BY <1>2, <1>5, <2>6, TwoSections DEF a, b, both
  <2>9. ApplyFiles(d1, <<g>>) = {Done(d2)} \cup BrokenOff(Done(d1), b)
    BY <1>5, <2>5, <2>6, OneSection
  <2>10. Done(d1).disk = d1
    BY DEF Done
  <2>11. both = (whole \ first) \cup UNION {ApplyFiles(r.disk, <<g>>) : r \in first}
    <3>1. UNION {ApplyFiles(r.disk, <<g>>) : r \in first} = ApplyFiles(d1, <<g>>)
      <4>1. first = {Done(d1)}
        BY <1>2, <1>5
      <4> QED
        BY <2>10, <4>1
    <3> QED
      BY <1>2, <1>5, <2>8, <2>9, <3>1
  <2>12. f.old # q /\ g.old # p
    <3>1. q \notin Named(f) /\ p \notin Named(g) /\ p # NoFile /\ q # NoFile
      BY <2>1, <2>2, <2>3, NoTextIsMissing
    <3> QED
      BY <3>1 DEF Named
  <2>13. \A r \in both : r.ok => r.disk = d2
    <3>1. /\ \A r \in BrokenOff(Done(disk), a) : ~ r.ok
          /\ \A r \in BrokenOff(Done(d1), b) : ~ r.ok
          /\ Done(d2).disk = d2
      BY BrokenIsNotOk DEF Done
    <3> QED
      BY <2>8, <3>1
  <2>14. (d2[p] = NoFile) <=> (\E h \in {f, g} : h.old = p /\ h.new = NoFile)
    BY <2>1, <2>7, <2>12
  <2>15. (d2[q] = NoFile) <=> (\E h \in {f, g} : h.old = q /\ h.new = NoFile)
    BY <2>2, <2>7, <2>12
  <2>16. first # {} /\ second # {}
    BY <1>2, <1>3, <1>5
  <2>17. \A r \in both : r.ok =>
           \A u \in Named(f) \cup Named(g) :
             (r.disk[u] = NoFile) <=> (\E h \in {f, g} : h.old = u /\ h.new = NoFile)
    BY <2>1, <2>2, <2>13, <2>14, <2>15
  <2>18. Expected(disk, f, g, both)
    BY <2>11, <2>16, <2>17 DEF Expected, first, second, whole
  <2> QED
    BY <2>18 DEF both
<1> QED
  BY <1>4, <1>5

\* A patch of two files that does not fit both changes neither, and one that fits does what
\* a patch of each would, one after the other: whatever the files and the hunks, only a
\* write that fails leaves the first changed and the second not.
THEOREM AlwaysAllOrNothing ==
  ASSUME NEW texts \in SUBSET Seq(Lines), NEW hunks \in SUBSET Seq(PatchHunks)
  PROVE  AllOrNothing(texts, hunks)
<1> DEFINE sections == {f \in [old : Sides, new : Sides, hunks : hunks] :
                         \/ f.old = NoFile /\ f.new # NoFile
                         \/ f.old # NoFile /\ f.new \in {NoFile, f.old}}
<1>1. \A f \in sections : IsSection(f)
  BY DEF IsSection
<1>2. AllOrNothing(texts, hunks) <=>
        \A disk \in [Paths -> texts \cup {NoFile}], f, g \in sections :
          Named(f) \cap Named(g) = {} => Expected(disk, f, g, ApplyFiles(disk, <<f, g>>))
  BY Zenon DEF AllOrNothing, Expected, Complete, Refused, Sides, Named
<1>3. \A disk \in [Paths -> texts \cup {NoFile}] : IsDisk(disk)
  BY DEF IsDisk, IsText
<1> HIDE DEF sections
<1> QED
  BY <1>1, <1>2, <1>3, BothOrNeither

-----------------------------------------------------------------------------
(* Patches of any number of files *)

Sections ==
  {f \in [old : Sides, new : Sides, hunks : Seq(PatchHunks)] :
     \/ f.old = NoFile /\ f.new # NoFile
     \/ f.old # NoFile /\ f.new \in {NoFile, f.old}}

\* No file is named by two sections.
Different(files) ==
  \A i, j \in DOMAIN files : i # j => Named(files[i]) \cap Named(files[j]) = {}

\* What a disk is after the first k sections: planned for the disk as it was, one by one.
IsWritten(d, disk, files, k) ==
  /\ DOMAIN d = Paths
  /\ \A i \in 1 .. k : \A p \in Named(files[i]) : d[p] = Planned(disk, files[i]).text
  /\ \A p \in Paths : (\A i \in 1 .. k : p \notin Named(files[i])) => d[p] = disk[p]

IsFiles(files) ==
  /\ Len(files) \in Nat /\ DOMAIN files = 1 .. Len(files)
  /\ \A i \in 1 .. Len(files) : IsSection(files[i])

\* One section more.
LEMMA SectionWritten ==
  ASSUME NEW disk, IsDisk(disk), NEW files, IsFiles(files), Different(files),
         NEW k \in Nat, k + 1 <= Len(files), Planned(disk, files[k + 1]).ok,
         NEW d, IsWritten(d, disk, files, k)
  PROVE  \E e : /\ IsWritten(e, disk, files, k + 1)
                /\ Perform(Done(d), Planned(disk, files[k + 1])) = Done(e)
<1> DEFINE f == files[k + 1]
           a == Planned(disk, f)
<1>1. /\ k + 1 \in 1 .. Len(files) /\ k + 1 \in DOMAIN files /\ IsSection(f)
      /\ \A i \in 1 .. k : i \in DOMAIN files /\ i # k + 1
      /\ \A i \in 1 .. (k + 1) : i = k + 1 \/ i \in 1 .. k
      /\ \A i \in 1 .. k : i \in 1 .. (k + 1)
      /\ k + 1 \in 1 .. (k + 1)
  <2>1. Len(files) \in Nat /\ DOMAIN files = 1 .. Len(files)
    BY DEF IsFiles
  <2>2. k + 1 \in 1 .. Len(files) /\ \A i \in 1 .. k : i \in 1 .. Len(files) /\ i # k + 1
    BY <2>1
  <2>3. IsSection(f)
    BY <2>2 DEF IsFiles
  <2>4. /\ \A i \in 1 .. (k + 1) : i = k + 1 \/ i \in 1 .. k
        /\ \A i \in 1 .. k : i \in 1 .. (k + 1)
        /\ k + 1 \in 1 .. (k + 1)
    OBVIOUS
  <2> HIDE DEF f
  <2> QED
    BY <2>1, <2>2, <2>3, <2>4
<1>2. PICK p \in Paths : /\ Named(f) = {p} /\ a.path = p /\ (a.text = NoFile <=> f.new = NoFile)
                         /\ (f.new = NoFile => f.old = p /\ disk[p] # NoFile)
  BY <1>1, PlanIs
<1>3. \A i \in 1 .. k : p \notin Named(files[i])
  BY <1>1, <1>2 DEF Different
<1>4. DOMAIN d = Paths /\ d[p] = disk[p]
  BY <1>3 DEF IsWritten
<1> HIDE DEF a
<1>5. a.text = NoFile => d[a.path] # NoFile
  BY <1>2, <1>4
<1> DEFINE e == [d EXCEPT ![a.path] = a.text]
<1>6. Perform(Done(d), a) = Done(e)
  BY <1>5, ChangeIsMade
<1>7. /\ DOMAIN e = Paths /\ e[p] = a.text
      /\ \A q \in Paths : q # p => e[q] = d[q]
  BY <1>2, <1>4
<1> HIDE DEF e
<1>8. ASSUME NEW i \in 1 .. (k + 1), NEW q \in Named(files[i])
      PROVE  e[q] = Planned(disk, files[i]).text
  <2>1. CASE i = k + 1
    BY <1>2, <1>7, <2>1 DEF a
  <2>2. CASE i \in 1 .. k
    <3>1. d[q] = Planned(disk, files[i]).text /\ q # p
      BY <1>3, <2>2 DEF IsWritten
    <3>2. IsSection(files[i])
      BY <1>1, <2>2 DEF IsFiles
    <3>3. q \in Paths
      BY <3>2 DEF IsSection, Sides, Named
    <3> QED
      BY <1>7, <3>1, <3>3
  <2> QED
    BY <1>1, <2>1, <2>2
<1>9. ASSUME NEW q \in Paths, \A i \in 1 .. (k + 1) : q \notin Named(files[i])
      PROVE  e[q] = disk[q]
  <2>1. q # p /\ \A i \in 1 .. k : q \notin Named(files[i])
    BY <1>1, <1>2, <1>9
  <2>2. d[q] = disk[q]
    BY <2>1 DEF IsWritten
  <2> QED
    BY <1>7, <2>1, <2>2
<1> QED
  BY <1>6, <1>7, <1>8, <1>9 DEF IsWritten, a

LEMMA FilesWritten ==
  ASSUME NEW disk, IsDisk(disk), NEW files, IsFiles(files), Different(files),
         \A i \in 1 .. Len(files) : Planned(disk, files[i]).ok
  PROVE  \E w : /\ ApplyFiles(disk, files) = {w[Len(files)]} \cup Breaks(w, disk, files)
                /\ \A k \in 0 .. Len(files) :
                     \E d : IsWritten(d, disk, files, k) /\ w[k] = Done(d)
<1> DEFINE n == Len(files)
           W(w, k) == \E d : IsWritten(d, disk, files, k) /\ w[k] = Done(d)
<1>1. n \in Nat /\ DOMAIN files = 1 .. n
  BY DEF IsFiles
<1>2. PICK w : /\ \A i \in 0 .. n :
                    w[i] = IF i = 0 THEN Done(disk) ELSE Perform(w[i - 1], Planned(disk, files[i]))
               /\ ApplyFiles(disk, files) = {w[n]} \cup Breaks(w, disk, files)
  BY <1>1, WrittenIs DEF IsWriting
<1> DEFINE T == {k \in 0 .. n : ~ W(w, k)}
<1>3. W(w, 0)
  <2>1. w[0] = Done(disk)
    BY <1>1, <1>2
  <2>2. IsWritten(disk, disk, files, 0)
    BY DEF IsWritten, IsDisk
  <2> QED
    BY <2>1, <2>2
<1>4. ASSUME NEW k \in Nat, k + 1 <= n, W(w, k)
      PROVE  W(w, k + 1)
  <2>1. k + 1 \in 0 .. n /\ k + 1 \in 1 .. n /\ k + 1 # 0 /\ k + 1 - 1 = k
    <3> HIDE DEF n, W
    <3> QED
      BY <1>1, <1>4
  <2>2. w[k + 1] = Perform(w[k], Planned(disk, files[k + 1]))
    <3> HIDE DEF n, W
    <3> QED
      BY <1>2, <2>1
  <2>3. PICK d : IsWritten(d, disk, files, k) /\ w[k] = Done(d)
    BY <1>4
  <2>4. Planned(disk, files[k + 1]).ok
    BY <2>1
  <2> QED
    BY <1>4, <2>2, <2>3, <2>4, SectionWritten
<1> HIDE DEF n, W
<1>5. T = {}
  <2> SUFFICES ASSUME T # {} PROVE FALSE
    OBVIOUS
  <2>1. T \in SUBSET Nat
    BY <1>1
  <2>2. PICK i \in T : \A k \in T : i <= k
    BY <2>1, LeastNatural
  <2>3. i # 0 /\ i \in 0 .. n /\ ~ W(w, i)
    BY <1>3, <2>2
  <2>4. i - 1 \in 0 .. n /\ i - 1 \in Nat /\ (i - 1) + 1 = i /\ i <= n /\ ~ (i <= i - 1)
    BY <1>1, <2>3
  <2>5. W(w, i - 1)
    BY <2>2, <2>4
  <2> DEFINE j == i - 1
  <2>6. j \in Nat /\ j + 1 <= n /\ j + 1 = i /\ W(w, j)
    BY <2>4, <2>5
  <2> HIDE DEF j
  <2>7. W(w, j + 1)
    BY <1>4, <2>6
  <2> QED
    BY <2>3, <2>6, <2>7
<1>6. \A k \in 0 .. n : W(w, k)
  BY <1>5
<1> QED
  BY <1>2, <1>6 DEF W, n

\* A disk on which the writing broke off at section k + 1.
IsBrokenOff(d, disk, files, k) ==
  /\ DOMAIN d = Paths
  /\ \A i \in 1 .. k : \A p \in Named(files[i]) : d[p] = Planned(disk, files[i]).text
  /\ \A p \in Named(files[k + 1]) : d[p] \in {disk[p], Torn}
  /\ \A p \in Paths : (\A i \in 1 .. (k + 1) : p \notin Named(files[i])) => d[p] = disk[p]

LEMMA SectionBrokenOff ==
  ASSUME NEW disk, IsDisk(disk), NEW files, IsFiles(files), Different(files),
         NEW k \in Nat, k + 1 <= Len(files), Planned(disk, files[k + 1]).ok,
         NEW d, IsWritten(d, disk, files, k),
         NEW r \in BrokenOff(Done(d), Planned(disk, files[k + 1]))
  PROVE  ~ r.ok /\ IsBrokenOff(r.disk, disk, files, k)
<1> DEFINE f == files[k + 1]
           a == Planned(disk, f)
<1>1. /\ k + 1 \in 1 .. Len(files) /\ k + 1 \in DOMAIN files /\ IsSection(f)
      /\ \A i \in 1 .. k : i \in DOMAIN files /\ i # k + 1 /\ i \in 1 .. (k + 1)
      /\ k + 1 \in 1 .. (k + 1)
  <2>1. Len(files) \in Nat /\ DOMAIN files = 1 .. Len(files)
    BY DEF IsFiles
  <2>2. k + 1 \in 1 .. Len(files) /\ \A i \in 1 .. k : i \in 1 .. Len(files) /\ i # k + 1
    BY <2>1
  <2>3. IsSection(f)
    BY <2>2 DEF IsFiles
  <2>4. (\A i \in 1 .. k : i \in 1 .. (k + 1)) /\ k + 1 \in 1 .. (k + 1)
    OBVIOUS
  <2> HIDE DEF f
  <2> QED
    BY <2>1, <2>2, <2>3, <2>4
<1>2. PICK p \in Paths : Named(f) = {p} /\ a.path = p
  BY <1>1, PlanIs
<1>3. \A i \in 1 .. k : p \notin Named(files[i])
  BY <1>1, <1>2 DEF Different
<1>4. DOMAIN d = Paths /\ d[p] = disk[p]
  BY <1>3 DEF IsWritten
<1> HIDE DEF a
<1>5. PICK text \in {d[p], Torn} : r = Refused([d EXCEPT ![p] = text])
  <2>1. Done(d).disk = d
    BY DEF Done
  <2>2. BrokenOff(Done(d), a)
          \subseteq {[disk |-> [d EXCEPT ![p] = text], ok |-> FALSE] : text \in {d[p], Torn}}
    BY <1>2, <2>1 DEF BrokenOff
  <2> QED
    BY <2>2 DEF Refused, a
<1> DEFINE e == [d EXCEPT ![p] = text]
<1>6. r.disk = e /\ ~ r.ok
  BY <1>5 DEF Refused
<1>7. /\ DOMAIN e = Paths /\ e[p] \in {disk[p], Torn}
      /\ \A q \in Paths : q # p => e[q] = d[q]
  BY <1>4
<1> HIDE DEF e
<1>8. ASSUME NEW i \in 1 .. k, NEW q \in Named(files[i])
      PROVE  e[q] = Planned(disk, files[i]).text
  <2>1. d[q] = Planned(disk, files[i]).text /\ q # p
    BY <1>3 DEF IsWritten
  <2>2. IsSection(files[i])
    BY <1>1 DEF IsFiles
  <2>3. q \in Paths
    BY <2>2 DEF IsSection, Sides, Named
  <2> QED
    BY <1>7, <2>1, <2>3
<1>9. ASSUME NEW q \in Paths, \A i \in 1 .. (k + 1) : q \notin Named(files[i])
      PROVE  e[q] = disk[q]
  <2>1. q # p /\ \A i \in 1 .. k : q \notin Named(files[i])
    BY <1>1, <1>2, <1>9
  <2>2. d[q] = disk[q]
    BY <2>1 DEF IsWritten
  <2> QED
    BY <1>7, <2>1, <2>2
<1> QED
  BY <1>2, <1>6, <1>7, <1>8, <1>9 DEF IsBrokenOff, f

\* A patch of any number of different files, where one does not fit, changes none of them.
\* Where all fit, it can change all: each is then what was planned for it from the clone as
\* it was, the files that are gone are those that the patch removes, and no other file has
\* changed.  Where a write fails, the files before it have changed and those after it have
\* not, and the one itself is as it was or torn.
THEOREM AnyFilesAllOrNothing ==
  ASSUME NEW disk, IsDisk(disk), NEW files \in Seq(Sections), Different(files)
  PROVE  LET results == ApplyFiles(disk, files)
             fit == \A i \in DOMAIN files : Planned(disk, files[i]).ok
         IN  /\ ~ fit => results = {Refused(disk)}
             /\ fit =>
                  /\ \E r \in results : r.ok
                  /\ \A r \in results :
                       IF r.ok
                         THEN /\ IsWritten(r.disk, disk, files, Len(files))
                              /\ \A i \in DOMAIN files : \A p \in Named(files[i]) :
                                   r.disk[p] = NoFile <=> files[i].new = NoFile
                         ELSE \E k \in 0 .. (Len(files) - 1) : IsBrokenOff(r.disk, disk, files, k)
<1> DEFINE results == ApplyFiles(disk, files)
           n == Len(files)
<1>1. n \in Nat /\ DOMAIN files = 1 .. n /\ \A i \in 1 .. n : files[i] \in Sections
  BY LenProperties, ElementOfSeq
<1>2. \A f \in Sections : IsSection(f)
  BY DEF Sections, IsSection
<1>3. IsFiles(files)
  BY <1>1, <1>2 DEF IsFiles
<1>4. CASE \E i \in 1 .. n : ~ Planned(disk, files[i]).ok
  <2>1. results = {Refused(disk)}
    BY <1>1, <1>4, RefusedIs
  <2> QED
    BY <1>1, <1>4, <2>1
<1>5. CASE \A i \in 1 .. n : Planned(disk, files[i]).ok
  <2>1. PICK w : /\ results = {w[n]} \cup Breaks(w, disk, files)
                 /\ \A k \in 0 .. n : \E d : IsWritten(d, disk, files, k) /\ w[k] = Done(d)
    BY <1>3, <1>5, FilesWritten
  <2>2. n \in 0 .. n
    BY <1>1
  <2>3. PICK d : IsWritten(d, disk, files, n) /\ w[n] = Done(d)
    BY <2>1, <2>2
  <2>4. Done(d).ok /\ Done(d).disk = d
    BY DEF Done
  <2>5. ASSUME NEW i \in DOMAIN files, NEW p \in Named(files[i])
        PROVE  d[p] = NoFile <=> files[i].new = NoFile
    <3>1. d[p] = Planned(disk, files[i]).text
      BY <1>1, <2>3 DEF IsWritten
    <3>2. IsSection(files[i]) /\ Planned(disk, files[i]).ok
      BY <1>1, <1>2, <1>5
    <3>3. Planned(disk, files[i]).text = NoFile <=> files[i].new = NoFile
      BY <3>2, PlanIs
    <3> QED
      BY <3>1, <3>3
  <2>6. ASSUME NEW r \in Breaks(w, disk, files)
        PROVE  ~ r.ok /\ \E k \in 0 .. (n - 1) : IsBrokenOff(r.disk, disk, files, k)
    <3>1. PICK i \in 1 .. n : r \in BrokenOff(w[i - 1], Planned(disk, files[i]))
      BY <2>6 DEF Breaks
    <3> DEFINE k == i - 1
    <3>2. k \in Nat /\ k \in 0 .. n /\ k \in 0 .. (n - 1) /\ k + 1 = i /\ k + 1 <= n
      BY <1>1
    <3>3. r \in BrokenOff(w[k], Planned(disk, files[k + 1]))
      BY <3>1, <3>2
    <3> HIDE DEF k
    <3>4. PICK e : IsWritten(e, disk, files, k) /\ w[k] = Done(e)
      BY <2>1, <3>2
    <3>5. Planned(disk, files[k + 1]).ok
      BY <1>5, <3>2
    <3>6. ~ r.ok /\ IsBrokenOff(r.disk, disk, files, k)
      BY <1>3, <3>2, <3>3, <3>4, <3>5, SectionBrokenOff
    <3> QED
      BY <3>2, <3>6
  <2> HIDE DEF results
  <2>7. w[n] \in results /\ w[n].ok
    BY <2>1, <2>3, <2>4
  <2>8. ASSUME NEW r \in results
        PROVE  IF r.ok
                 THEN /\ IsWritten(r.disk, disk, files, n)
                      /\ \A i \in DOMAIN files : \A p \in Named(files[i]) :
                           r.disk[p] = NoFile <=> files[i].new = NoFile
                 ELSE \E k \in 0 .. (n - 1) : IsBrokenOff(r.disk, disk, files, k)
    <3>1. CASE r = w[n]
      BY <2>3, <2>4, <2>5, <3>1
    <3>2. CASE r \in Breaks(w, disk, files)
      BY <2>6, <3>2
    <3> QED
      BY <2>1, <3>1, <3>2
  <2> QED
    BY <1>1, <1>5, <2>7, <2>8 DEF results
<1> QED
  BY <1>4, <1>5

-----------------------------------------------------------------------------
(* Patches of any number of edits *)

\* A text with one edit of many.
Made(text, e) == Spliced(text, e.at, e.was, e.by)

AsItIs == [u \in Seq(Lines) |-> u]
MadeFirst(made, e) == [u \in Seq(Lines) |-> made[Made(u, e)]]

\* What edits make of texts, the last of them first.  Only the lines after an edit move
\* when it is made, so each is made where it says.
BackToFront(edits) ==
  LET made[i \in 0 .. Len(edits)] ==
        IF i = 0 THEN AsItIs ELSE MadeFirst(made[i - 1], edits[i])
  IN  made

Edited(text, edits) == BackToFront(edits)[Len(edits)][text]

\* The diff of a file in which edits are made.
DiffOf(p, text, edits) ==
  LET diff[i \in 0 .. Len(edits)] ==
        IF i = 0 THEN FileLines(p, p) ELSE diff[i - 1] \o HunkLines(text, edits[i])
  IN  diff[Len(edits)]

\* The edits of a text come in the order of its lines, with a line between two of them.
IsEdits(text, edits) ==
  /\ Len(edits) \in Nat \ {0} /\ \A i \in 1 .. Len(edits) : IsEdit(text, edits[i])
  /\ \A i \in 1 .. (Len(edits) - 1) : Apart(edits[i], edits[i + 1])

IsBackToFront(made, edits) ==
  /\ \A u : IsText(u) => made[0][u] = u
  /\ \A i \in 1 .. Len(edits) : \A u : IsText(u) => made[i][u] = made[i - 1][Made(u, edits[i])]

LEMMA BackToFrontIs ==
  ASSUME NEW edits, Len(edits) \in Nat
  PROVE  IsBackToFront(BackToFront(edits), edits)
<1> DEFINE g(f, n) == [i \in 0 .. n |->
                      IF i = 0 THEN AsItIs ELSE MadeFirst(f[i - 1], edits[i])]
           T == {n \in Nat : ~ \E f : f = g(f, n)}
<1>1. 0 \notin T
  <2> DEFINE f == [i \in 0 .. 0 |-> AsItIs]
  <2>1. g(f, 0) = f
    OBVIOUS
  <2> HIDE DEF f
  <2> QED
    BY <2>1
<1>2. ASSUME NEW n \in Nat, n \notin T PROVE n + 1 \notin T
  <2> DEFINE x(f) == [i \in 0 .. (n + 1) |-> IF i = n + 1 THEN MadeFirst(f[n], edits[n + 1]) ELSE f[i]]
  <2>1. PICK f : f = g(f, n)
    BY <1>2
  <2>2. \A i \in 0 .. n : f[i] = IF i = 0 THEN AsItIs ELSE MadeFirst(f[i - 1], edits[i])
    BY <2>1
  <2>3. g(x(f), n + 1) = x(f)
    <3> SUFFICES ASSUME NEW i \in 0 .. (n + 1) PROVE g(x(f), n + 1)[i] = x(f)[i]
      OBVIOUS
    <3>1. CASE i = 0
      <4>1. i \in 0 .. n /\ i # n + 1
        BY <3>1
      <4>2. x(f)[i] = f[i] /\ f[i] = AsItIs /\ g(x(f), n + 1)[i] = AsItIs
        BY <2>2, <3>1, <4>1
      <4> QED
        BY <4>2
    <3>2. CASE i \in 1 .. n
      <4>1. i - 1 \in 0 .. n /\ i \in 0 .. n /\ i # 0 /\ i # n + 1 /\ i - 1 # n + 1
        BY <3>2
      <4>2. x(f)[i] = f[i] /\ x(f)[i - 1] = f[i - 1]
        BY <4>1
      <4> QED
        BY <2>2, <4>1, <4>2
    <3>3. CASE i = n + 1
      <4>1. i - 1 = n /\ n \in 0 .. (n + 1) /\ n # n + 1 /\ i # 0
        BY <3>3
      <4>2. x(f)[n] = f[n] /\ x(f)[i] = MadeFirst(f[n], edits[n + 1])
        BY <3>3, <4>1
      <4>3. g(x(f), n + 1)[i] = MadeFirst(x(f)[i - 1], edits[i])
        BY <4>1
      <4> QED
        BY <3>3, <4>1, <4>2, <4>3
    <3> QED
      BY <3>1, <3>2, <3>3
  <2> QED
    BY <2>3
<1>3. T = {}
  <2> SUFFICES ASSUME T # {} PROVE FALSE
    OBVIOUS
  <2>1. T \in SUBSET Nat
    OBVIOUS
  <2> HIDE DEF T
  <2>2. PICK n \in T : \A k \in T : n <= k
    BY <2>1, LeastNatural
  <2>3. n - 1 \in Nat /\ n - 1 \notin T /\ (n - 1) + 1 = n
    BY <1>1, <2>1, <2>2
  <2> QED
    BY <1>2, <2>2, <2>3
<1>4. \E f : f = g(f, Len(edits))
  BY <1>3
<1> DEFINE made == BackToFront(edits)
<1>5. made = g(made, Len(edits))
  BY <1>4 DEF BackToFront
<1>6. \A i \in 0 .. Len(edits) :
        made[i] = IF i = 0 THEN AsItIs ELSE MadeFirst(made[i - 1], edits[i])
  BY <1>5
<1> HIDE DEF made
<1>a. 0 \in 0 .. Len(edits) /\ \A i \in 1 .. Len(edits) : i \in 0 .. Len(edits) /\ i # 0
  OBVIOUS
<1>7. made[0] = AsItIs /\ \A i \in 1 .. Len(edits) : made[i] = MadeFirst(made[i - 1], edits[i])
  BY <1>6, <1>a
<1>8. \A u, h, e : IsText(u) => AsItIs[u] = u /\ MadeFirst(h, e)[u] = h[Made(u, e)]
  BY DEF AsItIs, MadeFirst, IsText
<1>9. IsBackToFront(made, edits)
  <2>1. ASSUME NEW u, IsText(u) PROVE made[0][u] = u
    BY <1>7, <1>8, <2>1
  <2>2. ASSUME NEW i \in 1 .. Len(edits), NEW u, IsText(u)
        PROVE  made[i][u] = made[i - 1][Made(u, edits[i])]
    <3>1. made[i] = MadeFirst(made[i - 1], edits[i])
      BY <1>7
    <3> QED
      BY <1>8, <2>2, <3>1
  <2> QED
    BY <2>1, <2>2 DEF IsBackToFront
<1> QED
  BY <1>9 DEF made

LEMMA DiffIs ==
  ASSUME NEW p, NEW text, NEW edits, Len(edits) \in Nat
  PROVE  \E diff : /\ \A i \in 0 .. Len(edits) :
                         diff[i] = IF i = 0 THEN FileLines(p, p)
                                   ELSE diff[i - 1] \o HunkLines(text, edits[i])
                  /\ DiffOf(p, text, edits) = diff[Len(edits)]
<1> DEFINE g(f, n) == [i \in 0 .. n |->
                      IF i = 0 THEN FileLines(p, p) ELSE f[i - 1] \o HunkLines(text, edits[i])]
           T == {n \in Nat : ~ \E f : f = g(f, n)}
<1>1. 0 \notin T
  <2> DEFINE f == [i \in 0 .. 0 |-> FileLines(p, p)]
  <2>1. g(f, 0) = f
    OBVIOUS
  <2> HIDE DEF f
  <2> QED
    BY <2>1
<1>2. ASSUME NEW n \in Nat, n \notin T PROVE n + 1 \notin T
  <2> DEFINE x(f) == [i \in 0 .. (n + 1) |-> IF i = n + 1 THEN f[n] \o HunkLines(text, edits[n + 1]) ELSE f[i]]
  <2>1. PICK f : f = g(f, n)
    BY <1>2
  <2>2. \A i \in 0 .. n : f[i] = IF i = 0 THEN FileLines(p, p) ELSE f[i - 1] \o HunkLines(text, edits[i])
    BY <2>1
  <2>3. g(x(f), n + 1) = x(f)
    <3> SUFFICES ASSUME NEW i \in 0 .. (n + 1) PROVE g(x(f), n + 1)[i] = x(f)[i]
      OBVIOUS
    <3>1. CASE i = 0
      <4>1. i \in 0 .. n /\ i # n + 1
        BY <3>1
      <4>2. x(f)[i] = f[i] /\ f[i] = FileLines(p, p) /\ g(x(f), n + 1)[i] = FileLines(p, p)
        BY <2>2, <3>1, <4>1
      <4> QED
        BY <4>2
    <3>2. CASE i \in 1 .. n
      <4>1. i - 1 \in 0 .. n /\ i \in 0 .. n /\ i # 0 /\ i # n + 1 /\ i - 1 # n + 1
        BY <3>2
      <4>2. x(f)[i] = f[i] /\ x(f)[i - 1] = f[i - 1]
        BY <4>1
      <4> QED
        BY <2>2, <4>1, <4>2
    <3>3. CASE i = n + 1
      <4>1. i - 1 = n /\ n \in 0 .. (n + 1) /\ n # n + 1 /\ i # 0
        BY <3>3
      <4>2. x(f)[n] = f[n] /\ x(f)[i] = f[n] \o HunkLines(text, edits[n + 1])
        BY <3>3, <4>1
      <4>3. g(x(f), n + 1)[i] = x(f)[i - 1] \o HunkLines(text, edits[i])
        BY <4>1
      <4> QED
        BY <3>3, <4>1, <4>2, <4>3
    <3> QED
      BY <3>1, <3>2, <3>3
  <2> QED
    BY <2>3
<1>3. T = {}
  <2> SUFFICES ASSUME T # {} PROVE FALSE
    OBVIOUS
  <2>1. T \in SUBSET Nat
    OBVIOUS
  <2> HIDE DEF T
  <2>2. PICK n \in T : \A k \in T : n <= k
    BY <2>1, LeastNatural
  <2>3. n - 1 \in Nat /\ n - 1 \notin T /\ (n - 1) + 1 = n
    BY <1>1, <2>1, <2>2
  <2> QED
    BY <1>2, <2>2, <2>3
<1>4. \E f : f = g(f, Len(edits))
  BY <1>3
<1>5. PICK f : f = g(f, Len(edits)) /\ DiffOf(p, text, edits) = f[Len(edits)]
  BY <1>4 DEF DiffOf
<1>6. \A i \in 0 .. Len(edits) :
        f[i] = IF i = 0 THEN FileLines(p, p) ELSE f[i - 1] \o HunkLines(text, edits[i])
  BY <1>5
<1> QED
  BY <1>5, <1>6

\* What a text has after its first m lines is at the end of another one.
KeepsTail(u, v, m) ==
  /\ IsText(v) /\ m \in Nat /\ m <= Len(u) /\ Len(u) - m <= Len(v)
  /\ \A j \in (m + 1) .. Len(u) : v[j + (Len(v) - Len(u))] = u[j]

LEMMA SpliceKeepsTail ==
  ASSUME NEW u, IsText(u), NEW b, IsText(b), NEW p \in Nat, NEW k \in Nat, p + k <= Len(u)
  PROVE  KeepsTail(u, Spliced(u, p, k, b), p + k) /\ Len(Spliced(u, p, k, b)) = Len(u) + (Len(b) - k)
<1> DEFINE v == Spliced(u, p, k, b)
           n == Len(u)
           m == Len(b)
<1>1. n \in Nat /\ m \in Nat /\ p + k <= n
  BY TextLength
<1>2. /\ IsText(v) /\ Len(v) = n - k + m
      /\ \A i \in 1 .. (n - k + m) :
           v[i] = IF i <= p THEN u[i] ELSE IF i <= p + m THEN b[i - p] ELSE u[i - m + k]
  <2>1. IsSpliced(v, u, p, k, b)
    BY SplicedText
  <2> QED
    BY <2>1 DEF IsSpliced
<1> HIDE DEF v, n, m
<1>3. Len(v) = n + (m - k) /\ n - (p + k) <= Len(v)
  BY <1>1, <1>2
<1>4. ASSUME NEW j \in (p + k + 1) .. n PROVE v[j + (Len(v) - n)] = u[j]
  <2> DEFINE i == j + (m - k)
  <2>1. i \in 1 .. (n - k + m) /\ ~ (i <= p) /\ ~ (i <= p + m) /\ i - m + k = j
    BY <1>1
  <2>2. Len(v) - n = m - k
    <3>1. \A x, y, z \in Int : x = y + z => x - y = z
      OBVIOUS
    <3>2. n \in Int /\ m - k \in Int /\ Len(v) \in Int
      BY <1>1, <1>3
    <3> QED
      BY <1>3, <3>1, <3>2
  <2>3. j + (Len(v) - n) = i
    BY <2>2
  <2> HIDE DEF i
  <2> QED
    BY <1>2, <2>1, <2>3
<1> QED
  BY <1>1, <1>2, <1>3, <1>4 DEF KeepsTail, v, n, m

LEMMA SplicedLength ==
  ASSUME NEW u, IsText(u), NEW b, IsText(b), NEW p \in Nat, NEW k \in Nat, p + k <= Len(u)
  PROVE  Len(Spliced(u, p, k, b)) = Len(u) + (Len(b) - k)
BY SpliceKeepsTail

\* The numbers of three texts, each of which ends with what the one before has.
LEMMA TailsMeet ==
  ASSUME NEW n \in Nat, NEW n1 \in Nat, NEW n2 \in Nat, NEW m \in Nat, NEW m1 \in Nat,
         m <= n, n - m <= n1, m1 <= n1, n1 - m1 <= n2, m1 <= m + (n1 - n)
  PROVE  /\ n - m <= n2
         /\ \A j \in (m + 1) .. n : /\ j + (n1 - n) \in (m1 + 1) .. n1
                                    /\ (j + (n1 - n)) + (n2 - n1) = j + (n2 - n)
OBVIOUS

LEMMA TailIsKept ==
  ASSUME NEW u, IsText(u), NEW v, NEW w, NEW m, NEW k, KeepsTail(u, v, m), KeepsTail(v, w, k),
         k <= m + (Len(v) - Len(u))
  PROVE  KeepsTail(u, w, m)
<1> DEFINE n == Len(u)
           n1 == Len(v)
           n2 == Len(w)
<1>1. n \in Nat /\ n1 \in Nat /\ n2 \in Nat
  BY TextLength DEF KeepsTail
<1>2. /\ m \in Nat /\ m <= n /\ n - m <= n1
      /\ \A j \in (m + 1) .. n : v[j + (n1 - n)] = u[j]
  BY DEF KeepsTail
<1>3. /\ IsText(w) /\ k \in Nat /\ k <= n1 /\ n1 - k <= n2 /\ k <= m + (n1 - n)
      /\ \A j \in (k + 1) .. n1 : w[j + (n2 - n1)] = v[j]
  BY DEF KeepsTail
<1> HIDE DEF n, n1, n2
<1>4. /\ n - m <= n2
      /\ \A j \in (m + 1) .. n : /\ j + (n1 - n) \in (k + 1) .. n1
                                 /\ (j + (n1 - n)) + (n2 - n1) = j + (n2 - n)
  <2> HIDE <1>3
  <2>1. k \in Nat /\ k <= n1 /\ n1 - k <= n2 /\ k <= m + (n1 - n)
    BY <1>3
  <2> QED
    BY <1>1, <1>2, <2>1, TailsMeet
<1>5. ASSUME NEW j \in (m + 1) .. n PROVE w[j + (n2 - n)] = u[j]
  <2> DEFINE i == j + (n1 - n)
  <2>1. i \in (k + 1) .. n1 /\ i + (n2 - n1) = j + (n2 - n)
    BY <1>4
  <2>2. v[i] = u[j]
    BY <1>2
  <2> HIDE DEF i
  <2> QED
    BY <1>3, <2>1, <2>2
<1> QED
  BY <1>2, <1>3, <1>4, <1>5 DEF KeepsTail, n, n2

-----------------------------------------------------------------------------
(* What the hunks of many edits make of a text *)

\* Where the k-th edit ends, and where the beginning of the text does.
EndOf(edits, k) == IF k = 0 THEN 0 ELSE edits[k].at + edits[k].was

\* What the first k edits make of any text that is long enough: the rest of it stays as it
\* is, and a replacement in the rest may come before or after them.
Lasting(made, edits, k) ==
  \A u : IsText(u) /\ EndOf(edits, k) <= Len(u) => KeepsTail(u, made[k][u], EndOf(edits, k))

Commutes(made, edits, k) ==
  \A u, q, l, c :
    IsText(u) /\ IsText(c) /\ q \in Nat /\ l \in Nat /\ EndOf(edits, k) <= q /\ q + l <= Len(u)
      => Spliced(made[k][u], q + (Len(made[k][u]) - Len(u)), l, c) = made[k][Spliced(u, q, l, c)]

\* Edits with numbers and lines, in the order of the lines.
AreEdits(edits) ==
  /\ Len(edits) \in Nat
  /\ \A i \in 1 .. Len(edits) :
       /\ edits[i].at \in Nat /\ edits[i].was \in Nat /\ IsText(edits[i].by)
       /\ EndOf(edits, i - 1) <= edits[i].at

LEMMA EndIsNat ==
  ASSUME NEW edits, AreEdits(edits), NEW k \in 0 .. Len(edits)
  PROVE  EndOf(edits, k) \in Nat
<1>1. Len(edits) \in Nat
  BY DEF AreEdits
<1>2. CASE k = 0
  BY <1>2 DEF EndOf
<1>3. CASE k # 0
  <2>1. k \in 1 .. Len(edits)
    BY <1>1, <1>3
  <2>2. edits[k].at \in Nat /\ edits[k].was \in Nat
    BY <2>1 DEF AreEdits
  <2> QED
    BY <1>3, <2>2 DEF EndOf
<1> QED
  BY <1>2, <1>3

\* One edit more: the text with this edit, and how its rest has moved.
LEMMA NextMade ==
  ASSUME NEW edits, AreEdits(edits), NEW k \in Nat, k + 1 <= Len(edits),
         NEW u, IsText(u), EndOf(edits, k + 1) <= Len(u)
  PROVE  LET e == edits[k + 1]
             v == Made(u, e)
         IN  /\ IsText(v) /\ KeepsTail(u, v, EndOf(edits, k + 1))
             /\ e.at \in Nat /\ e.was \in Nat /\ IsText(e.by) /\ EndOf(edits, k + 1) = e.at + e.was
             /\ Len(v) = Len(u) + (Len(e.by) - e.was)
             /\ EndOf(edits, k) \in Nat /\ EndOf(edits, k) <= e.at
<1> DEFINE e == edits[k + 1]
           v == Made(u, e)
<1>1. k + 1 \in 1 .. Len(edits) /\ k \in 0 .. Len(edits) /\ (k + 1) - 1 = k /\ k + 1 # 0
  BY DEF AreEdits
<1>2. e.at \in Nat /\ e.was \in Nat /\ IsText(e.by) /\ EndOf(edits, k) <= e.at
  BY <1>1 DEF AreEdits
<1>3. EndOf(edits, k + 1) = e.at + e.was
  BY <1>1 DEF EndOf
<1>4. EndOf(edits, k) \in Nat
  BY <1>1, EndIsNat
<1> HIDE DEF e
<1>5. e.at + e.was <= Len(u)
  BY <1>3
<1>6. KeepsTail(u, v, e.at + e.was) /\ Len(v) = Len(u) + (Len(e.by) - e.was)
  BY <1>2, <1>5, SpliceKeepsTail DEF Made
<1>7. IsText(v)
  BY <1>6 DEF KeepsTail
<1> QED
  BY <1>2, <1>3, <1>4, <1>6, <1>7 DEF e

LEMMA LastingGrows ==
  ASSUME NEW edits, AreEdits(edits), NEW made, IsBackToFront(made, edits),
         NEW k \in Nat, k + 1 <= Len(edits), Lasting(made, edits, k)
  PROVE  Lasting(made, edits, k + 1)
<1> SUFFICES ASSUME NEW u, IsText(u), EndOf(edits, k + 1) <= Len(u)
             PROVE  KeepsTail(u, made[k + 1][u], EndOf(edits, k + 1))
  BY DEF Lasting
<1> DEFINE e == edits[k + 1]
           v == Made(u, e)
           a == EndOf(edits, k)
           b == EndOf(edits, k + 1)
<1>1. /\ IsText(v) /\ KeepsTail(u, v, b) /\ e.at \in Nat /\ e.was \in Nat /\ IsText(e.by)
      /\ b = e.at + e.was /\ Len(v) = Len(u) + (Len(e.by) - e.was) /\ a \in Nat /\ a <= e.at
  BY NextMade
<1>2. made[k + 1][u] = made[k][v]
  <2>1. k + 1 \in 1 .. Len(edits) /\ (k + 1) - 1 = k
    BY DEF AreEdits
  <2> QED
    BY <2>1 DEF IsBackToFront
<1>3. Len(u) \in Nat /\ Len(v) \in Nat /\ Len(e.by) \in Nat
  BY <1>1, TextLength
<1>s. b <= Len(u)
  OBVIOUS
<1> HIDE DEF a, b, v, e
<1>4. a <= Len(v) /\ a <= b + (Len(v) - Len(u))
  <2> DEFINE x == e.at
             y == e.was
             m == Len(e.by)
             n == Len(u)
             l == Len(v)
  <2>1. /\ x \in Nat /\ y \in Nat /\ m \in Nat /\ n \in Nat /\ l \in Nat /\ a \in Nat
        /\ b = x + y /\ l = n + (m - y) /\ a <= x /\ b <= n
    BY <1>1, <1>3, <1>s
  <2> HIDE DEF x, y, m, n, l
  <2>2. a <= l /\ a <= b + (l - n)
    BY <2>1
  <2> QED
    BY <2>2 DEF n, l
<1>5. KeepsTail(v, made[k][v], a)
  BY <1>1, <1>4 DEF Lasting, a
<1>6. KeepsTail(u, made[k][v], b)
  BY <1>1, <1>4, <1>5, TailIsKept
<1> QED
  BY <1>2, <1>6 DEF b

LEMMA CommutesAt ==
  ASSUME NEW made, NEW edits, NEW k, Commutes(made, edits, k), NEW x, IsText(x), NEW d, IsText(d),
         NEW y \in Nat, NEW z \in Nat, EndOf(edits, k) <= y, y + z <= Len(x)
  PROVE  Spliced(made[k][x], y + (Len(made[k][x]) - Len(x)), z, d) = made[k][Spliced(x, y, z, d)]
BY DEF Commutes

LEMMA CommutesGrows ==
  ASSUME NEW edits, AreEdits(edits), NEW made, IsBackToFront(made, edits),
         NEW k \in Nat, k + 1 <= Len(edits), Lasting(made, edits, k), Commutes(made, edits, k)
  PROVE  Commutes(made, edits, k + 1)
<1> DEFINE b == EndOf(edits, k + 1)
<1> SUFFICES ASSUME NEW u, NEW q, NEW l, NEW c, IsText(u), IsText(c), q \in Nat, l \in Nat,
                    b <= q, q + l <= Len(u)
             PROVE  Spliced(made[k + 1][u], q + (Len(made[k + 1][u]) - Len(u)), l, c)
                      = made[k + 1][Spliced(u, q, l, c)]
  BY DEF Commutes
<1> DEFINE e == edits[k + 1]
           v == Made(u, e)
           a == EndOf(edits, k)
           r == q + (Len(e.by) - e.was)
           w == made[k][v]
           t == Spliced(u, q, l, c)
<1>0. Len(u) \in Nat
  BY TextLength
<1>00. k + 1 \in 0 .. Len(edits)
  BY DEF AreEdits
<1>01. b \in Nat /\ b <= Len(u)
  <2>1. b \in Nat
    BY <1>00, EndIsNat
  <2> HIDE DEF b
  <2> QED
    BY <1>0, <2>1
<1>1. /\ IsText(v) /\ e.at \in Nat /\ e.was \in Nat /\ IsText(e.by)
      /\ b = e.at + e.was /\ Len(v) = Len(u) + (Len(e.by) - e.was) /\ a \in Nat /\ a <= e.at
  BY <1>01, NextMade
<1>2. /\ \A x : IsText(x) => made[k + 1][x] = made[k][Made(x, e)]
  <2>1. k + 1 \in 1 .. Len(edits) /\ (k + 1) - 1 = k
    BY DEF AreEdits
  <2> QED
    BY <2>1 DEF IsBackToFront
<1>3. Len(v) \in Nat /\ Len(e.by) \in Nat
  BY <1>1, TextLength
<1>4. IsText(t)
  <2>1. KeepsTail(u, t, q + l)
    BY SpliceKeepsTail
  <2> QED
    BY <2>1 DEF KeepsTail
<1>5. Spliced(v, r, l, c) = Made(t, e)
  <2>1. Separate(u, e.at, e.was, q, l)
    BY <1>1 DEF Separate
  <2>2. MovesBy(r, q, e.by, e.was)
    BY DEF MovesBy
  <2> HIDE DEF r
  <2> QED
    BY <1>1, <2>1, <2>2, SplicesCommute DEF Made
<1>6. r \in Nat /\ a <= r /\ r + l <= Len(v) /\ a <= Len(v)
  <2> DEFINE x == e.at
             y == e.was
             m == Len(e.by)
             n == Len(u)
             h == Len(v)
  <2>1. /\ x \in Nat /\ y \in Nat /\ m \in Nat /\ n \in Nat /\ h \in Nat /\ a \in Nat /\ q \in Nat /\ l \in Nat
        /\ b = x + y /\ h = n + (m - y) /\ a <= x /\ b <= q /\ q + l <= n /\ r = q + (m - y)
    BY <1>0, <1>1, <1>3
  <2> HIDE DEF x, y, m, n, h, a, b, r
  <2>2. r \in Nat /\ a <= r /\ r + l <= h /\ a <= h
    BY <2>1
  <2> QED
    BY <2>2 DEF h
<1>7. Spliced(w, r + (Len(w) - Len(v)), l, c) = made[k][Spliced(v, r, l, c)]
  <2>1. EndOf(edits, k) <= r
    BY <1>6
  <2> HIDE DEF v, r, a, b, t, e
  <2>2. IsText(v) /\ IsText(c) /\ r \in Nat /\ l \in Nat /\ r + l <= Len(v)
    BY <1>1, <1>6
  <2> QED
    BY <2>1, <2>2, CommutesAt
<1>8. r + (Len(w) - Len(v)) = q + (Len(w) - Len(u))
  <2>1. KeepsTail(v, w, a)
    <3> HIDE DEF v
    <3> QED
      BY <1>1, <1>6 DEF Lasting, a
  <2>2. Len(w) \in Nat
    BY <2>1, TextLength DEF KeepsTail
  <2> DEFINE y == e.was
             m == Len(e.by)
             n == Len(u)
             h == Len(v)
             g == Len(w)
  <2>3. /\ y \in Nat /\ m \in Nat /\ n \in Nat /\ h \in Nat /\ g \in Nat /\ q \in Nat
        /\ h = n + (m - y) /\ r = q + (m - y)
    BY <1>0, <1>1, <1>3, <2>2
  <2> HIDE DEF y, m, n, h, g, r
  <2>4. r + (g - h) = q + (g - n)
    BY <2>3
  <2> QED
    BY <2>4 DEF g, h, n
<1>9. made[k + 1][u] = w /\ made[k + 1][t] = made[k][Made(t, e)]
  BY <1>2, <1>4
<1> QED
  BY <1>5, <1>7, <1>8, <1>9

LEMMA FirstMade ==
  ASSUME NEW edits, NEW made, IsBackToFront(made, edits)
  PROVE  Lasting(made, edits, 0) /\ Commutes(made, edits, 0)
<1>1. \A u : IsText(u) => made[0][u] = u
  BY DEF IsBackToFront
<1>2. EndOf(edits, 0) = 0
  BY DEF EndOf
<1>3. ASSUME NEW u, IsText(u) PROVE KeepsTail(u, u, 0)
  <2> DEFINE n == Len(u)
  <2>1. n \in Nat
    BY <1>3, TextLength
  <2> HIDE DEF n
  <2>2. 0 <= n /\ n - 0 <= n /\ \A j \in (0 + 1) .. n : j + (n - n) = j
    BY <2>1
  <2> QED
    BY <1>3, <2>2 DEF KeepsTail, n
<1>4. Lasting(made, edits, 0)
  BY <1>1, <1>2, <1>3 DEF Lasting
<1>5. ASSUME NEW u, NEW q, NEW l, NEW c, IsText(u), IsText(c), q \in Nat, l \in Nat, q + l <= Len(u)
      PROVE  Spliced(made[0][u], q + (Len(made[0][u]) - Len(u)), l, c) = made[0][Spliced(u, q, l, c)]
  <2>1. made[0][u] = u
    BY <1>1, <1>5
  <2>2. Len(u) \in Nat
    BY <1>5, TextLength
  <2>3. q + (Len(u) - Len(u)) = q
    BY <1>5, <2>2
  <2>4. KeepsTail(u, Spliced(u, q, l, c), q + l)
    BY <1>5, SpliceKeepsTail
  <2>5. made[0][Spliced(u, q, l, c)] = Spliced(u, q, l, c)
    BY <1>1, <2>4 DEF KeepsTail
  <2> QED
    BY <2>1, <2>3, <2>5
<1>6. Commutes(made, edits, 0)
  BY <1>2, <1>5 DEF Commutes
<1> QED
  BY <1>4, <1>6

LEMMA EveryMade ==
  ASSUME NEW edits, AreEdits(edits), NEW made, IsBackToFront(made, edits), NEW k \in 0 .. Len(edits)
  PROVE  Lasting(made, edits, k) /\ Commutes(made, edits, k)
<1> DEFINE n == Len(edits)
           P(i) == Lasting(made, edits, i) /\ Commutes(made, edits, i)
           T == {i \in 0 .. n : ~ P(i)}
<1>1. n \in Nat
  BY DEF AreEdits
<1>2. P(0)
  BY FirstMade
<1>3. ASSUME NEW i \in Nat, i + 1 <= n, P(i)
      PROVE  P(i + 1)
  BY <1>3, LastingGrows, CommutesGrows
<1> HIDE DEF P, n
<1>4. T = {}
  <2> SUFFICES ASSUME T # {} PROVE FALSE
    OBVIOUS
  <2>1. T \in SUBSET Nat
    BY <1>1
  <2>2. PICK i \in T : \A j \in T : i <= j
    BY <2>1, LeastNatural
  <2> DEFINE j == i - 1
  <2>3. i # 0 /\ i \in 0 .. n /\ ~ P(i)
    BY <1>2, <2>2
  <2>4. j \in 0 .. n /\ j \in Nat /\ j + 1 = i /\ j + 1 <= n /\ ~ (i <= j)
    BY <1>1, <2>3
  <2> HIDE DEF j
  <2>5. P(j)
    BY <2>2, <2>4
  <2>6. P(j + 1)
    BY <1>3, <2>4, <2>5
  <2> QED
    BY <2>3, <2>4, <2>6
<1> QED
  BY <1>4 DEF P, n

\* What the edits before it have left is what the hunk of an edit awaits.
LEMMA NextAwaits ==
  ASSUME NEW text, IsText(text), NEW e, IsEdit(text, e), NEW m, NEW now, KeepsTail(text, now, m), m < e.at
  PROVE  /\ Len(now) - Len(text) \in Int /\ e.at - 1 + (Len(now) - Len(text)) \in Nat
         /\ Awaits(text, e, now, Len(now) - Len(text), e.at - 1 + (Len(now) - Len(text)))
<1> DEFINE n == Len(text)
           h == Len(now)
           a == Before(e)
           z == After(text, e)
           shift == h - n
           p == e.at - 1 + shift
<1>1. /\ n \in Nat /\ e.at \in Nat /\ e.was \in Nat /\ e.at + e.was <= n
      /\ z \in Nat /\ z <= 1 /\ (z = 1 => e.at + e.was < n)
  BY EditIs DEF IsText, After
<1>2. /\ IsText(now) /\ m \in Nat /\ m <= n /\ n - m <= h
      /\ \A j \in (m + 1) .. n : now[j + (h - n)] = text[j]
  BY DEF KeepsTail
<1>3. h \in Nat
  BY <1>2, TextLength
<1>4. a = 1
  BY <1>1, <1>2 DEF Before
<1> HIDE DEF n, h, a, z
<1>5. shift \in Int /\ p \in Nat /\ p = e.at - a + shift /\ e.at # 0 /\ h = n + shift
  <2>1. n \in Nat /\ h \in Nat /\ m \in Nat /\ n - m <= h /\ e.at \in Nat
    BY <1>1, <1>2, <1>3
  <2> QED
    BY <1>4, <2>1
<1>6. ASSUME NEW i \in 1 .. (a + e.was + z) PROVE now[p + i] = text[e.at - a + i]
  <2> DEFINE j == e.at - a + i
  <2>1. j \in (m + 1) .. n /\ j + (h - n) = p + i
    <3>1. m \in Nat
      BY <1>2
    <3> QED
      BY <1>1, <1>3, <1>4, <3>1
  <2> HIDE DEF j, p
  <2>2. now[j + (h - n)] = text[j]
    BY <1>2, <2>1
  <2> QED
    BY <2>1, <2>2 DEF j
<1>7. Awaits(text, e, now, shift, p)
  <2> HIDE DEF shift, p
  <2> QED
    BY <1>5, <1>6 DEF Awaits, n, h, a, z
<1> QED
  BY <1>5, <1>7 DEF n, h

LEMMA EditsAre ==
  ASSUME NEW text, IsText(text), NEW edits, IsEdits(text, edits)
  PROVE  /\ AreEdits(edits)
         /\ \A i \in 1 .. Len(edits) : EndOf(edits, i) <= Len(text)
         /\ \A i \in 1 .. Len(edits) : i > 1 => EndOf(edits, i - 1) < edits[i].at
<1> DEFINE n == Len(edits)
<1>1. n \in Nat
  BY DEF IsEdits
<1>2. ASSUME NEW i \in 1 .. n
      PROVE  /\ edits[i].at \in Nat /\ edits[i].was \in Nat /\ IsText(edits[i].by)
             /\ edits[i].at + edits[i].was <= Len(text)
  <2>1. IsEdit(text, edits[i])
    BY DEF IsEdits
  <2> QED
    BY <2>1, EditIs DEF IsText
<1>3. ASSUME NEW i \in 1 .. n, i > 1 PROVE EndOf(edits, i - 1) < edits[i].at
  <2> DEFINE j == i - 1
  <2>1. j \in 1 .. (n - 1) /\ j + 1 = i /\ j # 0
    BY <1>1, <1>3
  <2> HIDE DEF j
  <2>2. Apart(edits[j], edits[j + 1])
    BY <2>1 DEF IsEdits
  <2> QED
    BY <2>1, <2>2 DEF Apart, EndOf, j
<1>4. ASSUME NEW i \in 1 .. n PROVE EndOf(edits, i - 1) <= edits[i].at
  <2>1. CASE i = 1
    <3>1. EndOf(edits, i - 1) = 0
      BY <2>1 DEF EndOf
    <3> QED
      BY <1>2, <3>1
  <2>2. CASE i # 1
    <3>1. i > 1 /\ i - 1 \in 1 .. n
      BY <1>1, <2>2
    <3> DEFINE a == edits[i - 1].at
               b == edits[i - 1].was
    <3>2. EndOf(edits, i - 1) = a + b /\ a \in Nat /\ b \in Nat
      BY <1>2, <3>1 DEF EndOf
    <3>3. EndOf(edits, i - 1) < edits[i].at /\ edits[i].at \in Nat
      BY <1>2, <1>3, <3>1
    <3> HIDE DEF a, b
    <3> QED
      BY <3>2, <3>3
  <2> QED
    BY <2>1, <2>2
<1>5. AreEdits(edits)
  BY <1>1, <1>2, <1>4 DEF AreEdits
<1>6. ASSUME NEW i \in 1 .. n PROVE EndOf(edits, i) <= Len(text)
  BY <1>2 DEF EndOf
<1> QED
  BY <1>3, <1>5, <1>6

\* What the first k hunks have made, with the count of lines they have added.
StateAfter(text, now) == State(now, Len(now) - Len(text))

\* The next hunk makes of it what its edit does.
LEMMA NextHunkApplies ==
  ASSUME NEW text, IsText(text), Len(text) # 0, NEW edits, IsEdits(text, edits),
         NEW made, IsBackToFront(made, edits), NEW k \in Nat, k + 1 <= Len(edits)
  PROVE  ApplyHunk(StateAfter(text, made[k][text]), HunkOf(text, edits[k + 1]))
           = StateAfter(text, made[k + 1][text])
<1> DEFINE n == Len(text)
           e == edits[k + 1]
           now == made[k][text]
           next == made[k + 1][text]
           h == Len(now)
           shift == h - n
           q == e.at + shift
           new == Spliced(now, q, e.was, e.by)
           m == EndOf(edits, k)
<1>1. k \in 0 .. Len(edits) /\ k + 1 \in 1 .. Len(edits) /\ (k + 1) - 1 = k /\ k + 1 > 0
  BY DEF IsEdits
<1>2. AreEdits(edits) /\ EndOf(edits, k + 1) <= n
  BY <1>1, EditsAre
<1>3. IsEdit(text, e)
  BY <1>1 DEF IsEdits
<1>4. /\ n \in Nat /\ e.at \in Nat /\ e.was \in Nat /\ IsText(e.by) /\ e.at + e.was <= n
      /\ m \in Nat /\ m <= e.at
  <2>1. /\ e.at \in Nat /\ e.was \in Nat /\ IsText(e.by) /\ EndOf(edits, k + 1) = e.at + e.was
        /\ m \in Nat /\ m <= e.at
    BY <1>2, NextMade
  <2> HIDE DEF e, m, n
  <2> QED
    BY <1>2, <2>1, TextLength DEF n
<1>5. Lasting(made, edits, k) /\ Commutes(made, edits, k)
  BY <1>1, <1>2, EveryMade
<1> HIDE DEF e, m
<1>6. KeepsTail(text, now, m)
  <2>1. m <= Len(text)
    BY <1>4
  <2> QED
    BY <1>5, <2>1 DEF Lasting, m
<1>7. /\ IsText(now) /\ h \in Nat /\ n - m <= h
  BY <1>6, TextLength DEF KeepsTail
<1>8. new = next
  <2>1. new = made[k][Spliced(text, e.at, e.was, e.by)]
    <3>1. e.at + e.was <= Len(text) /\ EndOf(edits, k) <= e.at
      BY <1>4 DEF m
    <3> QED
      BY <1>4, <1>5, <3>1, CommutesAt
  <2>2. next = made[k][Made(text, e)]
    BY <1>1 DEF IsBackToFront, e
  <2> QED
    BY <2>1, <2>2 DEF Made
<1>9. /\ shift \in Int
      /\ \E p \in Nat : Awaits(text, e, now, shift, p)
  <2>1. CASE k = 0
    <3>1. now = text
      BY <2>1 DEF IsBackToFront
    <3>2. e.at - Before(e) \in Nat /\ Awaits(text, e, text, 0, e.at - Before(e))
      BY <1>3, FirstAwaits
    <3>3. shift = 0
      BY <1>4, <3>1
    <3> QED
      BY <3>1, <3>2, <3>3
  <2>2. CASE k # 0
    <3>1. k + 1 > 1
      BY <2>2
    <3>2. m < e.at
      BY <1>1, <3>1, EditsAre DEF m, e
    <3> QED
      BY <1>3, <1>6, <3>2, NextAwaits
  <2> QED
    BY <2>1, <2>2
<1> HIDE DEF now, h, n, shift, next
<1>10. Len(new) = h + (Len(e.by) - e.was)
  <2>1. q \in Nat /\ q + e.was <= h
    <3> DEFINE x == e.at
               y == e.was
    <3>1. /\ x \in Nat /\ y \in Nat /\ m \in Nat /\ n \in Nat /\ h \in Nat /\ n - m <= h /\ m <= x
          /\ x + y <= n /\ q = x + shift /\ shift = h - n
      BY <1>4, <1>7 DEF shift
    <3> HIDE DEF x, y, q
    <3>2. q \in Nat /\ q + y <= h
      BY <3>1
    <3> QED
      BY <3>2 DEF y
  <2> HIDE DEF q
  <2>2. q \in Nat /\ e.was \in Nat /\ q + e.was <= Len(now) /\ IsText(now) /\ IsText(e.by)
    BY <1>4, <1>7, <2>1 DEF h
  <2>3. Len(Spliced(now, q, e.was, e.by)) = Len(now) + (Len(e.by) - e.was)
    <3> DEFINE y == e.was
               b == e.by
    <3>1. q \in Nat /\ y \in Nat /\ q + y <= Len(now) /\ IsText(now) /\ IsText(b)
      BY <2>2
    <3> HIDE DEF y, b
    <3>2. Len(Spliced(now, q, y, b)) = Len(now) + (Len(b) - y)
      BY <3>1, SplicedLength
    <3> QED
      BY <3>2 DEF y, b
  <2> QED
    BY <2>3 DEF h
<1>11. ApplyHunk(State(now, shift), HunkOf(text, e)) = State(new, shift + Len(e.by) - e.was)
  BY <1>3, <1>7, <1>9, HunkFits
<1>12. shift + Len(e.by) - e.was = Len(new) - n
  <2> DEFINE y == e.was
             b == Len(e.by)
             g == Len(new)
  <2>1. y \in Nat /\ b \in Nat /\ n \in Nat /\ h \in Nat /\ g = h + (b - y) /\ shift = h - n
    BY <1>4, <1>7, <1>10, TextLength DEF shift
  <2> HIDE DEF y, b, g
  <2>2. shift + b - y = g - n
    BY <2>1
  <2> QED
    BY <2>2 DEF y, b, g
<1> HIDE DEF new
<1>13. ApplyHunk(State(now, shift), HunkOf(text, e)) = State(next, Len(next) - n)
  BY <1>8, <1>11, <1>12
<1> QED
  BY <1>13 DEF StateAfter, e, now, next, shift, h, n

\* Every hunk of many fits where it belongs.
LEMMA ManyHunksApply ==
  ASSUME NEW text, IsText(text), Len(text) # 0, NEW edits, IsEdits(text, edits),
         NEW hunks, Len(hunks) = Len(edits), \A i \in 1 .. Len(edits) : hunks[i] = HunkOf(text, edits[i])
  PROVE  ApplyHunks(text, hunks) = StateAfter(text, Edited(text, edits)) /\ IsText(Edited(text, edits))
<1> DEFINE made == BackToFront(edits)
           n == Len(edits)
<1>1. n \in Nat /\ Len(hunks) \in Nat /\ n # 0
  BY DEF IsEdits
<1>2. IsBackToFront(made, edits)
  BY <1>1, BackToFrontIs
<1>3. PICK f : IsApplied(f, text, hunks) /\ ApplyHunks(text, hunks) = f[n]
  BY <1>1, AppliedIs
<1>4. f[0] = State(text, 0) /\ \A i \in 1 .. n : f[i] = ApplyHunk(f[i - 1], HunkOf(text, edits[i]))
  <2>1. 0 \in 0 .. n /\ \A i \in 1 .. n : i \in 0 .. n /\ i # 0
    BY <1>1
  <2>2. \A i \in 0 .. n : f[i] = IF i = 0 THEN State(text, 0) ELSE ApplyHunk(f[i - 1], hunks[i])
    BY <1>3 DEF IsApplied
  <2> QED
    BY <2>1, <2>2
<1> HIDE DEF made
<1> DEFINE P(i) == f[i] = StateAfter(text, made[i][text])
           T == {i \in 0 .. n : ~ P(i)}
<1>5. P(0)
  <2>1. made[0][text] = text
    BY <1>2 DEF IsBackToFront
  <2>2. Len(text) - Len(text) = 0
    BY TextLength
  <2> QED
    BY <1>4, <2>1, <2>2 DEF StateAfter
<1>6. ASSUME NEW i \in Nat, i + 1 <= n, P(i)
      PROVE  P(i + 1)
  <2>1. i + 1 \in 1 .. n /\ (i + 1) - 1 = i
    <3> HIDE DEF n, P
    <3> QED
      BY <1>1, <1>6
  <2>2. f[i + 1] = ApplyHunk(f[i], HunkOf(text, edits[i + 1]))
    BY <1>4, <2>1
  <2>3. i + 1 <= Len(edits)
    BY <1>6
  <2> HIDE DEF n
  <2>4. ApplyHunk(StateAfter(text, made[i][text]), HunkOf(text, edits[i + 1]))
          = StateAfter(text, made[i + 1][text])
    BY <1>2, <2>3, NextHunkApplies
  <2> QED
    BY <1>6, <2>2, <2>4
<1> HIDE DEF P, n
<1>7. T = {}
  <2> SUFFICES ASSUME T # {} PROVE FALSE
    OBVIOUS
  <2>1. T \in SUBSET Nat
    BY <1>1
  <2>2. PICK i \in T : \A j \in T : i <= j
    BY <2>1, LeastNatural
  <2> DEFINE j == i - 1
  <2>3. i # 0 /\ i \in 0 .. n /\ ~ P(i)
    BY <1>5, <2>2
  <2>4. j \in 0 .. n /\ j \in Nat /\ j + 1 = i /\ j + 1 <= n /\ ~ (i <= j)
    BY <1>1, <2>3
  <2> HIDE DEF j
  <2>5. P(j)
    BY <2>2, <2>4
  <2>6. P(j + 1)
    BY <1>6, <2>4, <2>5
  <2> QED
    BY <2>3, <2>4, <2>6
<1>8. P(n) /\ n \in 0 .. n /\ n \in 1 .. n
  BY <1>1, <1>7
<1>9. made[n][text] = Edited(text, edits)
  BY DEF Edited, made, n
<1>10. IsText(made[n][text])
  <2>1. AreEdits(edits) /\ EndOf(edits, n) <= Len(text)
    BY <1>8, EditsAre DEF n
  <2>2. Lasting(made, edits, n)
    BY <1>2, <1>8, <2>1, EveryMade DEF n
  <2> QED
    BY <2>1, <2>2 DEF Lasting, KeepsTail
<1> QED
  BY <1>3, <1>8, <1>9, <1>10 DEF P

-----------------------------------------------------------------------------
(* What is read of the diff of many edits *)

HunksUpTo(text, edits, k) == [i \in 1 .. k |-> HunkOf(text, edits[i])]
HunksIn(text, edits, n) == {HunkOf(text, edits[i]) : i \in 1 .. n}

LEMMA HunksAre ==
  ASSUME NEW text, NEW edits, NEW n \in Nat, NEW k \in 0 .. n
  PROVE  /\ HunksUpTo(text, edits, k) \in Seq(HunksIn(text, edits, n))
         /\ Len(HunksUpTo(text, edits, k)) = k
<1> DEFINE S == HunksIn(text, edits, n)
           s == HunksUpTo(text, edits, k)
<1>1. k \in Nat /\ 1 .. k \subseteq 1 .. n
  OBVIOUS
<1>2. s \in [1 .. k -> S]
  BY <1>1 DEF HunksUpTo, HunksIn
<1> HIDE DEF S, s
<1>3. s \in Seq(S)
  <2>1. \E m \in Nat : s \in [1 .. m -> S]
    BY <1>1, <1>2
  <2>2. Seq(S) = UNION {[1 .. m -> S] : m \in Nat}
    BY SeqDef
  <2> QED
    BY <2>1, <2>2, Zenon
<1>4. Len(s) = k
  <2>1. Len(s) \in Nat /\ DOMAIN s = 1 .. Len(s)
    BY <1>3, LenProperties
  <2>2. DOMAIN s = 1 .. k
    BY <1>2
  <2> QED
    BY <1>1, <2>1, <2>2, SameBound
<1> QED
  BY <1>3, <1>4 DEF S, s

LEMMA HunkIsAdded ==
  ASSUME NEW text, NEW edits, NEW k \in Nat
  PROVE  Append(HunksUpTo(text, edits, k), HunkOf(text, edits[k + 1])) = HunksUpTo(text, edits, k + 1)
<1> DEFINE n == k + 1
           S == HunksIn(text, edits, n)
           s == HunksUpTo(text, edits, k)
           t == HunksUpTo(text, edits, n)
           x == HunkOf(text, edits[n])
           a == Append(s, x)
<1>1. n \in Nat /\ k \in 0 .. n /\ n \in 0 .. n /\ n \in 1 .. n
  OBVIOUS
<1>2. /\ \A i \in 1 .. k : s[i] = HunkOf(text, edits[i])
      /\ \A i \in 1 .. n : t[i] = HunkOf(text, edits[i])
  BY DEF HunksUpTo
<1>3. s \in Seq(S) /\ Len(s) = k /\ t \in Seq(S) /\ Len(t) = n
  <2> HIDE DEF n
  <2> QED
    BY <1>1, HunksAre
<1>4. x \in S
  BY <1>1 DEF HunksIn
<1> HIDE DEF S, s, t, x
<1>5. /\ a \in Seq(S) /\ Len(a) = k + 1 /\ a[k + 1] = x
      /\ \A i \in 1 .. k : a[i] = s[i]
  BY <1>3, <1>4, AppendProperties
<1> HIDE DEF a
<1>6. \A i \in 1 .. n : i \in 1 .. k \/ i = k + 1
  OBVIOUS
<1>7. \A i \in 1 .. n : a[i] = t[i]
  <2> SUFFICES ASSUME NEW i \in 1 .. n PROVE a[i] = t[i]
    OBVIOUS
  <2>1. CASE i \in 1 .. k
    BY <1>2, <1>5, <2>1
  <2>2. CASE i = k + 1
    BY <1>2, <1>5, <2>2 DEF x
  <2> QED
    BY <1>6, <2>1, <2>2
<1>8. a = t
  BY <1>3, <1>5, <1>7, SeqEqual
<1> QED
  BY <1>8 DEF a, s, t, x

IsDiffOf(d, p, text, edits) ==
  /\ d[0] = FileLines(p, p)
  /\ \A i \in 1 .. Len(edits) : d[i] = d[i - 1] \o HunkLines(text, edits[i])

LEMMA PartsOfDiff ==
  ASSUME NEW p \in Paths, NEW text, IsText(text), NEW edits, IsEdits(text, edits),
         NEW d, IsDiffOf(d, p, text, edits), NEW k \in 0 .. Len(edits)
  PROVE  IsPart(d[k])
<1> DEFINE n == Len(edits)
           T == {i \in 0 .. n : ~ IsPart(d[i])}
<1>1. n \in Nat /\ 1 \in 1 .. n /\ \A i \in 1 .. n : IsEdit(text, edits[i])
  BY DEF IsEdits
<1>2. IsPart(d[0])
  BY <1>1, PartsOfPatch DEF IsDiffOf
<1> HIDE DEF n
<1>3. T = {}
  <2> SUFFICES ASSUME T # {} PROVE FALSE
    OBVIOUS
  <2>1. T \in SUBSET Nat
    BY <1>1
  <2>2. PICK i \in T : \A j \in T : i <= j
    BY <2>1, LeastNatural
  <2>3. i # 0 /\ i \in 0 .. n /\ ~ IsPart(d[i])
    BY <1>2, <2>2
  <2>4. i - 1 \in 0 .. n /\ i \in 1 .. n /\ ~ (i <= i - 1)
    BY <1>1, <2>3
  <2>5. IsPart(d[i - 1])
    BY <2>2, <2>4
  <2>6. IsPart(HunkLines(text, edits[i]))
    BY <1>1, <2>4, PartsOfPatch
  <2>7. d[i] = d[i - 1] \o HunkLines(text, edits[i])
    BY <2>4 DEF IsDiffOf, n
  <2> QED
    BY <2>3, <2>5, <2>6, <2>7, PartsJoin
<1> QED
  BY <1>3 DEF n

\* What was appended first is at the beginning of the whole.
LEMMA BeginningsPlaced ==
  ASSUME NEW p \in Paths, NEW text, IsText(text), NEW edits, IsEdits(text, edits),
         NEW d, IsDiffOf(d, p, text, edits), NEW k \in 0 .. Len(edits), IsPlain(d[Len(edits)])
  PROVE  /\ Placed(d[Len(edits)], 0, d[k])
         /\ k # 0 => /\ Placed(d[Len(edits)], End(0, d[k - 1]), HunkLines(text, edits[k]))
                     /\ End(0, d[k]) = End(End(0, d[k - 1]), HunkLines(text, edits[k]))
<1> DEFINE n == Len(edits)
           diff == d[n]
           T == {i \in 0 .. n : ~ Placed(diff, 0, d[n - i])}
<1>1. n \in Nat /\ \A i \in 1 .. n : IsEdit(text, edits[i])
  BY DEF IsEdits
<1>2. \A i \in 0 .. n : IsPart(d[i])
  BY PartsOfDiff
<1>3. IsDiff(diff) /\ Placed(diff, 0, diff)
  BY <1>1, <1>2, WholePlaced
<1>4. \A i \in 1 .. n : d[i] = d[i - 1] \o HunkLines(text, edits[i])
  BY DEF IsDiffOf
<1> HIDE DEF n, diff
<1>5. ASSUME NEW i \in 1 .. n, Placed(diff, 0, d[i])
      PROVE  /\ Placed(diff, 0, d[i - 1]) /\ Placed(diff, End(0, d[i - 1]), HunkLines(text, edits[i]))
             /\ End(0, d[i]) = End(End(0, d[i - 1]), HunkLines(text, edits[i]))
  <2>1. IsPart(HunkLines(text, edits[i]))
    BY <1>1, PartsOfPatch
  <2>2. i - 1 \in 0 .. n
    BY <1>1
  <2> DEFINE s == d[i - 1]
             t == HunkLines(text, edits[i])
  <2>3. IsPart(s) /\ IsPart(t) /\ Placed(diff, 0, s \o t) /\ d[i] = s \o t
    BY <1>2, <1>4, <1>5, <2>1, <2>2
  <2> HIDE DEF s, t
  <2>4. Placed(diff, 0, s) /\ Placed(diff, End(0, s), t) /\ End(0, s \o t) = End(End(0, s), t)
    BY <1>3, <2>3, PartsFollow
  <2> QED
    BY <2>3, <2>4 DEF s, t
<1>6. T = {}
  <2> SUFFICES ASSUME T # {} PROVE FALSE
    OBVIOUS
  <2>1. T \in SUBSET Nat
    BY <1>1
  <2>2. PICK i \in T : \A j \in T : i <= j
    BY <2>1, LeastNatural
  <2>3. n - 0 = n
    BY <1>1
  <2>4. i # 0 /\ i \in 0 .. n /\ ~ Placed(diff, 0, d[n - i])
    BY <1>3, <2>2, <2>3 DEF diff
  <2> DEFINE j == i - 1
             m == n - j
  <2>5. j \in 0 .. n /\ m \in 1 .. n /\ m - 1 = n - i /\ ~ (i <= j)
    BY <1>1, <2>4
  <2> HIDE DEF j
  <2>6. Placed(diff, 0, d[m])
    BY <2>2, <2>5
  <2> HIDE DEF m
  <2>7. Placed(diff, 0, d[m - 1])
    BY <1>5, <2>5, <2>6
  <2> QED
    BY <2>4, <2>5, <2>7
<1>7. Placed(diff, 0, d[k])
  <2> DEFINE i == n - k
  <2>1. i \in 0 .. n /\ n - i = k
    BY <1>1 DEF n
  <2> HIDE DEF i
  <2> QED
    BY <1>6, <2>1
<1>8. ASSUME k # 0
      PROVE  /\ Placed(diff, End(0, d[k - 1]), HunkLines(text, edits[k]))
             /\ End(0, d[k]) = End(End(0, d[k - 1]), HunkLines(text, edits[k]))
  <2>1. k \in 1 .. n
    BY <1>1, <1>8 DEF n
  <2> QED
    BY <1>5, <1>7, <2>1
<1> QED
  BY <1>7, <1>8 DEF diff, n

\* The diff grows by one hunk after the other.
LEMMA DiffIsMade ==
  ASSUME NEW p \in Paths, NEW text, NEW edits, IsEdits(text, edits)
  PROVE  \E d : IsDiffOf(d, p, text, edits) /\ DiffOf(p, text, edits) = d[Len(edits)]
<1> DEFINE n == Len(edits)
<1>0. n \in Nat
  BY DEF IsEdits
<1>1. \E d : /\ \A i \in 0 .. Len(edits) :
                  d[i] = IF i = 0 THEN FileLines(p, p) ELSE d[i - 1] \o HunkLines(text, edits[i])
             /\ DiffOf(p, text, edits) = d[Len(edits)]
  BY <1>0, DiffIs
<1>2. PICK d : /\ \A i \in 0 .. Len(edits) :
                    d[i] = IF i = 0 THEN FileLines(p, p) ELSE d[i - 1] \o HunkLines(text, edits[i])
               /\ DiffOf(p, text, edits) = d[Len(edits)]
  BY <1>1
<1>3. 0 \in 0 .. n /\ \A i \in 1 .. n : i \in 0 .. n /\ i # 0
  BY <1>0
<1>4. IsDiffOf(d, p, text, edits)
  BY <1>2, <1>3 DEF IsDiffOf
<1> QED
  BY <1>2, <1>4

LEMMA DiffBegins ==
  ASSUME NEW p \in Paths, NEW text, IsText(text), NEW edits, IsEdits(text, edits),
         AsPrinted(DiffOf(p, text, edits))
  PROVE  Begins(DiffOf(p, text, edits)) /\ IsPlain(DiffOf(p, text, edits))
<1> DEFINE n == Len(edits)
<1>1. n \in Nat /\ n \in 0 .. n /\ 0 \in 0 .. n /\ IsEdit(text, edits[1])
  BY DEF IsEdits
<1>2. PICK d : IsDiffOf(d, p, text, edits) /\ DiffOf(p, text, edits) = d[n]
  BY DiffIsMade
<1> DEFINE diff == d[n]
<1>3. IsPart(diff)
  BY <1>1, <1>2, PartsOfDiff
<1>4. IsPlain(diff)
  BY <1>2, <1>3, PlainIs
<1>5. Placed(diff, 0, d[0])
  BY <1>1, <1>2, <1>4, BeginningsPlaced
<1> HIDE DEF diff
<1>6. Len(diff) > 0 /\ diff[1].tag = "---"
  <2>1. d[0] = FileLines(p, p)
    BY <1>2 DEF IsDiffOf
  <2>2. Len(d[0]) = 2 /\ d[0][1] = [tag |-> "---", content |-> p]
    BY <1>1, <2>1, PartsOfPatch
  <2>3. 1 \in 1 .. 2 /\ 0 + 1 = 1 /\ Len(diff) \in Nat
    BY <1>3, LenProperties DEF IsPart
  <2>4. diff[1] = d[0][1]
    BY <1>5, <2>2, <2>3 DEF Placed
  <2>5. Len(diff) > 0
    BY <1>5, <2>2, <2>3 DEF Placed
  <2> QED
    BY <2>2, <2>4, <2>5
<1> QED
  BY <1>2, <1>3, <1>4, <1>6 DEF Begins, diff, n

LEMMA ManyParse ==
  ASSUME NEW p \in Paths, NEW text, IsText(text), NEW edits, IsEdits(text, edits),
         IsPlain(DiffOf(p, text, edits))
  PROVE  Parse(DiffOf(p, text, edits)) =
           [files |-> Section(p, HunksUpTo(text, edits, Len(edits))), ok |-> TRUE]
<1> DEFINE n == Len(edits)
<1>1. n \in Nat /\ n # 0 /\ 1 \in 1 .. n /\ n \in 0 .. n /\ 0 \in 0 .. n
      /\ \A i \in 1 .. n : IsEdit(text, edits[i])
  BY DEF IsEdits
<1>2. PICK d : IsDiffOf(d, p, text, edits) /\ DiffOf(p, text, edits) = d[n]
  BY DiffIsMade
<1> DEFINE diff == d[n]
           r == Reading(diff)
           P(i) == IsOpen(r, End(0, d[i]), Section(p, HunksUpTo(text, edits, i - 1)), HunkOf(text, edits[i]))
           T == {i \in 1 .. n : ~ P(i)}
<1>3. IsPart(diff)
  BY <1>1, <1>2, PartsOfDiff
<1>p. IsPlain(diff)
  BY <1>2
<1>4. IsDiff(diff) /\ End(0, diff) = Len(diff)
  BY <1>3, <1>p, WholePlaced
<1>5. IsReading(r, diff)
  BY <1>4, ReadingIs DEF IsDiff
<1>6. \A i \in 1 .. n : /\ Placed(diff, End(0, d[i - 1]), HunkLines(text, edits[i]))
                        /\ End(0, d[i]) = End(End(0, d[i - 1]), HunkLines(text, edits[i]))
  <2> SUFFICES ASSUME NEW i \in 1 .. n
               PROVE  /\ Placed(diff, End(0, d[i - 1]), HunkLines(text, edits[i]))
                      /\ End(0, d[i]) = End(End(0, d[i - 1]), HunkLines(text, edits[i]))
    OBVIOUS
  <2>1. i \in 0 .. Len(edits) /\ i # 0
    BY <1>1
  <2> QED
    BY <1>2, <1>p, <2>1, BeginningsPlaced
<1>7. Placed(diff, 0, d[0])
  BY <1>1, <1>2, <1>p, BeginningsPlaced
<1> HIDE DEF r, diff, n
<1>8. r[2] = Between(Section(p, <<>>), Hunk(0, <<>>, <<>>)) /\ End(0, d[0]) = 2
  <2>1. d[0] = FileLines(p, p)
    BY <1>2 DEF IsDiffOf
  <2>2. Len(FileLines(p, p)) = 2
    BY <1>1, PartsOfPatch
  <2>3. r[2] = Between(Section(p, <<>>), Hunk(0, <<>>, <<>>))
    BY <1>1, <1>4, <1>5, <1>7, <2>1, FileIsRead
  <2> QED
    BY <2>1, <2>2, <2>3 DEF End
<1>9. HunksUpTo(text, edits, 0) = <<>>
  <2>2. Len(HunksUpTo(text, edits, 0)) = 0 /\ HunksUpTo(text, edits, 0) \in Seq(HunksIn(text, edits, n))
    BY <1>1, HunksAre
  <2> QED
    BY <2>2, EmptySeq
<1>10. P(1)
  <2>1. 1 - 1 = 0
    OBVIOUS
  <2>2. Placed(diff, 2, HunkLines(text, edits[1])) /\ End(0, d[1]) = End(2, HunkLines(text, edits[1]))
    BY <1>1, <1>6, <1>8, <2>1
  <2>3. IsOpen(r, End(2, HunkLines(text, edits[1])), Section(p, <<>>), HunkOf(text, edits[1]))
    BY <1>1, <1>4, <1>5, <1>8, <2>2, NextHunkReads
  <2> QED
    BY <1>9, <2>1, <2>2, <2>3
<1>11. ASSUME NEW i \in 1 .. n, i + 1 \in 1 .. n, P(i)
       PROVE  P(i + 1)
  <2>1. (i + 1) - 1 = i /\ i - 1 \in Nat /\ (i - 1) + 1 = i
    OBVIOUS
  <2> DEFINE j == i + 1
             k == End(0, d[i])
             hunks == HunksUpTo(text, edits, i - 1)
  <2>2. /\ Placed(diff, k, HunkLines(text, edits[j])) /\ End(0, d[j]) = End(k, HunkLines(text, edits[j]))
        /\ IsEdit(text, edits[j])
    BY <1>1, <1>6, <1>11, <2>1
  <2>3. IsOpen(r, k, Section(p, hunks), HunkOf(text, edits[i]))
    BY <1>11
  <2> HIDE DEF k, hunks, j
  <2>4. IsOpen(r, End(k, HunkLines(text, edits[j])), Section(p, Append(hunks, HunkOf(text, edits[i]))),
               HunkOf(text, edits[j]))
    BY <1>4, <1>5, <2>2, <2>3, NextHunkReads
  <2>5. Append(hunks, HunkOf(text, edits[i])) = HunksUpTo(text, edits, i)
    <3> DEFINE h == i - 1
    <3>1. h \in Nat /\ h + 1 = i
      BY <2>1
    <3> HIDE DEF h
    <3>2. Append(HunksUpTo(text, edits, h), HunkOf(text, edits[h + 1])) = HunksUpTo(text, edits, h + 1)
      BY <3>1, HunkIsAdded
    <3> QED
      BY <3>1, <3>2 DEF hunks, h
  <2> QED
    BY <2>1, <2>2, <2>4, <2>5 DEF j
<1> HIDE DEF P
<1>12. T = {}
  <2> SUFFICES ASSUME T # {} PROVE FALSE
    OBVIOUS
  <2>1. T \in SUBSET Nat
    BY <1>1
  <2>2. PICK i \in T : \A j \in T : i <= j
    BY <2>1, LeastNatural
  <2>3. i # 1 /\ i \in 1 .. n /\ ~ P(i)
    BY <1>10, <2>2
  <2> DEFINE j == i - 1
  <2>4. j \in 1 .. n /\ j + 1 = i /\ j + 1 \in 1 .. n /\ ~ (i <= j)
    BY <1>1, <2>3
  <2> HIDE DEF j
  <2>5. P(j)
    BY <2>2, <2>4
  <2>6. P(j + 1)
    BY <1>11, <2>4, <2>5
  <2> QED
    BY <2>3, <2>4, <2>6
<1>13. P(n)
  <2>1. n \in 1 .. n
    BY <1>1
  <2> QED
    BY <1>12, <2>1
<1>14. IsOpen(r, Len(diff), Section(p, HunksUpTo(text, edits, n - 1)), HunkOf(text, edits[n]))
  BY <1>4, <1>13 DEF P, diff
<1>15. Parse(diff) =
         [files |-> Section(p, Append(HunksUpTo(text, edits, n - 1), HunkOf(text, edits[n]))), ok |-> TRUE]
  BY <1>14, EndIsRead DEF r
<1>16. Append(HunksUpTo(text, edits, n - 1), HunkOf(text, edits[n])) = HunksUpTo(text, edits, n)
  <2> DEFINE h == n - 1
  <2>1. h \in Nat /\ h + 1 = n
    BY <1>1
  <2> HIDE DEF h
  <2>2. Append(HunksUpTo(text, edits, h), HunkOf(text, edits[h + 1])) = HunksUpTo(text, edits, h + 1)
    BY <2>1, HunkIsAdded
  <2> QED
    BY <2>1, <2>2 DEF h
<1> QED
  BY <1>2, <1>15, <1>16 DEF diff, n

\* A patch of one file with any number of hunks, made for any text that has a line and read
\* as it was printed, turns it into the text with all its edits, wherever else the lines of
\* its hunks occur and however much the hunks before have moved the lines of those after
\* them; only a write that fails leaves the file as it was, or torn.
THEOREM AnyEditsLand ==
  ASSUME NEW p \in Paths, NEW text \in Seq(Lines) \ {<<>>}, NEW edits, IsEdits(text, edits),
         AsPrinted(DiffOf(p, text, edits)), ValidPython(Edited(text, edits))
  PROVE  Lands(p, text, DiffOf(p, text, edits), Edited(text, edits))
<1> DEFINE hunks == HunksUpTo(text, edits, Len(edits))
           diff == DiffOf(p, text, edits)
<1>1. IsText(text) /\ Len(text) # 0
  BY EmptySeq DEF IsText
<1>2. Len(edits) \in Nat /\ Len(edits) \in 0 .. Len(edits)
  BY DEF IsEdits
<1>3. Len(hunks) = Len(edits) /\ \A i \in 1 .. Len(edits) : hunks[i] = HunkOf(text, edits[i])
  <2>1. Len(hunks) = Len(edits)
    BY <1>2, HunksAre
  <2> QED
    BY <2>1 DEF HunksUpTo
<1>4. Begins(diff) /\ IsPlain(diff)
  BY <1>1, DiffBegins
<1>5. Parse(diff) = [files |-> Section(p, hunks), ok |-> TRUE]
  BY <1>1, <1>4, ManyParse
<1> HIDE DEF hunks
<1>6. ApplyHunks(text, hunks) = StateAfter(text, Edited(text, edits)) /\ IsText(Edited(text, edits))
  BY <1>1, <1>3, ManyHunksApply
<1> QED
  BY <1>1, <1>4, <1>5, <1>6, PatchLandsIn DEF StateAfter
=============================================================================
