-------------------------------- MODULE Hunks --------------------------------
(***************************************************************************)
(* What the api does to the patch of one file before the model reads it:   *)
(* apps/api/src/legacy/diff/hunk.ts and extend.ts.                         *)
(*                                                                         *)
(* A change to a file is its edit script, one mark per line: "=" kept (a   *)
(* blank in the patch), "+" added, "-" removed. A line is its place in the *)
(* script, so two lines have the same text exactly when they are the same  *)
(* line.                                                                   *)
(***************************************************************************)
EXTENDS Integers, FiniteSets, SequencesExt

Larger(a, b) == IF a < b THEN b ELSE a
Smaller(a, b) == IF a < b THEN a ELSE b

\* The k-th of a set of places, all of them in order, and the elements of a
\* sequence at them: a filter of the code is the Pick of what it lets through.
Nth(I, k) == CHOOSE i \in I : Cardinality({j \in I : j <= i}) = k
Ordered(I) == [k \in 1..Cardinality(I) |-> Nth(I, k)]
Pick(s, I) == [k \in 1..Cardinality(I) |-> s[Nth(I, k)]]

Places(s, marks) == Ordered({i \in DOMAIN s : s[i] \in marks})
BaseFile(s) == Places(s, {"=", "-"})
HeadFile(s) == Places(s, {"=", "+"})

\* What split("\n") makes of the files: after the last newline there is an empty
\* piece, in both of them. A file that does not end with a newline is not met.
Split(s) == Append(s, "=")

\* lines.slice(from - 1, from - 1 + n)
Slice(lines, from, n) ==
  SubSeq(lines, Larger(from, 1), Smaller(from + n - 1, Len(lines)))

\* A hunk of GitHub's patch: the lines from a to b, with the place and the
\* number of lines its header gives in the file before and after. `extra` are
\* the lines extendPatch has added, which are printed as kept.
Hunk(s, a, b) ==
  LET before(mark) == Cardinality({i \in 1..(a - 1) : s[i] # mark})
      size(mark) == Cardinality({i \in a..b : s[i] # mark})
      start(mark) == before(mark) + (IF size(mark) = 0 THEN 0 ELSE 1)
  IN [start1 |-> start("+"), size1 |-> size("+"),
      start2 |-> start("-"), size2 |-> size("-"),
      lines |-> [k \in 1..(b - a + 1) |-> a + k - 1],
      extra |-> {}]

\* The lines within `context` of a change come in runs, each of them a hunk.
ShownLines(s, context) ==
  {i \in DOMAIN s : \E j \in DOMAIN s : s[j] # "=" /\ j - i \in (-context)..context}
RunStarts(shown) == {i \in shown : i - 1 \notin shown}
RunEnd(shown, a) ==
  CHOOSE b \in shown : a <= b /\ a..b \subseteq shown /\ b + 1 \notin shown

\* GitHub's patch, with `context` lines around every change.
Patch(s, context) ==
  LET shown == ShownLines(s, context)
      starts == Ordered(RunStarts(shown))
  IN [k \in DOMAIN starts |-> Hunk(s, starts[k], RunEnd(shown, starts[k]))]

Marked(s, lines, mark) == Pick(lines, {k \in DOMAIN lines : s[lines[k]] = mark})
Unmarked(s, lines, mark) == Pick(lines, {k \in DOMAIN lines : s[lines[k]] # mark})

\* Only the hunks that add a line are kept.
OmitDeletionHunks(s, patch) ==
  Pick(patch, {k \in DOMAIN patch : Marked(s, patch[k].lines, "+") # <<>>})

\* The lines under "__new hunk__", each with the number it is given.
Numbered(s, lines, start) ==
  LET new == Unmarked(s, lines, "-")
  IN [k \in DOMAIN new |-> [number |-> start + k - 1, line |-> new[k]]]

\* decoupleAndConvertToHunksWithLinesNumbers. It passes over every line with the
\* words git uses for a missing newline, those in `quotes` among them, and what
\* is left has to have a change.
ConvertedHunk(s, quotes, h) ==
  LET lines == Pick(h.lines, {k \in DOMAIN h.lines : h.lines[k] \notin quotes})
      removes == Marked(s, lines, "-") # <<>>
  IN [new |-> IF removes \/ Marked(s, lines, "+") # <<>>
                THEN Numbered(s, lines, h.start2) ELSE <<>>,
      old |-> IF removes THEN Unmarked(s, lines, "+") ELSE <<>>]

Converted(s, quotes, patch) ==
  [k \in DOMAIN patch |-> ConvertedHunk(s, quotes, patch[k])]

----------------------------------------------------------------------------
(* extendPatch.                                                            *)

\* calcContextLimits: the header with `before` more lines above and `after`
\* more below, cut at the end of the file.
Limits(h, base, before, after) ==
  LET start1 == Larger(1, h.start1 - before)
      start2 == Larger(1, h.start2 - before)
      size1 == h.size1 + h.start1 - start1 + after
      size2 == h.size2 + h.start2 - start2 + after
      over == Larger(0, start1 - 1 + size1 - Len(base))
  IN [start1 |-> start1, start2 |-> start2,
      size1 |-> IF over > 0 THEN Larger(size1 - over, h.size1) ELSE size1,
      size2 |-> IF over > 0 THEN Larger(size2 - over, h.size2) ELSE size2]

Narrowed(lim, k) ==
  [start1 |-> lim.start1 + k, size1 |-> lim.size1 - k,
   start2 |-> lim.start2 + k, size2 |-> lim.size2 - k]

Above(h, base, lim) == SubSeq(base, lim.start1, h.start1 - 1)
AboveNew(h, head, lim) == SubSeq(head, lim.start2, h.start2 - 1)
Drop(lines, k) == SubSeq(lines, k + 1, Len(lines))

\* The dynamic context reaches up to the line of the section header, if the
\* lines from there on are the same in both files.
Reach(h, base, head, section, before, dynamic, after) ==
  LET wide == Limits(h, base, dynamic, after)
      hits == {j \in DOMAIN Above(h, base, wide) : Above(h, base, wide)[j] = section}
      k == (CHOOSE j \in hits : TRUE) - 1
  IN IF head # <<>> /\ hits # {}
        /\ Drop(Above(h, base, wide), k) = Drop(AboveNew(h, head, wide), k)
       THEN Narrowed(wide, k)
       ELSE Limits(h, base, before, after)

\* Mutant of Agreed: the lines of the old file are taken for those of the new.
AgreedAlways(h, base, head, lim) == lim

\* The limits cut down to the lines above the hunk that the two files share.
Agreed(h, base, head, lim) ==
  LET old == Above(h, base, lim)
      new == AboveNew(h, head, lim)
      ks == {k \in 0..(Len(old) - 1) : Drop(old, k) = Drop(new, k)}
      own == [start1 |-> h.start1, size1 |-> h.size1,
              start2 |-> h.start2, size2 |-> h.size2]
  IN IF head = <<>> \/ old = new THEN lim
     ELSE IF ks = {} THEN own
     ELSE Narrowed(lim, CHOOSE k \in ks : \A m \in ks : k <= m)

ExtendHunk(h, base, head, section, cfg) ==
  LET lim == Agreed(h, base, head,
               Reach(h, base, head, section, cfg.before, cfg.dynamic, cfg.after))
      above == Above(h, base, lim)
      below == Slice(base, h.start1 + h.size1, cfg.after)
  IN [start1 |-> lim.start1, size1 |-> lim.size1,
      start2 |-> lim.start2, size2 |-> lim.size2,
      lines |-> above \o h.lines \o below,
      extra |-> Range(above) \cup Range(below)]

\* `head`: the new content was loaded.
ExtendPatch(s, head, patch, section, cfg) ==
  LET base == BaseFile(Split(s))
      new == IF head /\ HeadFile(s) # <<>> THEN HeadFile(Split(s)) ELSE <<>>
  IN IF BaseFile(s) = <<>> \/ (cfg.before = 0 /\ cfg.after = 0) THEN patch
     ELSE [k \in DOMAIN patch |-> ExtendHunk(patch[k], base, new, section, cfg)]
=============================================================================
