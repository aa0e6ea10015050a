--------------------------- MODULE MarkdownMerge ---------------------------
(***************************************************************************)
(* The three-way merge of a Markdown note (myvault-sync-engine, module     *)
(* conflict::markdown).  A base version is edited on this device and on    *)
(* another one; the merge parses the three texts, refuses what it cannot   *)
(* merge safely, and otherwise applies both edit scripts to the base.      *)
(*                                                                         *)
(* A text is [lines, ends]: the characters of each line as one value, and  *)
(* the terminator that follows it.  The last line of a text may lack its   *)
(* terminator; an empty last line without one is no line at all.           *)
(***************************************************************************)
EXTENDS Naturals, Sequences, FiniteSets, SequencesExt

CONSTANTS BaseTexts,          \* the versions both devices started from
          SideTexts,          \* the versions an edit may leave
          Fence,              \* the line "---"
          Blank,              \* the empty line
          Bom,                \* a line that starts with a byte order mark
          MaxLogicalLines,    \* MAX_MARKDOWN_LOGICAL_LINES
          MaxDiffWork         \* MAX_MARKDOWN_DIFF_WORK

\* The lines of a version are a list.
ASSUME TextsAssumption ==
  \A t \in BaseTexts \cup SideTexts : t.lines \in Seq(Range(t.lines))

VARIABLES baseText, localText, remoteText,   \* the three versions
          aligned,               \* the lines the diffs of local and remote paired
          outcome                \* what the merge answered

mergeVars == <<baseText, localText, remoteText, aligned, outcome>>

Pending == [tag |-> "pending"]
Preserve(issue) == [tag |-> "preserve", issue |-> issue]

---------------------------------------------------------------------------
(* Parsing *)

\* The newline conventions a text uses: saw_lf, saw_crlf, a bare CR.
Terminators(t) == Range(t.ends)

NewlineStyle(t) ==
  IF "crlf" \in Terminators(t) THEN "crlf"
  ELSE IF "lf" \in Terminators(t) THEN "lf" ELSE "none"

FinalNewline(t) == t.ends # <<>> /\ Len(t.ends) = Len(t.lines)

\* Every line after the first one that closes a frontmatter.
Closings(lines) == {i \in 2..Len(lines) : lines[i] = Fence}
OpensFrontmatter(lines) == lines # <<>> /\ lines[1] = Fence

\* The reason a version is refused, in the order the parser looks.
ParseIssue(t) ==
  IF t.lines # <<>> /\ t.lines[1] = Bom THEN "ByteOrderMark"
  ELSE IF "cr" \in Terminators(t) THEN "BareCarriageReturn"
  ELSE IF {"lf", "crlf"} \subseteq Terminators(t) THEN "MixedNewlines"
  ELSE IF Len(t.lines) > MaxLogicalLines THEN "TooManyLogicalLines"
  ELSE IF OpensFrontmatter(t.lines) /\ Closings(t.lines) = {} THEN "UnclosedFrontmatter"
  ELSE "none"

\* The lines of the frontmatter, its two fences included.
Frontmatter(t) ==
  IF OpensFrontmatter(t.lines)
  THEN SubSeq(t.lines, 1, Min(Closings(t.lines)))
  ELSE <<>>

DivergentFrontmatter(b, l, r) ==
  Frontmatter(l) # Frontmatter(b) /\ Frontmatter(r) # Frontmatter(b)

\* The value two of the three versions support; {} when all three differ.
SelectThreeWay(b, l, r) ==
  IF l = r THEN {l} ELSE IF l = b THEN {r} ELSE IF r = b THEN {l} ELSE {}

---------------------------------------------------------------------------
(* Edit scripts *)

Increasing(m) ==
  \A p, q \in m : p # q => \/ p[1] < q[1] /\ p[2] < q[2]
                           \/ q[1] < p[1] /\ q[2] < p[2]

\* What the diff library may answer: the lines it pairs up, one longest
\* common subsequence.  Which one, among equals, is the library's choice.
Alignments(b, c) ==
  LET equal == {p \in (1..Len(b)) \X (1..Len(c)) : b[p[1]] = c[p[2]]}
      common == {m \in SUBSET equal : Increasing(m)}
  IN {m \in common : \A n \in common : Cardinality(n) <= Cardinality(m)}

\* The paired lines and the two ends of the texts; the one that follows p.
Anchors(b, c, m) == m \cup {<<0, 0>>, <<Len(b) + 1, Len(c) + 1>>}
NextAnchor(anchors, p) ==
  CHOOSE q \in anchors : p[1] < q[1] /\ \A x \in anchors : p[1] < x[1] => q[1] <= x[1]

\* The runs between paired lines, each an edit of base lines (start, end].
EditsFromMyers(b, c, m) ==
  LET next(p) == NextAnchor(Anchors(b, c, m), p)
      runs == {p \in Anchors(b, c, m) : p[1] <= Len(b) /\ next(p) # <<p[1] + 1, p[2] + 1>>}
  IN {[start |-> p[1], end |-> next(p)[1] - 1,
       replacement |-> SubSeq(c, p[2] + 1, next(p)[2] - 1)] : p \in runs}

SameRange(e, f) == e.start = f.start /\ e.end = f.end
SameEdit(e, f) ==
  e.start = f.start /\ e.end = f.end /\ e.replacement = f.replacement

Empty(e) == e.start = e.end

\* The overlap test without its first case: two insertions at one place pass.
EditsOverlapUnlessInserts(e, f) ==
  CASE Empty(e) /\ Empty(f)   -> FALSE
    [] Empty(e) /\ ~Empty(f)  -> e.start \in f.start..f.end
    [] ~Empty(e) /\ Empty(f)  -> f.start \in e.start..e.end
    [] OTHER -> e.start < f.end /\ f.start < e.end
EditsOverlap(e, f) ==
  CASE Empty(e) /\ Empty(f)   -> e.start = f.start
    [] Empty(e) /\ ~Empty(f)  -> e.start \in f.start..f.end
    [] ~Empty(e) /\ Empty(f)  -> f.start \in e.start..e.end
    [] OTHER -> e.start < f.end /\ f.start < e.end

NewEdits(le, re) == {f \in re : ~\E e \in le : SameEdit(e, f)}

Overlapping(le, re) == \E e \in le, f \in NewEdits(le, re) : EditsOverlap(e, f)

\* Both scripts, sorted by range; the sort is stable and local came first.
CombineEdits(le, re) ==
  LET before(e, f) == \/ e.start < f.start
                      \/ e.start = f.start /\ e.end < f.end
                      \/ SameRange(e, f) /\ e \in le /\ f \notin le
  IN CHOOSE es \in SetToSeqs(le \cup NewEdits(le, re)) : IsSorted(es, before)

\* One edit, after the base lines between it and the last one; "ok" is lost when
\* it starts before the place the output has reached, or is no range of the base.
ApplyEdit(b, acc, e) ==
  IF ~acc.ok \/ e.start < acc.cursor \/ e.end < e.start \/ e.end > Len(b)
  THEN [acc EXCEPT !.ok = FALSE]
  ELSE [ok |-> TRUE, cursor |-> e.end,
        lines |-> acc.lines \o SubSeq(b, acc.cursor + 1, e.start) \o e.replacement]

ApplyEdits(b, es) ==
  LET end == FoldLeft(LAMBDA acc, e : ApplyEdit(b, acc, e),
                      [ok |-> TRUE, cursor |-> 0, lines |-> <<>>], es)
  IN [end EXCEPT !.lines = end.lines \o SubSeq(b, end.cursor + 1, Len(b))]

---------------------------------------------------------------------------
(* Rendering *)

Renderable(lines, style, final) ==
  style = "none" => Len(lines) <= 1 /\ ~final

\* The characters written, read back as lines and terminators: a final newline
\* after no line at all makes one blank line, and a blank last line that has no
\* terminator of its own is not there.
Render(lines, style, final) ==
  LET shown == IF final /\ lines = <<>> THEN <<Blank>> ELSE lines
      cut == ~final /\ lines # <<>> /\ Last(lines) = Blank
      ends == IF final \/ shown = <<>> THEN Len(shown) ELSE Len(shown) - 1
  IN [lines |-> IF cut THEN Front(shown) ELSE shown, ends |-> [i \in 1..ends |-> style]]

---------------------------------------------------------------------------
(* The merge *)

Result(b, l, r, le, re) ==
  LET style == SelectThreeWay(NewlineStyle(b), NewlineStyle(l), NewlineStyle(r))
      final == SelectThreeWay(FinalNewline(b), FinalNewline(l), FinalNewline(r))
      merged == ApplyEdits(b.lines, CombineEdits(le, re))
      st == CHOOSE s \in style : TRUE
      fn == CHOOSE f \in final : TRUE
  IN IF DivergentFrontmatter(b, l, r) THEN Preserve("DivergentFrontmatter")
     ELSE IF style = {} THEN Preserve("DivergentNewlineStyle")
     ELSE IF final = {} THEN Preserve("DivergentFinalNewline")
     ELSE IF Overlapping(le, re) THEN Preserve("OverlappingEdits")
     ELSE IF ~merged.ok \/ ~Renderable(merged.lines, st, fn) THEN Preserve("InvalidEditScript")
     ELSE [tag |-> "merged", text |-> Render(merged.lines, st, fn),
           lines |-> merged.lines, style |-> st, final |-> fn]

DiffWork(b, l, r) == Len(b.lines) * Max({Len(l.lines), Len(r.lines)})

\* The first version that is refused, base before local before remote.
FirstIssue(b, l, r) ==
  IF ParseIssue(b) # "none" THEN ParseIssue(b)
  ELSE IF ParseIssue(l) # "none" THEN ParseIssue(l) ELSE ParseIssue(r)

MergeMarkdownThreeWay(b, l, r, ml, mr) ==
  IF FirstIssue(b, l, r) # "none" THEN Preserve(FirstIssue(b, l, r))
  ELSE IF DiffWork(b, l, r) > MaxDiffWork THEN Preserve("DiffComplexityLimit")
  ELSE Result(b, l, r, EditsFromMyers(b.lines, l.lines, ml),
              EditsFromMyers(b.lines, r.lines, mr))

---------------------------------------------------------------------------
(* Two devices edit the note, then it is merged. *)

MergeInit ==
  /\ baseText \in BaseTexts
  /\ localText = baseText /\ remoteText = baseText
  /\ aligned = [local |-> {}, remote |-> {}]
  /\ outcome = Pending

\* Neither edit sees the other, so their order is of no account: local first.
EditLocalText(t) ==
  /\ outcome = Pending /\ localText = baseText /\ remoteText = baseText
  /\ localText' = t
  /\ UNCHANGED <<baseText, remoteText, aligned, outcome>>

EditRemoteText(t) ==
  /\ outcome = Pending /\ remoteText = baseText
  /\ remoteText' = t
  /\ UNCHANGED <<baseText, localText, aligned, outcome>>

\* The library is a function: equal inputs get the same alignment.
Merge ==
  /\ outcome = Pending
  /\ \E ml \in Alignments(baseText.lines, localText.lines) :
     \E mr \in Alignments(baseText.lines, remoteText.lines) :
       /\ localText.lines = remoteText.lines => ml = mr
       /\ aligned' = [local |-> ml, remote |-> mr]
       /\ outcome' = MergeMarkdownThreeWay(baseText, localText, remoteText, ml, mr)
  /\ UNCHANGED <<baseText, localText, remoteText>>

MergeNext ==
  \/ \E t \in SideTexts : EditLocalText(t)
  \/ \E t \in SideTexts : EditRemoteText(t)
  \/ Merge

MergeSpec == MergeInit /\ [][MergeNext]_mergeVars

---------------------------------------------------------------------------
Merged == outcome.tag = "merged"
LocalEdits == EditsFromMyers(baseText.lines, localText.lines, aligned.local)
RemoteEdits == EditsFromMyers(baseText.lines, remoteText.lines, aligned.remote)

(* The answer does not depend on which device merges: exchanging the local and
   the remote version gives the same text or the same refusal; when a side is
   refused for what it is, both refuse, and each names the version it saw first
   (merge_markdown_three_way, combine_edits' stable sort). *)
MergeIsSymmetric ==
  outcome # Pending =>
    LET other == MergeMarkdownThreeWay(baseText, remoteText, localText,
                                       aligned.remote, aligned.local)
    IN /\ other.tag = outcome.tag
       /\ {ParseIssue(localText), ParseIssue(remoteText)} = {"none"} => other = outcome

(* A merged note holds every line either device wrote, at the place it wrote it,
   and every base line neither device touched, in the base's order; a line is
   only gone when one of them removed it (combine_edits, apply_edits). *)
EveryEditIsMerged ==
  Merged =>
    LET es == LocalEdits \cup RemoteEdits
        touched(i) == \E e \in es : e.start < i /\ i <= e.end
        written(i) == FlattenSeq(SetToSeq({e.replacement : e \in {f \in es : f.start = i - 1}}))
        n == Len(baseText.lines)
        kept(i) == IF i > n \/ touched(i) THEN <<>> ELSE <<baseText.lines[i]>>
    IN outcome.lines = FlattenSeq([i \in 1..n + 1 |-> written(i) \o kept(i)])

(* A frontmatter that only one device changed is that device's frontmatter in the
   merged note, whole (divergent_frontmatter, apply_edits); TLC refutes it. *)
FrontmatterIsTheChangedOne ==
  Merged => /\ ParseIssue(outcome.text) # "UnclosedFrontmatter"
            /\ Frontmatter(outcome.text) \in
                 SelectThreeWay(Frontmatter(baseText), Frontmatter(localText),
                                Frontmatter(remoteText))
=============================================================================
