-------------------------- MODULE MCMarkdownMerge --------------------------
EXTENDS MarkdownMerge

CONSTANT Word, MaxBase, MaxSide

\* Every text of up to n lines whose last line, when it is not terminated, is
\* not empty: the texts a file can hold.
TextsOf(n, styles) ==
  {[lines |-> ls, ends |-> [i \in 1..k |-> st]] :
     <<ls, k, st>> \in {x \in SeqOf({Fence, Blank, Word}, n) \X (0..n) \X styles :
        /\ x[2] \in {Len(x[1]), Len(x[1]) - 1}
        /\ x[2] < Len(x[1]) => Last(x[1]) # Blank}}

\* The versions the parser refuses for their bytes.
OddTexts ==
  {[lines |-> <<Bom>>, ends |-> <<"lf">>],
   [lines |-> <<Word, Word>>, ends |-> <<"cr", "lf">>],
   [lines |-> <<Word, Word>>, ends |-> <<"crlf", "lf">>],
   [lines |-> <<Word, Word, Word, Word>>, ends |-> <<"lf", "lf", "lf">>]}

MCBaseTexts ==
  TextsOf(MaxBase, {"lf"}) \cup
    {[lines |-> <<Word>>, ends |-> <<"crlf">>],
     [lines |-> <<Word, Blank, Fence>>, ends |-> <<"lf", "lf", "lf">>]}
MCSideTexts == TextsOf(MaxSide, {"lf"}) \cup TextsOf(1, {"crlf"}) \cup OddTexts

=============================================================================
