---------------------------- MODULE MCBackOffice -----------------------------
EXTENDS BackOffice, TLC

\* Two shifts an hour long, an hour apart.
MCShifts == <<[from |-> 0, to |-> 1], [from |-> 2, to |-> 3]>>

MCCacheTTL == ("profile" :> 2) @@ ("screens" :> 2) @@ ("ip" :> 1)

\* Two provinces; in the old scheme a town and a district of one name, and a district of
\* that name in the other province as well; in the new one two wards of one name.
MCTables ==
  ("new" :> <<<<<<"top", "tinh p">>, <<"top", "tinh q">>>>,
              <<<<"tinh p", "xa a">>, <<"tinh p", "phuong a">>, <<"tinh q", "phuong a">>,
                <<"tinh q", "xa b">>>>>>) @@
  ("old" :> <<<<<<"top", "tinh p">>, <<"top", "tinh q">>>>,
              <<<<"tinh p", "huyen c">>, <<"tinh p", "thi xa c">>, <<"tinh q", "huyen c">>>>,
              <<<<"huyen c", "xa a">>, <<"thi xa c", "phuong a">>>>>>)
MCBareName ==
  "tinh p" :> "p" @@ "tinh q" :> "q" @@ "xa a" :> "a" @@ "phuong a" :> "a" @@
  "xa b" :> "b" @@ "huyen c" :> "c" @@ "thi xa c" :> "c"
MCLetters ==
  "tinh p" :> 6 @@ "tinh q" :> 6 @@ "xa a" :> 4 @@ "phuong a" :> 8 @@ "xa b" :> 4 @@
  "huyen c" :> 7 @@ "thi xa c" :> 8 @@ "p" :> 1 @@ "q" :> 1 @@ "a" :> 1 @@ "b" :> 1 @@ "c" :> 1
MCHints ==
  "new" :> {[phrase |-> "huyen c", place |-> "tinh q", len |-> 1, at |-> 3]} @@ "old" :> {}
MCTexts ==
  "new" :> {<<>>, <<"tinh p">>, <<"huyen c">>, <<"a", "tinh q">>} @@
  "old" :> {<<>>, <<"tinh p">>, <<"c", "tinh p">>, <<"xa a", "huyen c", "tinh q">>}
MCSaid ==
  "new" :> <<{"", "p", "tinh q"}, {"", "phuong a", "b"}>> @@
  "old" :> <<{"", "p", "tinh q"}, {"", "huyen c", "thi xa c"}, {"", "a", "xa a"}>>

CONSTANTS outgoing, incoming, restarted

\* A rollout: two pods of the new release, which has two files more.
MCImage == (outgoing :> 1) @@ (incoming :> 2) @@ (restarted :> 2)
MCFilesOf == <<{1}, {1, 2, 3}>>

\* Nothing tells one clerk from another.
MCSymmetry == Permutations(Clerks)
=============================================================================
