------------------------------- MODULE Wording -------------------------------
(***************************************************************************)
(* What changed in a text, passage by passage and word by word: the diffs  *)
(* behind the panel of an edited claim, the panel of an edited brief, and  *)
(* the preview of a brief's reaudit.  A text is a sequence of passages, a  *)
(* passage a sequence of words; one with no words renders to nothing.      *)
(***************************************************************************)
EXTENDS Naturals, Sequences, FiniteSets, SequencesExt

CONSTANTS
    MaxBlocks,      \* a text with more passages is not aligned
    MaxMarkWords,   \* nor are the words of a passage with more words
    MinSimilarity   \* the share of common words, in percent, that marks need

ASSUME DiffAssumption == MaxBlocks \in Nat /\ MaxMarkWords \in Nat /\ MinSimilarity \in 0..100

\* A passage carries the blank lines after it, which the last has none of.
splitBlocks(text) == [i \in DOMAIN text |-> [words |-> text[i], last |-> i = Len(text)]]

\* The tails of two texts, the empty ones included.
Grid(a, b) == (1..(Len(a) + 1)) \X (1..(Len(b) + 1))

\* The longest common subsequence of the tails of a and b, from each pair on.
lcs(a, b) ==
    LET f[p \in Grid(a, b)] ==
          LET i == p[1]
              j == p[2]
          IN IF i > Len(a) \/ j > Len(b) THEN 0
             ELSE IF a[i] = b[j] THEN f[<<i+1, j+1>>] + 1
             ELSE LET down == f[<<i+1, j>>]
                      right == f[<<i, j+1>>]
                  IN IF down >= right THEN down ELSE right
    IN f

Step(op, x) == [op |-> op, text |-> x]

\* The steps from a to b: equal, and else remove at the pairs in removes, or add.
Walk(a, b, removes) ==
    LET f[p \in Grid(a, b)] ==
          LET i == p[1]
              j == p[2]
          IN IF i > Len(a)
             THEN IF j > Len(b) THEN <<>> ELSE Cons(Step("add", b[j]), f[<<i, j+1>>])
             ELSE IF j > Len(b) THEN Cons(Step("remove", a[i]), f[<<i+1, j>>])
             ELSE IF a[i] = b[j] THEN Cons(Step("equal", a[i]), f[<<i+1, j+1>>])
             ELSE IF p \in removes THEN Cons(Step("remove", a[i]), f[<<i+1, j>>])
             ELSE Cons(Step("add", b[j]), f[<<i, j+1>>])
    IN f[<<1, 1>>]

Pairs(a, b) == (DOMAIN a) \X (DOMAIN b)

\* The table is read the wrong way around.
scriptBackwards(a, b) ==
    LET table == lcs(a, b)
    IN Walk(a, b, {p \in Pairs(a, b) : table[<<p[1]+1, p[2]>>] < table[<<p[1], p[2]+1>>]})

\* On a tie the removal comes first, so that a replacement is a pair.
script(a, b) ==
    LET table == lcs(a, b)
    IN Walk(a, b, {p \in Pairs(a, b) : table[<<p[1]+1, p[2]>>] >= table[<<p[1], p[2]+1>>]})

\* The preview of a reaudit puts the addition first.
wordingDiff(was, now) ==
    LET table == lcs(was, now)
    IN Walk(was, now, {p \in Pairs(was, now) : table[<<p[1], p[2]+1>>] < table[<<p[1]+1, p[2]>>]})

\* The texts of the steps of these kinds.
TextsOf(steps, ops) ==
    FlattenSeq([i \in DOMAIN steps |-> IF steps[i].op \in ops THEN <<steps[i].text>> ELSE <<>>])

-----------------------------------------------------------------------------

Hunk(op, words) == [op |-> op, words |-> words, parts |-> <<>>]

\* Too many passages: one removal and one addition.
coarse(before, after) ==
    (IF before = <<>> THEN <<>> ELSE <<Hunk("remove", FlattenSeq(before))>>)
    \o (IF after = <<>> THEN <<>> ELSE <<Hunk("add", FlattenSeq(after))>>)

Blocks(before, after) ==
    IF before = after
    THEN IF before = <<>> THEN <<>> ELSE <<Hunk("equal", FlattenSeq(before))>>
    ELSE IF Len(before) > MaxBlocks \/ Len(after) > MaxBlocks THEN coarse(before, after)
    ELSE LET steps == script(splitBlocks(before), splitBlocks(after))
         IN [i \in DOMAIN steps |-> Hunk(steps[i].op, steps[i].text.words)]

\* The next step on one side, joined to the part before it when that is of its kind.
push(parts, s) ==
    IF parts # <<>> /\ Last(parts).op = s.op
    THEN [parts EXCEPT ![Len(parts)].text = Append(@, s.text)]
    ELSE Append(parts, Step(s.op, <<s.text>>))

Parts(steps, op) ==
    LET f[i \in 0..Len(steps)] ==
          IF i = 0 THEN <<>>
          ELSE IF steps[i].op \in {"equal", op} THEN push(f[i-1], steps[i]) ELSE f[i-1]
    IN f[Len(steps)]

\* The words of a removal and of the addition that replaces it are aligned when
\* enough of them are common.
markPair(a, b) ==
    IF Len(a) \in 1..MaxMarkWords /\ Len(b) \in 1..MaxMarkWords
       /\ 100 * lcs(a, b)[<<1, 1>>] >= MinSimilarity * (IF Len(a) > Len(b) THEN Len(a) ELSE Len(b))
    THEN <<Parts(script(a, b), "remove"), Parts(script(a, b), "add")>>
    ELSE <<<<>>, <<>>>>

MarkWords(hunks) ==
    [i \in DOMAIN hunks |->
        IF hunks[i].op = "remove" /\ i < Len(hunks) /\ hunks[i+1].op = "add"
        THEN [hunks[i] EXCEPT !.parts = markPair(hunks[i].words, hunks[i+1].words)[1]]
        ELSE IF hunks[i].op = "add" /\ i > 1 /\ hunks[i-1].op = "remove"
        THEN [hunks[i] EXCEPT !.parts = markPair(hunks[i-1].words, hunks[i].words)[2]]
        ELSE hunks[i]]

\* The hunks with something to render.
Rendered(hunks) ==
    FlattenSeq([i \in DOMAIN hunks |-> IF hunks[i].words = <<>> THEN <<>> ELSE <<hunks[i]>>])

\* The passages that render to something, and how many differ: a removal and the
\* addition that replaces it are one.
Passages(before, after) ==
    LET marked == MarkWords(Blocks(before, after))
        hunks == Rendered(marked)
        differs == {i \in DOMAIN hunks :
                      \/ hunks[i].op = "remove"
                      \/ hunks[i].op = "add" /\ (i = 1 \/ hunks[i-1].op # "remove")}
    IN [hunks |-> hunks, changed |-> Cardinality(differs)]

-----------------------------------------------------------------------------
(* Reference definitions. *)

Subsequences(s) ==
    {FlattenSeq([i \in DOMAIN s |-> IF i \in I THEN <<s[i]>> ELSE <<>>]) : I \in SUBSET DOMAIN s}

\* Both sides can be read off a diff, and no diff keeps more.
Faithful(steps, a, b) ==
    /\ TextsOf(steps, {"equal", "remove"}) = a
    /\ TextsOf(steps, {"equal", "add"}) = b
    /\ \A x \in Subsequences(a) \cap Subsequences(b) : Len(x) <= Len(TextsOf(steps, {"equal"}))

\* What the hunks of a panel say one side was, word by word.
Side(hunks, other) ==
    FlattenSeq([i \in DOMAIN hunks |-> IF hunks[i].op = other THEN <<>> ELSE hunks[i].words])

\* The marks inside a hunk leave its words as they are.
Marked(h) == h.parts = <<>> \/ FlattenSeq([i \in DOMAIN h.parts |-> h.parts[i].text]) = h.words
=============================================================================
