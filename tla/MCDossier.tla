------------------------------ MODULE MCDossier ------------------------------
EXTENDS Dossier

MCRaw(m) == IF m = "long" THEN 3 ELSE 1

\* "long" is made of bytes JSON writes as six.
MCEscaped(m) == IF m = "long" THEN 20 ELSE 3

MCMaxEdits == [claims |-> 2, conformance |-> 3, links |-> 2, assets |-> 2, inbox |-> 4,
               recovery |-> 3, skills |-> 4, manifests |-> 3, new |-> 4]

\* Two comments, and nothing else.
MCInboxEdits == [inbox |-> 2]

\* Two claims, or a claim and then a brief: they are read in this order.
MCSubjects == <<"first", "second">>

MCVocabulary == {"u", "v"}

\* Up to two passages, one of which may render to nothing, or three short ones.
MCBodies == UNION {[1..n -> {<<"u">>, <<"u", "v">>, <<>>}] : n \in 0..2} \cup [1..3 -> {<<"u">>, <<"v">>}]

MCFields == {<<>>, <<<<"u">>>>, <<<<"u", "v">>>>}

MCTooLong == {<<<<"u", "v">>>>}

\* The second release retired a bundle of the first.
MCShips == [r1 |-> {"dossierx", "dossierx-old"}, r2 |-> {"dossierx", "dossierx-new"}]

MCHome == <<[module |-> "m1", facet |-> "contract"], [module |-> "m1", facet |-> "internals"],
            [module |-> "m2", facet |-> "contract"],
            [module |-> "none", facet |-> "none"], [module |-> "none", facet |-> "none"]>>

MCModules == <<"m1", "m2">>

MCCharacters(b) == CASE b = "none" -> 0 [] b \in {"plain", "wide"} -> 1 [] b = "long" -> 2

MCWidth(b) == CASE b = "none" -> 0 [] b = "plain" -> 1 [] b = "wide" -> 3 [] b = "long" -> 2

MCTrees == <<".claude", ".agents">>

\* The linking processes, the source files and the claim files are interchangeable.
MCSymmetry == Permutations(Linkers) \cup Permutations(Files) \cup Permutations(ClaimFiles)
=============================================================================
