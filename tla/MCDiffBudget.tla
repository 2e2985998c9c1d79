---------------------------- MODULE MCDiffBudget ----------------------------
(* Model checking of DiffBudget. One file with every edit script of up to  *)
(* MaxLines lines, and pull requests of up to three files from a few       *)
(* scripts under budgets that are generous, tight and off.                 *)
EXTENDS DiffBudget

CONSTANT MaxLines

Scripts == UNION {[1..n -> {"=", "+", "-"}] : n \in 1..MaxLines}

MCFile(n, s, kind, main, section) ==
  [name |-> n, script |-> s, quotes |-> IF n = 3 THEN {1} ELSE {}, kind |-> kind,
   main |-> main, section |-> section]

Wide == [before |-> 3, after |-> 1, dynamic |-> 5,
         soft |-> 8, hard |-> 6, max |-> 60, prompt |-> 4]

OneFile ==
  {[pr |-> <<MCFile(1, s, "code", TRUE, section)>>, cfg |-> Wide] :
     s \in Scripts, section \in 0..(MaxLines - 3)}

Few == {<<"+", "+", "=", "-">>, <<"=", "-", "=">>,
        <<"+", "=", "=", "=", "=", "-", "+", "+", "+">>}

Budgets ==
  {[Wide EXCEPT !.max = m, !.soft = s] : m \in {20, 26, 32}, s \in {0, 8, 20}}

SomeFiles ==
  {[pr |-> [k \in DOMAIN ss |-> MCFile(k, ss[k], kinds[k], k = 2, 0)], cfg |-> b] :
     ss \in [1..4 -> Few], b \in Budgets,
     kinds \in {<<"code", "code", "code", "code">>, <<"prose", "code", "image", "code">>,
                <<"manifest", "lockfile", "bunlock", "manifest">>,
                <<"manifest", "lockfile", "manifest", "manifest">>}}

MCInputs == OneFile \cup SomeFiles
=============================================================================
