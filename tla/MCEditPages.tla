----------------------------- MODULE MCEditPages ------------------------------
(***************************************************************************)
(* The instance of the edit page for TLC: small sets of everything, two    *)
(* tables with different columns, and lists that are complete at first.    *)
(***************************************************************************)
EXTENDS EditPages

\* Two tables with different columns, one that cannot be parsed, and a file that is too big
\* and of another kind.
Sheet(csv, big, ok, header, rows) ==
  [csv |-> csv, big |-> big, ok |-> ok, headers |-> {header}, rows |-> rows]
MCFiles == {Sheet(TRUE, FALSE, TRUE, "name", 1), Sheet(TRUE, FALSE, TRUE, "street", 1),
            Sheet(TRUE, FALSE, FALSE, "street", 1), Sheet(FALSE, TRUE, TRUE, "street", 1)}

MCFields == <<"", "recipientAddress">>

\* The lists of the tab are complete and within capacity when the page is opened.
MCInit == Init /\ oLists = [version |-> 0, complete |-> TRUE, over |-> FALSE]

MCSpec == MCInit /\ [][Next]_vars /\ Fairness
=============================================================================
