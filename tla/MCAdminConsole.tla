--------------------------- MODULE MCAdminConsole ----------------------------
(* AdminConsole with interchangeable requests of the member table. *)
EXTENDS AdminConsole, TLC

\* The text matches fewer rows than there are.
SomeMatch == [q \in Queries |-> IF q = NoQuery THEN 3 ELSE 1]

\* Rows that change in place, settings, and lists whose rows are edited have more states
\* than dialogs and other lists.
FewChanges == [v \in Views |-> IF v = "members" THEN 3
                               ELSE IF v \in {"settings", "tenants", "models"} THEN 4
                               ELSE 5]

\* The defaults of getSettings: a week, renewed every day.
Week == [lifetime |-> 3, age |-> 2, sliding |-> TRUE]

Symmetry == Permutations(PatchIds)
  \union Permutations(LoadIds) \union Permutations(WriteIds)
=============================================================================
