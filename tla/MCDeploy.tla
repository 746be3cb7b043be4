------------------------------ MODULE MCDeploy ------------------------------
(***************************************************************************)
(* Small instances of Deploy for TLC.                                      *)
(***************************************************************************)
EXTENDS Deploy, TLC

Meeting(jobs, from, most) == [jobs |-> jobs, from |-> from, most |-> most]

\* Commands with commands, and with a script while the schema changes under
\* it; the importers and the fake seed; the scripts that write pages; those
\* that write reference data.
AllScenes ==
  {Meeting({"alembic"}, {0, 5, 8}, 3),
   Meeting({"alembic", "seed_demo"}, {5}, 3),
   Meeting({"alembic", "seed_content"}, {6}, 3),
   Meeting({"import_erp", "import_user", "seed_fake", "seed_demo"}, {Newest}, 2),
   Meeting({"seed", "seed_content", "seed_bulk", "import_cms"}, {Newest}, 3),
   Meeting({"seed_insurance", "seed_demo", "seed_rich"}, {Newest}, 3)}

Symmetric == Permutations(Operators)
=============================================================================
