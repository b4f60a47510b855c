--------------------------- MODULE OpenFileHandles ---------------------------
(***************************************************************************)
(* The table of open handles (OpenFileHandles in src/src/photofs/utils.rs), *)
(* of which the file system keeps one for files and one for directories: a *)
(* function from the handles in use to what was opened under them.         *)
(***************************************************************************)
EXTENDS Integers, FiniteSets, FiniteSetsExt, Functions

NoHandles == [fh \in {} |-> fh]

\* A wrong variant: the size of the table.
CountHandle(fhs) == Cardinality(DOMAIN fhs)

\* A wrong variant: the number after the largest in use.
NextHandle(fhs) == IF DOMAIN fhs = {} THEN 0 ELSE Max(DOMAIN fhs) + 1

\* The loop of open() counts up from 0 and stops at the first unused handle, which is
\* one of the first Cardinality + 1.
FreeHandle(fhs) == Min((0..Cardinality(DOMAIN fhs)) \ DOMAIN fhs)

\* The table with x under a new handle.
WithHandle(fhs, fh, x) ==
  [h \in DOMAIN fhs \cup {fh} |-> IF h = fh THEN x ELSE fhs[h]]

WithoutHandle(fhs, fh) == Restrict(fhs, DOMAIN fhs \ {fh})
=============================================================================
