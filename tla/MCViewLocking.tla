--------------------------- MODULE MCViewLocking ----------------------------
(***************************************************************************)
(* A folder d with the files a and b, and the jobs the processes may run.  *)
(***************************************************************************)
EXTENDS ViewLocking, TLC

CONSTANTS r1, r2, c, a, b, d

Tree == {a, b, d}
TreeParents == (a :> <<d>>) @@ (b :> <<d>>) @@ (d :> <<>>)

On(op, k) == [op |-> op, src |-> k, dst |-> k]
FromTo(op, s, t) == [op |-> op, src |-> s, dst |-> t]

\* Every operation, on a file, on its folder, and between the files.
AllOperations ==
  {On("read", b), On("write", b), On("delete", d), On("put", a), On("open", b),
   FromTo("rename", a, b), FromTo("copy", a, b)}

Renames == {On("write", b), On("delete", d), FromTo("rename", a, b)}

\* Two web requests, and a command-line process that does not rename.
Processes == {r1, r2, c}
WebRequests == {r1, r2}
EveryJob ==
  (r1 :> AllOperations) @@ (r2 :> AllOperations)
    @@ (c :> AllOperations \ {FromTo("rename", a, b)})

\* Two command-line processes that rename.
TwoCli == {r1, r2}
RenameJobs == [p \in TwoCli |-> Renames]

NoProcs == {}
NoLiberty == {}
Symmetry == Permutations(WebRequests)
=============================================================================
