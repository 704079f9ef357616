------------------------------ MODULE FileStore ------------------------------
(***************************************************************************)
(* What a file system promises its callers (fs.h:31-40), with no table and *)
(* no data array: each name leads to a directory or to a file, and a file  *)
(* has the contents last written to it.  A call may be refused, and then   *)
(* nothing changes.                                                        *)
(***************************************************************************)
EXTENDS Integers, Sequences

CONSTANTS Names, Root, Contents, Directory

VARIABLES
  files,  (* what each existing name leads to                              *)
  ret     (* 0 when the last call was carried out                          *)

vars == <<files, ret>>

With(f, n, v) == [m \in DOMAIN f \cup {n} |-> IF m = n THEN v ELSE f[m]]

Init == files = <<>> /\ ret = 0

Create(n) ==
  /\ n \notin DOMAIN files
  /\ \E v \in {Directory, <<>>} : files' = With(files, n, v)
  /\ ret' = 0

Write(n, d) ==
  /\ n \in DOMAIN files => files[n] # Directory
  /\ files' = With(files, n, d)
  /\ ret' = 0

Delete(n) ==
  /\ n \in DOMAIN files \ {Root}
  /\ files' = [m \in DOMAIN files \ {n} |-> files[m]]
  /\ ret' = 0

Refuse == ret' # 0 /\ UNCHANGED files

Next ==
  \/ \E n \in Names : Create(n) \/ Delete(n)
  \/ \E n \in Names, d \in Contents : Write(n, d)
  \/ Refuse

Spec == Init /\ [][Next]_vars
=============================================================================
