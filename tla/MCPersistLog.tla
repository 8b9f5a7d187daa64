---------------------------- MODULE MCPersistLog ----------------------------
(***************************************************************************)
(* PersistLog for TLC.  States are told apart by what can still be read:   *)
(* which names are the same inode and what the inode holds, whatever its   *)
(* number; what a backup of its own holds is read only without an active   *)
(* file.  The push proxies of a channel are interchangeable.               *)
(***************************************************************************)
EXTENDS PersistLog, TLC

Same(n) == {m \in FileNames : file[m] = file[n]}

Content(n) ==
  IF file[n] = NoFile \/ (n = "backup" /\ file["active"] # NoFile /\ Same(n) = {n})
  THEN EmptyTree ELSE data[file[n]]

Files == [n \in FileNames |-> <<file[n] # NoFile, Same(n), Content(n)>>]

View == <<up, memory, Files, {n \in FileNames : file[n] = log}, worker, past, crashes, ioErrors>>

Symmetry == Permutations(PushNames)
=============================================================================
