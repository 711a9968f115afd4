-------------------------- MODULE CoordinationPaths -------------------------
(***************************************************************************)
(* Repository paths as the coordination stores compare them: sequences of  *)
(* segments.  The comparison is of text, so it knows nothing of ".." and   *)
(* treats the root "." as an ordinary segment.                             *)
(***************************************************************************)
EXTENDS Sequences, SequencesExt

(* Path(p).as_posix(): "." segments vanish, a path of nothing else is ".". *)
normalize_path(raw) ==
    LET segments == SelectSeq(raw, LAMBDA s : s # ".")
    IN  IF segments = <<>> THEN <<".">> ELSE segments

(* parent is child or one of its ancestors. *)
IsPathPrefix(parent, child) == parent = child \/ IsStrictPrefix(parent, child)

=============================================================================
