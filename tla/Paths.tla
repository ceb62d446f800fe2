-------------------------------- MODULE Paths --------------------------------
(***************************************************************************)
(* Paths as the sequences of their elements, and what the path packages of *)
(* Go do with them.  An absolute path is written without its leading       *)
(* slash; which paths are absolute is known where they are used.           *)
(***************************************************************************)
EXTENDS Integers, SequencesExt

\* path.Clean of a relative path: "." goes, ".." takes the element before it.
CleanPath(path) ==
  LET add(out, e) ==
        IF e = "." THEN out
        ELSE IF e = ".." /\ out # << >> /\ Last(out) # ".." THEN Front(out)
        ELSE Append(out, e)
  IN FoldLeft(add, << >>, path)

\* path.Clean of an absolute path: nothing lies above the root.
CleanAbsolute(path) ==
  LET add(out, e) ==
        IF e = "." THEN out
        ELSE IF e = ".." THEN (IF out = << >> THEN out ELSE Front(out))
        ELSE Append(out, e)
  IN FoldLeft(add, << >>, path)

DirOf(path) == IF path = << >> THEN << >> ELSE Front(path)

JoinPath(base, path) == CleanPath(base \o path)

\* filepath.Rel of two clean relative paths: up to what they share, then down.
RelPath(base, target) ==
  LET shared == Max({k \in 0..Min({Len(base), Len(target)}) : SubSeq(base, 1, k) = SubSeq(target, 1, k)})
      path == [k \in 1..Len(base) - shared |-> ".."] \o SubSeq(target, shared + 1, Len(target))
  IN IF path = << >> THEN << "." >> ELSE path

=============================================================================
