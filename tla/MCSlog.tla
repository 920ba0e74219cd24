------------------------------- MODULE MCSlog -------------------------------
(* Instances of Slog for TLC. *)
EXTENDS Slog, TLC

Settings(p, f, r, k) ==
  [path |-> p, toFile |-> f, rotate |-> r, keepOpen |-> k,
   callback |-> FALSE, nFlags |-> Levels]

\* To a file under either name, rotated or not, kept open; closed after each
\* line; or to no file.
MCConfigs ==
  {Settings(p, TRUE, r, TRUE) : p \in Paths, r \in BOOLEAN}
  \cup {Settings(CHOOSE p \in Paths : TRUE, r, r, FALSE) : r \in BOOLEAN}
=============================================================================
