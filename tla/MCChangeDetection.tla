--------------------------- MODULE MCChangeDetection ---------------------------
(***************************************************************************)
(* Scope for every change set of at most two files in six workspaces.      *)
(***************************************************************************)
EXTENDS Scope

Sub == <<"ws">>

Layouts ==
  { \* two packages side by side; one inside the other; a package at the root
    LayoutOf(Top, [a |-> <<"a">>, b |-> <<"b">>]),
    LayoutOf(Top, [a |-> <<"a">>, b |-> <<"a", "b">>]),
    LayoutOf(Top, [a |-> <<>>, b |-> <<"b">>]),
    \* the same workspaces in a subdirectory of the repository, and one with a
    \* member outside the workspace root
    LayoutOf(Sub, [a |-> <<"ws", "a">>, b |-> <<"ws", "b">>]),
    LayoutOf(Sub, [a |-> <<"ws">>, b |-> <<"ws", "b">>]),
    LayoutOf(Sub, [a |-> <<"ws", "a">>, b |-> <<"b">>]) }

Roots(l) == { l.package_root[p] : p \in DOMAIN l.package_root }

\* Sources and manifests of the packages, the workspace manifest, a stray file.
Files(l) ==
  { root \o <<file>> : root \in Roots(l) \cup {l.workspace_root}, file \in {Manifest, "lib.rs"} }
    \cup {<<"README.md">>}

Edits(l) == { Change(f, f, v) : f \in Files(l), v \in BOOLEAN }
Adds(l) == { Change(NoPath, f, f[Len(f)] = Manifest) : f \in Files(l) }
Deletes(l) == { Change(f, NoPath, f[Len(f)] = Manifest) : f \in Files(l) }
Moves(l) == { Change(f, root \o <<"moved.rs">>, FALSE) :
                f \in { g \in Files(l) : g[Len(g)] = "lib.rs" }, root \in Roots(l) }

\* Only a manifest has a version line.
Changes(l) ==
  { c \in Edits(l) \cup Adds(l) \cup Deletes(l) \cup Moves(l) :
      c.version => Manifest \in {Last(p) : p \in {c.old, c.new} \ {NoPath}} }

\* A file is in at most one entry of a diff.
Apart(c, d) == c # d => {c.old, c.new} \cap {d.old, d.new} \subseteq {NoPath}

ChangeSets(l) ==
  { {cd[1], cd[2]} : cd \in { cd \in Changes(l) \X Changes(l) : Apart(cd[1], cd[2]) } }

MCQuestions ==
  UNION { { [layout |-> l, changes |-> set] : set \in {{}} \cup ChangeSets(l) } : l \in Layouts }

=============================================================================
