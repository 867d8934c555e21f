--------------------------------- MODULE Engine ---------------------------------
(***************************************************************************)
(* CargoSemverChecksEngine::build_command of semverguard-engine/src/       *)
(* lib.rs: the flags `cargo semver-checks check-release` is run with.      *)
(***************************************************************************)
EXTENDS Sequences

\* What the request takes over from the configuration; kind and rev apart, a
\* field says whether the option is set.
RequestFields ==
  {"version", "root", "rustdoc", "all_features", "default_features",
   "only_explicit_features", "features", "baseline_features", "current_features"}

NoRequest == [ f \in RequestFields |-> f = "default_features" ]

\* A command line is a list of options.  The revision comes with its value;
\* the value of any other is left out.
Unsaid == "none"

Option(set, option, value) == IF set THEN << <<option, value>> >> ELSE <<>>
Flag(set, option) == Option(set, option, Unsaid)

BaselineFlags(kind, rev, request) ==
  Flag(kind = "CratesIo" /\ request.version, "--baseline-version")
    \o Option(kind = "Git" /\ rev # Unsaid, "--baseline-rev", rev)
    \o Flag(request.root, "--baseline-root")
    \o Flag(request.rustdoc, "--baseline-rustdoc")

FeatureFlags(request) ==
  Flag(request.all_features, "--all-features")
    \o Flag(request.default_features, "--default-features")
    \o Flag(request.only_explicit_features, "--only-explicit-features")
    \o Flag(request.features, "--features")
    \o Flag(request.baseline_features, "--baseline-features")
    \o Flag(request.current_features, "--current-features")

\* The extra arguments come last.
build_command(kind, rev, request, extra_args) ==
  << <<"semver-checks", Unsaid>>, <<"check-release", Unsaid>>, <<"--manifest-path", Unsaid>> >>
    \o BaselineFlags(kind, rev, request) \o FeatureFlags(request) \o extra_args

=============================================================================
