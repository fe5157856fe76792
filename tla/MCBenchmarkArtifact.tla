------------------------ MODULE MCBenchmarkArtifact ------------------------
(* BenchmarkArtifact for TLC: four episodes, two kinds of failure and two  *)
(* runs, so that the second finds every file the first can leave.          *)
EXTENDS BenchmarkArtifact

MCCategories == {"timeout", "handoff"}
=============================================================================
