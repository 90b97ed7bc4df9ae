--------------------------- MODULE MCBenchmarkStage ---------------------------
EXTENDS BenchmarkStage

MCAgents     == {"claude", "kimi"}
MCProblems   == {"p1"}
MCBenchmarks == {"b1", "b2"}
MCSlots      == {1}

=============================================================================
