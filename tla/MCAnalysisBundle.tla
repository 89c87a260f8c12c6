--------------------------- MODULE MCAnalysisBundle ---------------------------
EXTENDS AnalysisBundle

CONSTANTS e1, e2

MCCalls == {e1, e2}
MCInsides == {"nothing"}
MCNothing == "nothing"
=============================================================================
