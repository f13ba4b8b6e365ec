------------------------- MODULE MCInferenceClient --------------------------
EXTENDS InferenceClient
=============================================================================
