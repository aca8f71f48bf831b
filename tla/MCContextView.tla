----------------------------- MODULE MCContextView -----------------------------
EXTENDS ContextView

================================================================================
