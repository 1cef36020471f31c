---------------------------- MODULE MCWebView ----------------------------
\* Instances of WebPolicy for TLC: what the model is told of one table.
EXTENDS WebPolicy
=============================================================================
