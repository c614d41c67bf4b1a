------------------------------ MODULE MCServe -------------------------------
EXTENDS Serve
CONSTANTS h1
=============================================================================
